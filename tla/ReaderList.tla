------------------------------ MODULE ReaderList ------------------------------
(***************************************************************************)
(* NIS_ReaderList: the names of the readers are packed, each with a NUL    *)
(* after it and one more at the end, into an array of the client or into   *)
(* one allocated for it.  One step is one turn of a loop of the function.  *)
(***************************************************************************)
EXTENDS Integers, Sequences

CONSTANTS
  NameLengths,  \* the lists of readers, each by the lengths of its names
  Sizes         \* the values of *len: 0 asks for an allocated array

ASSUME ListAssumption == NameLengths \subseteq Seq(Nat) /\ Sizes \subseteq Nat

(* A character of the array: the i-th one of the k-th name, or one of      *)
(* these, which are not characters of a name.                              *)
Nul == <<0, 0>>
Stale == <<0, 1>>  \* what the array held before

VARIABLES
  lengths,       \* allReaders
  totals,        \* the values of totLen in the first loop (a history variable)
  asked,         \* *len as the client gave it
  cells,         \* the array, as a function on its indices
  copied,        \* the names that were copied
  at,            \* s, as an index
  remainingLen,
  listing        \* where the call is

rlvars == <<lengths, totals, asked, cells, copied, at, remainingLen, listing>>

NIS_ReaderList ==
  /\ listing = "idle"
  /\ listing' = "measuring"
  /\ lengths' \in NameLengths
  /\ asked' \in Sizes
  /\ totals' = <<0>>
  /\ UNCHANGED <<cells, copied, at, remainingLen>>

MeasureName ==
  /\ listing = "measuring"
  /\ Len(totals) <= Len(lengths)
  /\ totals' = Append(totals, totals[Len(totals)] + lengths[Len(totals)])
  /\ UNCHANGED <<lengths, asked, cells, copied, at, remainingLen, listing>>

(* Mutant of TotLen: there is no room for the end mark. *)
TotLenNoEndMark == totals[Len(totals)] + Len(lengths)

TotLen == totals[Len(totals)] + Len(lengths) + 1

(* Mutant of TakeArray: the last cell of the array is kept for a NUL. *)
TakeArrayKeepingOne ==
  LET room == IF asked = 0 THEN TotLen ELSE asked IN
  /\ listing = "measuring"
  /\ Len(totals) > Len(lengths)
  /\ listing' = "copying"
  /\ cells' = [c \in 0 .. room - 1 |-> Stale]
  /\ copied' = 0
  /\ at' = 0
  /\ remainingLen' = room - 1
  /\ UNCHANGED <<lengths, totals, asked>>

TakeArray ==
  LET room == IF asked = 0 THEN TotLen ELSE asked IN
  /\ listing = "measuring"
  /\ Len(totals) > Len(lengths)
  /\ listing' = "copying"
  /\ cells' = [c \in 0 .. room - 1 |-> Stale]
  /\ copied' = 0
  /\ at' = 0
  /\ remainingLen' = room
  /\ UNCHANGED <<lengths, totals, asked>>

(* strncpy writes remainingLen characters, NULs where the name has ended;  *)
(* none of them is a NUL when the name is as long as that.                 *)
Strncpy(k) ==
  [c \in DOMAIN cells |->
     IF c < at \/ c >= at + remainingLen THEN cells[c]
     ELSE IF c < at + lengths[k] THEN <<k, c - at>> ELSE Nul]

(* Mutant of CopyName: the NUL after the name does not count. *)
CopyNameWithoutNul ==
  /\ listing = "copying"
  /\ copied < Len(lengths)
  /\ \/ /\ remainingLen < 0
        /\ listing' = "undefined"
        /\ UNCHANGED <<cells, copied, at, remainingLen>>
     \/ /\ remainingLen >= 0
        /\ cells' = Strncpy(copied + 1)
        /\ copied' = copied + 1
        /\ at' = at + lengths[copied + 1] + 1
        /\ remainingLen' = remainingLen - lengths[copied + 1]
        /\ UNCHANGED listing
  /\ UNCHANGED <<lengths, totals, asked>>

(* Mutant of CopyName: the next name begins on the NUL of this one. *)
CopyNameOverNul ==
  /\ listing = "copying"
  /\ copied < Len(lengths)
  /\ remainingLen >= 0
  /\ cells' = Strncpy(copied + 1)
  /\ copied' = copied + 1
  /\ at' = at + lengths[copied + 1]
  /\ remainingLen' = remainingLen - lengths[copied + 1]
  /\ UNCHANGED <<lengths, totals, asked, listing>>

(* A negative remainingLen is a huge size_t: the copy runs off the array.  *)
CopyName ==
  /\ listing = "copying"
  /\ copied < Len(lengths)
  /\ \/ /\ remainingLen < 0
        /\ listing' = "undefined"
        /\ UNCHANGED <<cells, copied, at, remainingLen>>
     \/ /\ remainingLen >= 0
        /\ cells' = Strncpy(copied + 1)
        /\ copied' = copied + 1
        /\ at' = at + lengths[copied + 1] + 1
        /\ remainingLen' = remainingLen - (lengths[copied + 1] + 1)
        /\ UNCHANGED listing
  /\ UNCHANGED <<lengths, totals, asked>>

EndList ==
  /\ listing = "copying"
  /\ copied = Len(lengths)
  /\ listing' = "listed"
  /\ cells' = IF remainingLen > 0 THEN [cells EXCEPT ![at] = Nul] ELSE cells
  /\ UNCHANGED <<lengths, totals, asked, copied, at, remainingLen>>

RlInit ==
  /\ lengths = <<>>
  /\ totals = <<0>>
  /\ asked = 0
  /\ cells = [c \in {} |-> Nul]
  /\ copied = 0
  /\ at = 0
  /\ remainingLen = 0
  /\ listing = "idle"

RlNext == NIS_ReaderList \/ MeasureName \/ TakeArray \/ CopyName \/ EndList

RlSpec == RlInit /\ [][RlNext]_rlvars

-----------------------------------------------------------------------------
(* Where the k-th name of the list begins; the end mark is where one more  *)
(* would.                                                                  *)
Position(k) == totals[k] + k - 1

(* The state is of these types, and what is left of the array is always    *)
(* counted right: at and remainingLen add up to its size.                  *)
RlTypeOK ==
  /\ lengths \in Seq(Nat)
  /\ totals \in Seq(Nat)
  /\ Len(totals) \in 1 .. Len(lengths) + 1
  /\ asked \in Nat
  /\ cells \in [0 .. at + remainingLen - 1 ->
                 ((1 .. Len(lengths)) \X Nat) \cup {Nul, Stale}]
  /\ copied \in 0 .. Len(lengths)
  /\ at \in Nat
  /\ remainingLen \in Int
  /\ listing \in {"idle", "measuring", "copying", "listed", "undefined"}

(* What the client finds in the array is the list, as far as the array     *)
(* goes: each name where those before it end, a NUL after it, and no       *)
(* character that the array held before it, unless there is no name.       *)
ListInPlace ==
  listing = "listed" =>
    \A c \in DOMAIN cells :
      \/ \E k \in DOMAIN lengths :
           /\ c \in Position(k) .. Position(k) + lengths[k] - 1
           /\ cells[c] = <<k, c - Position(k)>>
      \/ /\ \A k \in DOMAIN lengths : c \notin Position(k) .. Position(k) + lengths[k] - 1
         /\ cells[c] = Nul \/ (lengths = <<>> /\ c > 0)

(* An array that was allocated for the client takes the whole list, with   *)
(* its end mark, and the copies stay in it.                                *)
AllocatedListFits ==
  asked = 0 =>
    /\ listing # "undefined"
    /\ listing = "listed" => Position(Len(lengths) + 1) \in DOMAIN cells

(* The copies leave an array of the client only if its last name would     *)
(* begin beyond it; a shorter array merely cuts the list, even in the      *)
(* middle of a name.                                                       *)
OnlyLastNameCut ==
  listing = "undefined" =>
    \A c \in DOMAIN cells : c < Position(Len(lengths)) - 1

=============================================================================
