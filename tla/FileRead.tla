------------------------------- MODULE FileRead -------------------------------
(***************************************************************************)
(* What reading a file of the card to its end promises: it takes one step, *)
(* and gives either the rest of the file, whole and in order, or failure.  *)
(***************************************************************************)
EXTENDS Naturals, Sequences

VARIABLES
  fileLength,  \* the length of the file
  start,       \* the offset from which it is asked for
  outcome,     \* "pending", "failed" or "read"
  content      \* what was read; empty unless outcome is "read"

readvars == <<fileLength, start, outcome, content>>

(* The bytes of the file from offset first up to, not including, offset    *)
(* last.  A byte is named by its offset.                                   *)
Bytes(first, last) == [i \in 1 .. last - first |-> first + i - 1]

ReadInit ==
  /\ fileLength \in Nat
  /\ start \in 0 .. fileLength
  /\ outcome = "pending"
  /\ content = <<>>

Succeed ==
  /\ outcome' = "read"
  /\ content' = Bytes(start, fileLength)

Fail ==
  /\ outcome' = "failed"
  /\ UNCHANGED content

ReadNext ==
  /\ outcome = "pending"
  /\ Succeed \/ Fail
  /\ UNCHANGED <<fileLength, start>>

Spec == ReadInit /\ [][ReadNext]_readvars

=============================================================================
