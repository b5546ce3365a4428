----------------------------- MODULE MCCardSession -----------------------------
(* A small instance of CardSession for TLC. *)
EXTENDS CardSession, TLC

CONSTANTS t1, t2

TwoThreads == {t1, t2}
OneThread == {t1}

AllAuths == {"none", "passive", "internal"}
NoAuth == {"none"}
InternalAuth == {"internal"}

(* The threads are interchangeable. *)
ThreadSymmetry == Permutations(TwoThreads)

=============================================================================
