------------------------------ MODULE MCBackends ------------------------------
(* A small instance of Backends for TLC. *)
EXTENDS Backends, TLC

CONSTANTS r1, r2

TwoReaders == {r1, r2}
OneReader == {r1}

(* The readers are interchangeable. *)
ReaderSymmetry == Permutations(TwoReaders)

=============================================================================
