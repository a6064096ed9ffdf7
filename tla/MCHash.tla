------------------------------- MODULE MCHash -------------------------------
(***************************************************************************)
(* Module Hash for TLC.                                                    *)
(***************************************************************************)
EXTENDS Hash, TLC

CONSTANTS A, B,     \* two classes of keys that collide
          C         \* keys that collide with A's, and are registered again

MCKeys == A \cup B \cup C

\* Neighbouring hashes, so that the probes of one class cross the other's.
MCHash == [k \in MCKeys |-> IF k \in B THEN 1 ELSE 0]

MCCapacities == {MINSIZE * 2^i : i \in 0 .. 3}

MCSymmetry == Permutations(A) \cup Permutations(B)
=============================================================================
