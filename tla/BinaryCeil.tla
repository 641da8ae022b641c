----------------------------- MODULE BinaryCeil -----------------------------
(***************************************************************************)
(* binaryCeil (internal/pool.go) as it is written: unsigned arithmetic of  *)
(* Width bits that smears the highest bit of v - 1 to the right.           *)
(***************************************************************************)
EXTENDS Integers, SequencesExt, Bitwise

CONSTANT Width

Wrap(n) == n % 2^Width
Smear(v, k) == v | shiftR(v, k)
binaryCeil(v) == Wrap(FoldLeft(Smear, Wrap(v - 1), <<1, 2, 4, 8, 16>>) + 1)
=============================================================================
