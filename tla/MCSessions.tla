----------------------------- MODULE MCSessions -----------------------------
(* A small instance of Sessions for TLC. *)
EXTENDS Sessions, TLC

CONSTANTS b1, b2, r1, r2, r3

TwoBrowsers == {b1, b2}
Calls == {r1, r2, r3}

Interchangeable == Permutations(Calls) \union Permutations(TwoBrowsers)
=============================================================================
