------------------------------- MODULE MCPage -------------------------------
(* A small instance of Page for TLC. *)
EXTENDS Page, TLC

CONSTANTS u1, u2, i1, i2, s1, s2, t1

TwoUsers == {u1, u2}
TwoUrls == {i1, i2}
TwoSaves == {s1, s2}
OneTag == {t1}

\* Users, URLs and saves are interchangeable: no action compares or orders them.
Interchangeable == Permutations(TwoUsers) \union Permutations(TwoUrls) \union Permutations(TwoSaves)
=============================================================================
