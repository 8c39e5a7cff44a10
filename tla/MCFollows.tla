----------------------------- MODULE MCFollows -----------------------------
(* A small instance of Follows for TLC. *)
EXTENDS Follows

CONSTANTS u1, u2, u3, unknown, r1, r2, r3

Users == {u1, u2, u3}
UsersAndUnknown == Users \union {unknown}
Calls == {r1, r2, r3}

\* Two users who follow each other, a second follower of one of them, oneself, and an
\* id that nobody has.
Pairs == {<<u1, u2>>, <<u2, u1>>, <<u3, u2>>, <<u1, u1>>, <<u1, unknown>>}
=============================================================================
