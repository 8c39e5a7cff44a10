----------------------------- MODULE MCMessages -----------------------------
(* A small instance of Messages for TLC. *)
EXTENDS Messages, TLC

CONSTANTS u1, u2, u3, r1, r2, r3, s1, s2

Users == {u1, u2, u3}
Two == <<u1, u2>>
ThreeLists == {Two, <<u2, u1>>, <<u3, u1, u2>>}
Calls == {r1, r2, r3}
Sockets == {s1, s2}
SameUser == [s \in Sockets |-> u1]

\* Creations with leaving, the calls of a group's owner, the settings, messages
\* while somebody leaves, and messages with sockets.
FiveMixes == {{"create", "leave"}, {"add", "leave", "update"}, {"pin", "mute"},
              {"send", "leave"}, {"send", "connect"}}

Interchangeable == Permutations(Calls) \union Permutations(Sockets)
=============================================================================
