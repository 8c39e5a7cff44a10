---------------------------- MODULE MCReactions ----------------------------
(* A small instance of Reactions for TLC. *)
EXTENDS Reactions

CONSTANTS author, fan, p1, r1, r2, r3

AuthorAndFan == {author, fan}
OnePost == {p1}
ByAuthor == [p \in OnePost |-> author]
Toggles == {<<"like", author, p1>>, <<"like", fan, p1>>, <<"repost", fan, p1>>}
Calls == {r1, r2, r3}
=============================================================================
