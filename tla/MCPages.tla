------------------------------- MODULE MCPages -------------------------------
(***************************************************************************)
(* Three posts, one of them the user's, two posts to a page, so that there is  *)
(* a next page from the start; two mutations of the user's or changes by       *)
(* others, one of which may add a post; three turns to another list or drops.   *)
(***************************************************************************)
EXTENDS PageCache, TLC

CONSTANTS m1, m2
TwoMutations == {m1, m2}
Sym == Permutations(TwoMutations)
=============================================================================
