---------------------------- MODULE FollowGraph ----------------------------
(***************************************************************************)
(* What the follow feature promises: a directed graph between users with    *)
(* two denormalised counters per user, where one step adds or removes one    *)
(* edge and moves both counters with it.  FollowsService implements it with  *)
(* interactive transactions that overlap (module Follows).                   *)
(***************************************************************************)
EXTENDS Integers

CONSTANT User      \* the accounts

VARIABLES follows,         \* rows of the follows table, <<follower, followed>>
          followersCount,  \* users.followers_count
          followingCount   \* users.following_count

vars == <<follows, followersCount, followingCount>>

Edge == {e \in User \X User : e[1] # e[2]}

Init ==
    /\ follows = {}
    /\ followersCount = [u \in User |-> 0]
    /\ followingCount = [u \in User |-> 0]

AddEdge(e) ==
    /\ e \notin follows
    /\ follows' = follows \union {e}
    /\ followingCount' = [followingCount EXCEPT ![e[1]] = @ + 1]
    /\ followersCount' = [followersCount EXCEPT ![e[2]] = @ + 1]

RemoveEdge(e) ==
    /\ e \in follows
    /\ follows' = follows \ {e}
    /\ followingCount' = [followingCount EXCEPT ![e[1]] = @ - 1]
    /\ followersCount' = [followersCount EXCEPT ![e[2]] = @ - 1]

Next == \E e \in Edge : AddEdge(e) \/ RemoveEdge(e)

Spec == Init /\ [][Next]_vars
=============================================================================
