------------------------------ MODULE Follows ------------------------------
(***************************************************************************)
(* FollowsService (threads-be/src/modules/follows/follows.service.ts) and    *)
(* the notification it sends after its transaction commits.  A call of       *)
(* POST /follows/toggle runs as a sequence of awaited statements, so calls   *)
(* overlap statement by statement, on one server process or on several.      *)
(*                                                                          *)
(* Postgres, READ COMMITTED: a statement that writes a row waits for the     *)
(* transaction that wrote it last, then sees what that one committed; the    *)
(* rows a transaction wrote become visible together when it commits.         *)
(***************************************************************************)
EXTENDS Integers, FiniteSets

CONSTANTS User,         \* the accounts
          Id,           \* what a request can name: an account or an unknown id
          Req,          \* the calls of toggleFollow, each used once
          Asked         \* bound: the pairs of a caller and an id that calls are about

ASSUME FollowsAssumption == User \subseteq Id /\ Asked \subseteq User \X Id

VARIABLES follows,         \* committed rows of follows
          followersCount,  \* committed users.followers_count
          followingCount,  \* committed users.following_count
          notifs,          \* committed FOLLOW rows of notifications, named by
                           \* the call that created them
          old,             \* the rows of notifs created more than 24h ago
          met,             \* ghost: pairs of which two calls have overlapped
          pc,              \* the next statement of each call
          call,            \* <<followerId, followingId>> of each call
          op,              \* the branch toggleFollow took
          written          \* what the call's transaction has written and not
                           \* committed: the two counters and the rows of
                           \* notifications its deleteMany has removed

tables == <<follows, followersCount, followingCount, notifs, old, met>>
vars == <<tables, pc, call, op, written>>

NoCall == <<>>
NothingWritten == [following |-> 0, followers |-> 0, doomed |-> {}]

\* The statements of the two transactions, in the order of the code.
InTx == {"bumpFollower", "bumpFollowed", "clear", "commit"}
Final == {"done", "rejected", "failed", "lost"}
Pc == {"idle", "read", "check", "insert", "delete", "notify", "create"}
        \union InTx \union Final

Init ==
    /\ follows = {}
    /\ followersCount = [u \in User |-> 0]
    /\ followingCount = [u \in User |-> 0]
    /\ notifs = {}
    /\ old = {}
    /\ met = {}
    /\ pc = [r \in Req |-> "idle"]
    /\ call = [r \in Req |-> NoCall]
    /\ op = [r \in Req |-> "none"]
    /\ written = [r \in Req |-> NothingWritten]

InFlight == {r \in Req : pc[r] \notin Final \union {"idle"}}

\* The list routes: getFollowerList and getFollowingList.
FollowerRows(u) == {e \in follows : e[2] = u}
FollowingRows(u) == {e \in follows : e[1] = u}

-----------------------------------------------------------------------------
(***************************************************************************)
(* Row locks.  A transaction locks the follows row (through its unique       *)
(* index), then the follower's users row, then the followed user's row, and  *)
(* keeps them until it ends; so its locks follow from its next statement.    *)
(***************************************************************************)
LocksEdge(r, e) == pc[r] \in InTx /\ call[r] = e

LocksUser(r, u) ==
    \/ pc[r] \in {"bumpFollowed", "clear", "commit"} /\ call[r][1] = u
    \/ pc[r] \in {"clear", "commit"} /\ call[r][2] = u

WaitsFor(r, q) ==
    \/ pc[r] \in {"insert", "delete"} /\ LocksEdge(q, call[r])
    \/ pc[r] = "bumpFollower" /\ LocksUser(q, call[r][1])
    \/ pc[r] = "bumpFollowed" /\ LocksUser(q, call[r][2])

Granted(r) == \A q \in Req \ {r} : ~WaitsFor(r, q)

\* A waiting call waits for one row with one owner, so a set in which everyone
\* waits for a member and is waited for by a member is a union of cycles.
Deadlocked(r) ==
    \E S \in SUBSET Req :
        /\ r \in S
        /\ \A p \in S : \E q \in S \ {p} : WaitsFor(p, q)
        /\ \A p \in S : \E q \in S \ {p} : WaitsFor(q, p)

-----------------------------------------------------------------------------
Goto(r, l) == pc' = [pc EXCEPT ![r] = l]

\* toggleFollow is called; following oneself is refused at once.
Begin(r) ==
    /\ pc[r] = "idle"
    /\ \E e \in Asked :
        /\ call' = [call EXCEPT ![r] = e]
        /\ Goto(r, IF e[1] = e[2] THEN "rejected" ELSE "read")
        /\ met' = met \union {x \in {e} : \E q \in InFlight : call[q] = x}
    /\ UNCHANGED <<follows, followersCount, followingCount, notifs, old, op, written>>

\* The row is read outside any transaction and decides the branch.
ReadFollow(r) ==
    /\ pc[r] = "read"
    /\ IF call[r] \in follows
         THEN /\ op' = [op EXCEPT ![r] = "unfollow"]
              /\ Goto(r, "delete")
         ELSE /\ op' = [op EXCEPT ![r] = "follow"]
              /\ Goto(r, "check")
    /\ UNCHANGED <<tables, call, written>>

\* follow: both users must exist, and the row is read a second time.
CheckFollow(r) ==
    /\ pc[r] = "check"
    /\ IF call[r] \in User \X User /\ call[r] \notin follows
         THEN Goto(r, "insert")
         ELSE Goto(r, "rejected")
    /\ UNCHANGED <<tables, call, op, written>>

\* Altered: the unique violation is answered by trying the insert again.
InsertFollow_Retries(r) ==
    /\ pc[r] = "insert"
    /\ Granted(r)
    /\ Goto(r, IF call[r] \in follows THEN "insert" ELSE "bumpFollower")
    /\ UNCHANGED <<tables, call, op, written>>

\* Altered: an upsert, which takes a committed row for its own.
InsertFollow_Upserts(r) ==
    /\ pc[r] = "insert"
    /\ Granted(r)
    /\ Goto(r, "bumpFollower")
    /\ UNCHANGED <<tables, call, op, written>>

\* The transaction of follow opens with the insert: the unique index makes it
\* wait for another writer of the same row and reject a committed one.
InsertFollow(r) ==
    /\ pc[r] = "insert"
    /\ Granted(r)
    /\ IF call[r] \in follows THEN Goto(r, "failed") ELSE Goto(r, "bumpFollower")
    /\ UNCHANGED <<tables, call, op, written>>

\* Altered: deleteMany, which is content with no row.
DeleteFollow_Many(r) ==
    /\ pc[r] = "delete"
    /\ Granted(r)
    /\ Goto(r, "bumpFollower")
    /\ UNCHANGED <<tables, call, op, written>>

\* The transaction of unFollow opens with the delete: P2025 when it sees no
\* row, which an insert that has not committed does not prevent.
DeleteFollow(r) ==
    /\ pc[r] = "delete"
    /\ \/ call[r] \notin follows /\ Goto(r, "rejected")
       \/ call[r] \in follows /\ Granted(r) /\ Goto(r, "bumpFollower")
    /\ UNCHANGED <<tables, call, op, written>>

\* An update locks the row and counts from the value last committed.
Delta(r) == IF op[r] = "follow" THEN 1 ELSE -1

BumpFollower(r) ==
    /\ pc[r] = "bumpFollower"
    /\ Granted(r)
    /\ written' = [written EXCEPT ![r].following = followingCount[call[r][1]] + Delta(r)]
    /\ Goto(r, "bumpFollowed")
    /\ UNCHANGED <<tables, call, op>>

\* Altered: the counter is computed from a plain read, without the row's lock.
BumpFollowed_ReadModifyWrite(r) ==
    /\ pc[r] = "bumpFollowed"
    /\ written' = [written EXCEPT ![r].followers = followersCount[call[r][2]] + Delta(r)]
    /\ Goto(r, IF op[r] = "follow" THEN "commit" ELSE "clear")
    /\ UNCHANGED <<tables, call, op>>

BumpFollowed(r) ==
    /\ pc[r] = "bumpFollowed"
    /\ Granted(r)
    /\ written' = [written EXCEPT ![r].followers = followersCount[call[r][2]] + Delta(r)]
    /\ Goto(r, IF op[r] = "follow" THEN "commit" ELSE "clear")
    /\ UNCHANGED <<tables, call, op>>

\* Altered: actor and recipient exchanged in the filter.
ClearNotifs_Swapped(r) ==
    /\ pc[r] = "clear"
    /\ written' = [written EXCEPT ![r].doomed =
                     {n \in notifs : call[n] = <<call[r][2], call[r][1]>>}]
    /\ Goto(r, "commit")
    /\ UNCHANGED <<tables, call, op>>

\* Altered: unFollow without its deleteMany.
ClearNotifs_Forgotten(r) ==
    /\ pc[r] = "clear"
    /\ Goto(r, "commit")
    /\ UNCHANGED <<tables, call, op, written>>

\* notification.deleteMany removes the rows committed when it runs, not those
\* that commit before the transaction does.
ClearNotifs(r) ==
    /\ pc[r] = "clear"
    /\ written' = [written EXCEPT ![r].doomed = {n \in notifs : call[n] = call[r]}]
    /\ Goto(r, "commit")
    /\ UNCHANGED <<tables, call, op>>

\* Everything the transaction has written becomes visible, and its locks go.
Commit(r) ==
    /\ pc[r] = "commit"
    /\ followingCount' = [followingCount EXCEPT ![call[r][1]] = written[r].following]
    /\ followersCount' = [followersCount EXCEPT ![call[r][2]] = written[r].followers]
    /\ IF op[r] = "follow"
         THEN follows' = follows \union {call[r]} /\ Goto(r, "notify")
         ELSE follows' = follows \ {call[r]} /\ Goto(r, "done")
    /\ notifs' = notifs \ written[r].doomed
    /\ old' = old \ written[r].doomed
    /\ written' = [written EXCEPT ![r] = NothingWritten]
    /\ UNCHANGED <<met, call, op>>

\* sendNotification, after the commit and outside it: a row of the last 24
\* hours for the same pair suppresses the new one.
FindDuplicate(r) ==
    /\ pc[r] = "notify"
    /\ Goto(r, IF \E n \in notifs \ old : call[n] = call[r] THEN "done" ELSE "create")
    /\ UNCHANGED <<tables, call, op, written>>

CreateNotif(r) ==
    /\ pc[r] = "create"
    /\ notifs' = notifs \union {r}
    /\ Goto(r, "done")
    /\ UNCHANGED <<follows, followersCount, followingCount, old, met, call, op, written>>

\* Postgres aborts one transaction of a wait cycle.
DeadlockVictim(r) ==
    /\ Deadlocked(r)
    /\ Goto(r, "failed")
    /\ written' = [written EXCEPT ![r] = NothingWritten]
    /\ UNCHANGED <<tables, call, op>>

\* The call stops at any statement: the process dies, the database refuses, or
\* Prisma gives up on the transaction.  What has not committed is rolled back;
\* a follow that has committed stays, without its notification.
Fail(r) ==
    /\ r \in InFlight
    /\ Goto(r, IF pc[r] \in {"notify", "create"} THEN "lost" ELSE "failed")
    /\ written' = [written EXCEPT ![r] = NothingWritten]
    /\ UNCHANGED <<tables, call, op>>

\* A day passes for the rows there are.
Age ==
    /\ old # notifs
    /\ old' = notifs
    /\ UNCHANGED <<follows, followersCount, followingCount, notifs, met, pc, call, op, written>>

Statement(r) ==
    \/ ReadFollow(r) \/ CheckFollow(r) \/ InsertFollow(r) \/ DeleteFollow(r)
    \/ BumpFollower(r) \/ BumpFollowed(r) \/ ClearNotifs(r)
    \/ Commit(r) \/ FindDuplicate(r) \/ CreateNotif(r)

\* All calls have ended: the model, not the server, stops here.
Quiescent == (\A r \in Req : pc[r] \in Final) /\ UNCHANGED vars

Next ==
    \/ \E r \in Req : Begin(r) \/ Statement(r) \/ DeadlockVictim(r) \/ Fail(r)
    \/ Age
    \/ Quiescent

Spec == Init /\ [][Next]_vars

\* The server runs every call it has begun, and Postgres runs its deadlock
\* check; nothing makes a call begin, fail, or a day pass.
FairSpec ==
    Spec /\ \A r \in Req : WF_vars(Statement(r)) /\ WF_vars(DeadlockVictim(r))

-----------------------------------------------------------------------------
(***************************************************************************)
(* Properties.                                                              *)
(***************************************************************************)

\* The type invariant: tables hold rows of existing users, counters are
\* naturals (a counter below zero is the visible form of a double unfollow),
\* and a call past its checks names two different users.
TypeOK ==
    /\ follows \subseteq {e \in User \X User : e[1] # e[2]}
    /\ followersCount \in [User -> Nat]
    /\ followingCount \in [User -> Nat]
    /\ notifs \subseteq Req
    /\ old \subseteq notifs
    /\ met \subseteq User \X Id
    /\ pc \in [Req -> Pc]
    /\ call \in [Req -> (User \X Id) \union {NoCall}]
    /\ op \in [Req -> {"none", "follow", "unfollow"}]
    /\ written \in [Req -> [following : Int, followers : Int, doomed : SUBSET Req]]

\* The counters a profile shows are the lengths of the lists behind them
\* (schema.prisma: "Counters (denormalized for performance)"), whatever calls
\* overlap, fail or are chosen as deadlock victims.
CountersMatch ==
    \A u \in User :
        /\ followersCount[u] = Cardinality(FollowerRows(u))
        /\ followingCount[u] = Cardinality(FollowingRows(u))

\* Between the first statement of a transaction and its commit the row it
\* works on does not change under it: the insert commits into an absent row
\* and the delete removes a present one, though the decision was taken by a
\* read outside the transaction.
RowStable ==
    \A r \in Req : pc[r] \in InTx => (call[r] \in follows <=> op[r] = "unfollow")

\* A user who is followed has been told: there is a FOLLOW notification for
\* every row of follows, or the call that will create it is still running, or
\* a call for that pair stopped after its commit (sendNotification runs after
\* the transaction, so that call cannot be undone).
FollowedImpliesNotified ==
    \A e \in follows :
        \/ \E n \in notifs : call[n] = e
        \/ \E r \in Req : call[r] = e /\ pc[r] \in {"notify", "create", "lost"}

\* As long as no two calls of a pair overlap, whatever other calls do, the pair
\* has at most one FOLLOW notification and none once the follow is gone:
\* unFollow removes what follow created.
NotificationsTrackFollows ==
    \A n \in notifs : call[n] \notin met =>
        /\ call[n] \in follows
        /\ \A m \in notifs : call[m] = call[n] => m = n

\* The statements, seen from the committed tables, add or remove one edge with
\* both its counters at a time.
FG == INSTANCE FollowGraph
FollowGraphSpec == FG!Spec

\* Every call that begins ends: a transaction waits only for transactions that
\* end, and a cycle of waits (two users who follow each other at the same
\* moment lock the two users rows in opposite orders) is broken.
EveryCallEnds ==
    \A r \in Req : (pc[r] # "idle") ~> (pc[r] \in Final)
=============================================================================
