----------------------------- MODULE Reactions -----------------------------
(***************************************************************************)
(* LikesService and RepostsService (threads-be/src/modules/likes, reposts).  *)
(* Unlike a follow, a reaction sends its notification INSIDE its interactive *)
(* transaction but on another connection of the pool: the notification is    *)
(* visible at once, outlives a rollback, and needs a second connection while *)
(* the transaction keeps its own.  LikesService lets an error of the         *)
(* notification abort the transaction; RepostsService catches it.            *)
(***************************************************************************)
EXTENDS Integers, FiniteSets

CONSTANTS User,         \* the accounts
          Post,         \* the posts there are at the start
          Owner,        \* the author of each post
          Row,          \* the rows callers toggle: <<kind, user, post>>
          Req,          \* the calls of toggleLike / toggleRepost, each used once
          PoolSize      \* connections of the Prisma pool

ASSUME ReactionsAssumption ==
    /\ Owner \in [Post -> User]
    /\ Row \subseteq {"like", "repost"} \X User \X Post
    /\ PoolSize \in Nat

VARIABLES post,      \* "live", "deleted" (isDeleted) or "gone" (row removed)
          rows,      \* committed rows of likes and reposts: <<kind, user, post>>
          count,     \* posts.like_count and posts.repost_count
          notifs,    \* LIKE and REPOST notifications, named by their creator
          old,       \* those created more than 24h ago
          pc, call,  \* each call's next statement, and its <<kind, user, post>>
          op,        \* the branch of the toggle
          expired,   \* calls whose transaction Prisma has closed under them
          written    \* uncommitted counter and deleted notifications of a call

tables == <<rows, count, notifs, old>>
calls == <<call, op>>
vars == <<post, rows, count, notifs, old, pc, call, op, expired, written>>

Kind == {"like", "repost"}
NoCall == <<>>
NothingWritten == [count |-> 0, doomed |-> {}]

Notifying == {"notify", "create"}
InTx == {"insert", "delete", "bump", "clear", "commit"} \union Notifying
Final == {"done", "rejected", "failed"}
Pc == {"idle", "decide", "open"} \union InTx \union Final

Init ==
    /\ post = [p \in Post |-> "live"]
    /\ rows = {}
    /\ count = [k \in Kind |-> [p \in Post |-> 0]]
    /\ notifs = {}
    /\ old = {}
    /\ pc = [r \in Req |-> "idle"]
    /\ call = [r \in Req |-> NoCall]
    /\ op = [r \in Req |-> "none"]
    /\ expired = {}
    /\ written = [r \in Req |-> NothingWritten]

KindOf(r) == call[r][1]
UserOf(r) == call[r][2]
PostOf(r) == call[r][3]
ByOwner(r) == UserOf(r) = Owner[PostOf(r)]
Delta(r) == IF op[r] = "add" THEN 1 ELSE -1

-----------------------------------------------------------------------------
(***************************************************************************)
(* Connections and row locks.  An open transaction holds one connection; a   *)
(* statement outside it needs one that is free.  It locks its likes/reposts  *)
(* row from its insert or delete, and its posts row from its counter update. *)
(***************************************************************************)
Open(r) == pc[r] \in InTx /\ r \notin expired

FreeConnection == Cardinality({r \in Req : Open(r)}) < PoolSize

LocksRow(r) == Open(r) /\ pc[r] \notin {"insert", "delete"}
LocksPost(r) == LocksRow(r) /\ pc[r] # "bump"

WaitsFor(r, q) ==
    \/ pc[r] \in {"insert", "delete"} /\ LocksRow(q) /\ call[q] = call[r]
    \/ pc[r] = "bump" /\ LocksPost(q) /\ PostOf(q) = PostOf(r)

Granted(r) == \A q \in Req \ {r} : ~WaitsFor(r, q)

-----------------------------------------------------------------------------
Goto(r, l) == pc' = [pc EXCEPT ![r] = l]

Rollback(r, l) ==
    /\ Goto(r, l)
    /\ written' = [written EXCEPT ![r] = NothingWritten]

Begin(r) ==
    /\ pc[r] = "idle"
    /\ \E row \in Row : call' = [call EXCEPT ![r] = row]
    /\ Goto(r, "decide")
    /\ UNCHANGED <<post, tables, op, expired, written>>

\* Two reads outside the transaction: the post, then the caller's row.  Only
\* toggleLike refuses a post that is marked deleted.
Decide(r) ==
    /\ pc[r] = "decide"
    /\ FreeConnection
    /\ IF post[PostOf(r)] = "gone" \/ (KindOf(r) = "like" /\ post[PostOf(r)] = "deleted")
         THEN Goto(r, "rejected") /\ UNCHANGED op
         ELSE /\ Goto(r, "open")
              /\ op' = [op EXCEPT ![r] = IF call[r] \in rows THEN "remove" ELSE "add"]
    /\ UNCHANGED <<post, tables, call, expired, written>>

\* The transaction takes its connection.  LikesService goes straight to its
\* insert or delete; RepostsService reads the post and the row again.
OpenTransaction(r) ==
    /\ pc[r] = "open"
    /\ FreeConnection
    /\ LET refused == /\ KindOf(r) = "repost"
                      /\ IF op[r] = "add" THEN post[PostOf(r)] = "gone" \/ call[r] \in rows
                                          ELSE call[r] \notin rows
       IN  Goto(r, IF refused THEN "rejected"
                   ELSE IF op[r] = "add" THEN "insert" ELSE "delete")
    /\ UNCHANGED <<post, tables, calls, expired, written>>

\* The insert fails on a missing post (foreign key) or a committed row.
InsertRow(r) ==
    /\ pc[r] = "insert" /\ Open(r)
    /\ Granted(r)
    /\ Goto(r, IF post[PostOf(r)] = "gone" \/ call[r] \in rows THEN "failed" ELSE "bump")
    /\ UNCHANGED <<post, tables, calls, expired, written>>

\* Altered: deleteMany, which is content with no row.
DeleteRow_Many(r) ==
    /\ pc[r] = "delete" /\ Open(r)
    /\ Granted(r)
    /\ Goto(r, "bump")
    /\ UNCHANGED <<post, tables, calls, expired, written>>

\* The delete fails with P2025 when it sees no row.
DeleteRow(r) ==
    /\ pc[r] = "delete" /\ Open(r)
    /\ \/ call[r] \notin rows /\ Goto(r, "failed")
       \/ call[r] \in rows /\ Granted(r) /\ Goto(r, "bump")
    /\ UNCHANGED <<post, tables, calls, expired, written>>

\* Altered: the counter is computed from a plain read, without the row's lock.
BumpCount_ReadModifyWrite(r) ==
    /\ pc[r] = "bump" /\ Open(r)
    /\ written' = [written EXCEPT ![r].count = count[KindOf(r)][PostOf(r)] + Delta(r)]
    /\ Goto(r, IF ByOwner(r) THEN "commit" ELSE IF op[r] = "add" THEN "notify" ELSE "clear")
    /\ UNCHANGED <<post, tables, calls, expired>>

\* The counter update locks the posts row and counts from its committed value.
BumpCount(r) ==
    /\ pc[r] = "bump" /\ Open(r)
    /\ Granted(r)
    /\ written' = [written EXCEPT ![r].count = count[KindOf(r)][PostOf(r)] + Delta(r)]
    /\ Goto(r, IF ByOwner(r) THEN "commit" ELSE IF op[r] = "add" THEN "notify" ELSE "clear")
    /\ UNCHANGED <<post, tables, calls, expired>>

\* Altered: no deletion of the notification.
ClearNotifs_Forgotten(r) ==
    /\ pc[r] = "clear" /\ Open(r)
    /\ Goto(r, "commit")
    /\ UNCHANGED <<post, tables, calls, expired, written>>

\* deleteMany by type, actor and post, in the transaction.
ClearNotifs(r) ==
    /\ pc[r] = "clear" /\ Open(r)
    /\ written' = [written EXCEPT ![r].doomed = {n \in notifs : call[n] = call[r]}]
    /\ Goto(r, "commit")
    /\ UNCHANGED <<post, tables, calls, expired>>

\* sendNotification on its own connection: it does not see that its caller's
\* transaction is gone.  When it returns, so does the callback, and a closed
\* transaction cannot commit.
AfterNotify(r) == IF r \in expired THEN "failed" ELSE "commit"

\* Altered: nobody looks for a duplicate.
FindDuplicate_Skipped(r) ==
    /\ pc[r] = "notify"
    /\ FreeConnection
    /\ Goto(r, "create")
    /\ UNCHANGED <<post, tables, calls, expired, written>>

\* The same recipient, actor, type and post within 24 hours.
FindDuplicate(r) ==
    /\ pc[r] = "notify"
    /\ FreeConnection
    /\ Goto(r, IF \E n \in notifs \ old : call[n] = call[r] THEN AfterNotify(r) ELSE "create")
    /\ UNCHANGED <<post, tables, calls, expired, written>>

CreateNotif(r) ==
    /\ pc[r] = "create"
    /\ FreeConnection
    /\ post[PostOf(r)] # "gone"
    /\ notifs' = notifs \union {r}
    /\ Goto(r, AfterNotify(r))
    /\ UNCHANGED <<post, rows, count, old, calls, expired, written>>

\* Altered: LikesService catches the error as RepostsService does.
NotifyError_Caught(r) ==
    /\ pc[r] \in Notifying
    /\ Goto(r, AfterNotify(r))
    /\ UNCHANGED <<post, tables, calls, expired, written>>

\* sendNotification throws: the pool gives no connection, the insert meets a
\* missing post, the database refuses.  The error aborts a like; a repost goes
\* on without its notification.
NotifyError(r) ==
    /\ pc[r] \in Notifying
    /\ IF KindOf(r) = "repost" /\ r \notin expired
         THEN Goto(r, "commit") /\ UNCHANGED written
         ELSE Rollback(r, "failed")
    /\ UNCHANGED <<post, tables, calls, expired>>

\* Altered: nothing gives up on a connection that does not come.
PoolTimeout_Never(r) == FALSE /\ UNCHANGED vars

\* No connection came in time (P2024 for a statement, maxWait for a transaction).
PoolTimeout(r) ==
    /\ ~FreeConnection
    /\ \/ NotifyError(r)
       \/ /\ pc[r] \in {"decide", "open"}
          /\ Goto(r, "failed")
          /\ UNCHANGED <<post, tables, calls, expired, written>>

Commit(r) ==
    /\ pc[r] = "commit" /\ Open(r)
    /\ rows' = IF op[r] = "add" THEN rows \union {call[r]} ELSE rows \ {call[r]}
    /\ count' = [count EXCEPT ![KindOf(r)][PostOf(r)] = written[r].count]
    /\ notifs' = notifs \ written[r].doomed
    /\ old' = old \ written[r].doomed
    /\ Rollback(r, "done")
    /\ UNCHANGED <<post, calls, expired>>

\* The interactive transaction outlives its 5 seconds: Prisma rolls it back and
\* frees its connection.  The callback only notices at its next statement, and
\* inside sendNotification it has none.
Expire(r) ==
    /\ Open(r)
    /\ IF pc[r] \in Notifying
         THEN expired' = expired \union {r} /\ Rollback(r, pc[r])
         ELSE Rollback(r, "failed") /\ UNCHANGED expired
    /\ UNCHANGED <<post, tables, calls>>

\* The server process stops: nothing of the call survives but what is committed.
Crash(r) ==
    /\ pc[r] \in {"decide", "open"} \union InTx
    /\ Rollback(r, "failed")
    /\ UNCHANGED <<post, tables, calls, expired>>

\* PostsService on the same tables: softDelete marks the post; delete removes
\* it and cascades.  Each waits for the transactions that have its posts row
\* locked (delete also for inserts that refer to it).
SoftDeletePost(p) ==
    /\ post[p] = "live"
    /\ \A r \in Req : ~(LocksPost(r) /\ PostOf(r) = p)
    /\ post' = [post EXCEPT ![p] = "deleted"]
    /\ UNCHANGED <<tables, pc, calls, expired, written>>

DeletePost(p) ==
    /\ post[p] # "gone"
    /\ \A r \in Req : ~(LocksRow(r) /\ PostOf(r) = p)
    /\ post' = [post EXCEPT ![p] = "gone"]
    /\ rows' = {x \in rows : x[3] # p}
    /\ count' = [k \in Kind |-> [count[k] EXCEPT ![p] = 0]]
    /\ notifs' = {n \in notifs : PostOf(n) # p}
    /\ old' = {n \in old : PostOf(n) # p}
    /\ UNCHANGED <<pc, calls, expired, written>>

Age ==
    /\ old # notifs
    /\ old' = notifs
    /\ UNCHANGED <<post, rows, count, notifs, pc, calls, expired, written>>

Statement(r) ==
    \/ Decide(r) \/ OpenTransaction(r) \/ InsertRow(r) \/ DeleteRow(r)
    \/ BumpCount(r) \/ ClearNotifs(r) \/ FindDuplicate(r) \/ CreateNotif(r)
    \/ Commit(r)

Quiescent == (\A r \in Req : pc[r] \in Final) /\ UNCHANGED vars

Next ==
    \/ \E r \in Req :
         \/ Begin(r) \/ Statement(r) \/ NotifyError(r) \/ PoolTimeout(r)
         \/ Expire(r) \/ Crash(r)
    \/ \E p \in Post : SoftDeletePost(p) \/ DeletePost(p)
    \/ Age
    \/ Quiescent

Spec == Init /\ [][Next]_vars

\* Calls that have begun run; the pool gives up on a wait (pool_timeout, maxWait)
\* and a notification whose post is gone is refused.
FairSpec ==
    Spec /\ \A r \in Req :
              /\ WF_vars(Statement(r))
              /\ WF_vars(PoolTimeout(r))
              /\ WF_vars(NotifyError(r) /\ post[PostOf(r)] = "gone")

-----------------------------------------------------------------------------
\* The type invariant; a counter is never negative.
TypeOK ==
    /\ post \in [Post -> {"live", "deleted", "gone"}]
    /\ rows \subseteq Row
    /\ count \in [Kind -> [Post -> Nat]]
    /\ old \subseteq notifs /\ notifs \subseteq Req
    /\ pc \in [Req -> Pc]
    /\ call \in [Req -> Row \union {NoCall}]
    /\ op \in [Req -> {"none", "add", "remove"}]
    /\ expired \subseteq Req
    /\ written \in [Req -> [count : Int, doomed : SUBSET Req]]

\* likeCount and repostCount of a post are the numbers of its rows, through
\* overlapping toggles, rollbacks, expired transactions and deleted posts.
CountersMatch ==
    \A k \in Kind, p \in Post :
        count[k][p] = Cardinality({x \in rows : x[1] = k /\ x[3] = p})

\* A like of somebody else's post is never committed without its notification:
\* LikesService sends it before it commits and aborts when it cannot.
LikedImpliesNotified ==
    \A x \in rows :
        x[1] = "like" /\ x[2] # Owner[x[3]] => \E n \in notifs : call[n] = x

\* A notification whose reaction is not there comes from a call that has not
\* committed (it is still running, or was rolled back after it notified):
\* undoing a committed reaction always takes its notification away.
OrphansComeFromRollbacks ==
    \A n \in notifs : call[n] \in rows \/ pc[n] # "done"

\* Two notifications for the same reaction need a transaction that expired
\* while it was notifying: otherwise the locks the transaction holds keep a
\* second call from looking for a duplicate at the same time.  (A day apart, a
\* second notification is what the 24h window asks for.)
DuplicatesNeedExpiry ==
    \A m, n \in notifs \ old :
        m # n /\ call[m] = call[n] => \E r \in expired : call[r] = call[n]

\* Every call ends: also when the connections are all held by transactions that
\* wait for one more to send their notification, or wait for those.
EveryCallEnds ==
    \A r \in Req : (pc[r] # "idle") ~> (pc[r] \in Final)
=============================================================================
