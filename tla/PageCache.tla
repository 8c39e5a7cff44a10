------------------------------ MODULE PageCache ------------------------------
(***************************************************************************)
(* What a page shows of the feed: PostsService.getNewsFeedPost and           *)
(* getUserPosts (threads-be/src/modules/posts/posts.service.ts), read page by *)
(* page through useNewsfeed and useUserPosts, and the mutations that write   *)
(* into their cached lists before the server has answered: useLikePost,      *)
(* useRepost, useDeletePost, usePost and useFollow (threads-fe/src/hooks).   *)
(*                                                                         *)
(* One user on one page.  Posts are numbered in the order of their creation, *)
(* so that the newest has the largest number.  A list is cached as a sequence *)
(* of pages, fetched and patched as React Query 5 does it.                   *)
(***************************************************************************)
EXTENDS Integers, FiniteSets, Sequences, SequencesExt

CONSTANTS Reaction,   \* "like", "repost": the two hooks differ in nothing else
          Req,        \* the mutations of the page and of others, each used once
          First,      \* how many top-level posts there are at the start
          MaxPost,    \* bound: how many there ever are
          Own,        \* those of the start that are the user's
          Take,       \* the limit the page asks for
          MaxMoves    \* bound: how often another list is mounted or one is dropped

ASSUME PageCacheAssumption ==
    /\ First \in Nat /\ MaxPost \in Nat /\ First <= MaxPost
    /\ Own \subseteq 1..First
    /\ Take \in Nat \ {0}
    /\ Reaction \intersect {"delete", "create", "follow"} = {}
    /\ MaxMoves \in Nat

VARIABLES posts, mine,    \* top-level posts in the database, and the user's ones
          hidden,         \* those that are soft-deleted: their rows are still there
          mark,           \* the user's likes and reposts: post -> set of kinds
          last,           \* the number of the newest post so far
          mounted,        \* the list that is mounted
          list, moves,    \* the cached lists, and what MaxMoves bounds
          fetches,        \* the fetch in flight of each list
          mut             \* the mutations

server == <<posts, mine, hidden, mark, last>>
cacheVars == <<posts, mine, hidden, mark, last, mounted, list, moves, fetches, mut>>

View == {"newsfeed", "user-posts"}
Kind == Reaction \union {"delete", "create", "follow"}
PostId == 1..MaxPost
FirstPage == 0                  \* the cursor of a first page
End == 0                        \* the next cursor of a last page

\* "lost" and "gaps" are ghosts: see Trusted and Missed.
NoList == [pages |-> <<>>, stale |-> FALSE, lost |-> FALSE, gaps |-> {}]
NotFetching == [want |-> 0]
NoSnap == [v \in View |-> <<>>]
Idle == [kind |-> "follow", post |-> 0, stage |-> "idle", card |-> FALSE, snap |-> NoSnap]

Loaded(l) == l.pages # <<>>
Ids(pages) == UNION {DOMAIN pages[i].rows : i \in DOMAIN pages}
Shown(v) == Ids(list[v].pages)

-----------------------------------------------------------------------------
(***************************************************************************)
(* The server's answers.  getUserPosts is called without the caller's id     *)
(* (posts.controller.ts:100), so its posts never say what the user likes.     *)
(* A page begins at the cursor's row, and its first row is skipped: that is    *)
(* the cursor's post, or, if that has been soft-deleted, the next one.  A       *)
(* cursor whose row is gone selects nothing.  One row more than asked for       *)
(* tells whether there is a next page.                                       *)
(***************************************************************************)
Listed(v) == (IF v = "newsfeed" THEN posts ELSE mine) \ hidden

Flags(v, p) == IF v = "newsfeed" THEN mark[p] ELSE {}

From(v, cursor) == {p \in Listed(v) : cursor \in posts /\ p <= cursor}

\* Altered: the page begins at the cursor's post again (no skip).
After_NoSkip(v, cursor) == IF cursor = FirstPage THEN Listed(v) ELSE From(v, cursor)

After(v, cursor) ==
    IF cursor = FirstPage THEN Listed(v)
    ELSE {p \in From(v, cursor) : \E q \in From(v, cursor) : q > p}

\* Ghost: the posts older than a cursor that no longer names a listed post which the
\* list must do without: all of them if its row is gone, the newest if it is only
\* soft-deleted.
Missed(v, cursor) ==
    LET older == {p \in Listed(v) : p < cursor}
    IN  {p \in older : cursor \notin Listed(v) /\ (cursor \in posts => \A q \in older : q <= p)}

Answer(v, cursor) ==
    LET found == After(v, cursor)
        taken == {p \in found : Cardinality({q \in found : q > p}) < Take}
    IN  [rows |-> [p \in taken |-> Flags(v, p)],
         next |-> IF Cardinality(found) > Take
                    THEN CHOOSE p \in taken : \A q \in taken : p <= q
                    ELSE End]

-----------------------------------------------------------------------------
(***************************************************************************)
(* Fetches.  "want" is the number of pages at the end of the fetch, "got" the *)
(* pages it has.  The fetch of one more page begins with the pages that are   *)
(* cached when it begins; a refetch begins with none and gets as many as are  *)
(* cached.  Both replace the cached pages when they end, and not before.     *)
(* "before" is what cancelQueries goes back to.  The ghosts "lost" and "gaps"  *)
(* are handed on to the list.                                               *)
(***************************************************************************)
Content(l) == [pages |-> l.pages, stale |-> l.stale]

Refetch(l) == [want |-> IF Loaded(l) THEN Len(l.pages) ELSE 1, more |-> FALSE,
               got |-> <<>>, lost |-> FALSE, gaps |-> {}, before |-> Content(l)]
NextPage(l) == [want |-> Len(l.pages) + 1, more |-> TRUE,
                got |-> l.pages, lost |-> FALSE, gaps |-> l.gaps, before |-> Content(l)]

Fetching(v) == fetches[v] # NotFetching
HasNextPage(l) == Loaded(l) /\ Last(l.pages).next # End

\* The fetch has all it wants, or all there is.
Complete(f) == Len(f.got) = f.want \/ (f.got # <<>> /\ Last(f.got).next = End)

\* The fetch has pages from the server.
HasRead(f) == f # NotFetching /\ IF f.more THEN Complete(f) ELSE f.got # <<>>

\* invalidateQueries: every matching list is marked; then the mounted one is
\* refetched, from the beginning unless it has never been loaded.
Invalidated(ls, views) ==
    [v \in View |-> IF v \in views THEN [ls[v] EXCEPT !.stale = Loaded(ls[v])] ELSE ls[v]]
Refetched(fs, views) ==
    [v \in View |-> IF v \in views /\ v = mounted /\ (Loaded(list[v]) \/ ~Fetching(v))
                      THEN Refetch(Invalidated(list, views)[v]) ELSE fs[v]]

\* cancelQueries: the fetches in flight are dropped, and their lists go back to what
\* they were when the fetch began, the mark included.
Restored(l, before) ==
    [l EXCEPT !.pages = before.pages, !.stale = before.stale,
              !.lost = @ \/ (l.stale /\ ~before.stale)]
Reverted(views) ==
    [v \in View |-> IF v \in views /\ Fetching(v) THEN Restored(list[v], fetches[v].before)
                    ELSE list[v]]
Cancelled(views) == [v \in View |-> IF v \in views THEN NotFetching ELSE fetches[v]]

\* A change of the user's reaches the database while pages read before it are on
\* their way into a list.
Crossed ==
    [v \in View |-> IF HasRead(fetches[v]) THEN [fetches[v] EXCEPT !.lost = TRUE] ELSE fetches[v]]

CacheInit ==
    /\ posts = 1..First /\ mine = Own /\ hidden = {}
    /\ mark = [p \in PostId |-> {}]
    /\ last = First
    /\ mounted = "newsfeed"
    /\ list = [v \in View |-> NoList] /\ moves = 0
    /\ fetches = [v \in View |-> IF v = "newsfeed" THEN Refetch(NoList) ELSE NotFetching]
    /\ mut = [m \in Req |-> Idle]

\* A list is mounted: what is missing or marked is fetched.  (What is five minutes
\* old is, too; as after Collect, its place is taken by what the server has now.)
Mount(v) ==
    /\ v # mounted /\ moves < MaxMoves
    /\ mounted' = v /\ moves' = moves + 1
    /\ fetches' = IF Fetching(v) \/ (Loaded(list[v]) /\ ~list[v].stale) THEN fetches
                  ELSE [fetches EXCEPT ![v] = Refetch(list[v])]
    /\ mut' = [m \in Req |-> [mut[m] EXCEPT !.card = FALSE]]
    /\ UNCHANGED <<server, list>>

\* The end of the list scrolls into view.  It replaces a refetch that is under way.
Scroll ==
    /\ HasNextPage(list[mounted])
    /\ ~(Fetching(mounted) /\ fetches[mounted].more)
    /\ fetches' = [fetches EXCEPT ![mounted] = NextPage(list[mounted])]
    /\ UNCHANGED <<server, mounted, moves, list, mut>>

\* A list that is not mounted is dropped after 30 seconds.
Collect(v) ==
    /\ v # mounted /\ Loaded(list[v]) /\ ~Fetching(v) /\ moves < MaxMoves
    /\ list' = [list EXCEPT ![v] = NoList]
    /\ moves' = moves + 1
    /\ UNCHANGED <<server, mounted, fetches, mut>>

\* The server reads the page after the last one the fetch has.
Serve(v) ==
    /\ Fetching(v) /\ ~Complete(fetches[v])
    /\ LET got == fetches[v].got
           cursor == IF got = <<>> THEN FirstPage ELSE Last(got).next
       IN  fetches' = [fetches EXCEPT ![v].got = Append(@, Answer(v, cursor)),
                                    ![v].gaps = @ \union Missed(v, cursor)]
    /\ UNCHANGED <<server, mounted, moves, list, mut>>

\* The last answer has arrived: the list is what was fetched, and counts as fresh.
PagesArrive(v) ==
    /\ Fetching(v) /\ Complete(fetches[v])
    /\ LET f == fetches[v]
           washed == f.more /\ list[v].stale
       IN  list' = [list EXCEPT ![v] =
                      [pages |-> f.got, stale |-> FALSE, gaps |-> f.gaps,
                       lost |-> f.lost \/ washed \/ (f.more /\ list[v].lost)]]
    /\ fetches' = [fetches EXCEPT ![v] = NotFetching]
    /\ UNCHANGED <<server, mounted, moves, mut>>

PageFails(v) ==
    /\ Fetching(v) /\ ~Complete(fetches[v])
    /\ fetches' = [fetches EXCEPT ![v] = NotFetching]
    /\ UNCHANGED <<server, mounted, moves, list, mut>>

-----------------------------------------------------------------------------
(***************************************************************************)
(* Mutations.  onMutate runs when they begin; then the request travels, is    *)
(* carried out or refused, and is answered or not.                           *)
(***************************************************************************)
\* A list that has been loaded is written to, and counts as fresh.
Patch(l, rows) ==
    IF Loaded(l) THEN [l EXCEPT !.pages = [i \in DOMAIN l.pages |->
                                              [l.pages[i] EXCEPT !.rows = rows[i]]],
                                !.stale = FALSE]
                 ELSE l
RowsOf(l) == [i \in DOMAIN l.pages |-> l.pages[i].rows]

Flip(rows, p, k) ==
    [q \in DOMAIN rows |-> IF q # p THEN rows[q]
                           ELSE IF k \in rows[q] THEN rows[q] \ {k} ELSE rows[q] \union {k}]
Without(rows, p) == [q \in DOMAIN rows \ {p} |-> rows[q]]

Become(m, k, p, snap) ==
    mut' = [mut EXCEPT ![m] = [kind |-> k, post |-> p, stage |-> "sent",
                               card |-> k \in Reaction, snap |-> snap]]
Goto(m, stage) == mut' = [mut EXCEPT ![m].stage = stage]
Forget(m, stage) == mut' = [mut EXCEPT ![m] = [Idle EXCEPT !.stage = stage]]

\* useLikePost, useRepost: the fetches of all lists are cancelled, what the lists then
\* are is remembered, and the post is flipped in each.  A card disables its button while its
\* own mutation is pending; another card of the post, in the other list or mounted
\* since, does not.
React(m) ==
    /\ mut[m].stage = "idle"
    /\ \E k \in Reaction, p \in Shown(mounted) :
         /\ \A n \in Req : mut[n].card => mut[n].kind # k \/ mut[n].post # p
         /\ Become(m, k, p, [v \in View |-> Reverted(View)[v].pages])
         /\ list' = [v \in View |->
                LET l == Reverted(View)[v]
                    rows == RowsOf(l)
                IN  Patch(l, [i \in DOMAIN rows |-> Flip(rows[i], p, k)])]
    /\ fetches' = Cancelled(View)
    /\ UNCHANGED <<server, mounted, moves>>

\* useDeletePost, offered on the user's profile: the post is taken out of the
\* newsfeed.  Nothing is remembered: no list has the key that is read.
Delete(m) ==
    /\ mut[m].stage = "idle" /\ mounted = "user-posts"
    /\ \E p \in Shown(mounted) :
         /\ Become(m, "delete", p, NoSnap)
         /\ LET l == Reverted({"newsfeed"})["newsfeed"]
                rows == RowsOf(l)
            IN  list' = [list EXCEPT !["newsfeed"] =
                            Patch(l, [i \in DOMAIN rows |-> Without(rows[i], p)])]
    /\ fetches' = Cancelled({"newsfeed"})
    /\ UNCHANGED <<server, mounted, moves>>

\* usePost: nothing to do in these lists.
CreatePost(m) ==
    /\ mut[m].stage = "idle"
    /\ Become(m, "create", 0, NoSnap)
    /\ UNCHANGED <<server, mounted, moves, list, fetches>>

\* useFollow from a card of the newsfeed: its optimistic change goes to a key that
\* no list has, and what is left of it is the cancelled fetch.
Follow(m) ==
    /\ mut[m].stage = "idle" /\ mounted = "newsfeed"
    /\ Shown(mounted) \ mine # {}
    /\ Become(m, "follow", 0, NoSnap)
    /\ list' = Reverted({"newsfeed"})
    /\ fetches' = Cancelled({"newsfeed"})
    /\ UNCHANGED <<server, mounted, moves>>

Toggle(m) ==
    /\ mut[m].kind \in Reaction /\ mut[m].post \in posts
    /\ mark' = Flip(mark, mut[m].post, mut[m].kind)
    /\ UNCHANGED <<posts, mine, hidden, last>>

Erase(m) ==
    /\ mut[m].kind = "delete" /\ mut[m].post \in mine
    /\ posts' = posts \ {mut[m].post}
    /\ mine' = mine \ {mut[m].post}
    /\ mark' = [mark EXCEPT ![mut[m].post] = {}]
    /\ UNCHANGED <<hidden, last>>

Add(m) ==
    /\ mut[m].kind = "create" /\ last < MaxPost
    /\ last' = last + 1
    /\ posts' = posts \union {last + 1}
    /\ mine' = mine \union {last + 1}
    /\ UNCHANGED <<hidden, mark>>

\* The server does it.
Commit(m) ==
    /\ mut[m].stage = "sent"
    /\ \/ Toggle(m) \/ Erase(m) \/ Add(m)
       \/ mut[m].kind = "follow" /\ UNCHANGED server
    /\ fetches' = Crossed
    /\ mut' = [mut EXCEPT ![m].stage = "ok",
                          ![m].post = IF mut[m].kind = "create" THEN last' ELSE @]
    /\ UNCHANGED <<mounted, list, moves>>

\* The server refuses it, or its answer is lost.
Fail(m) ==
    /\ mut[m].stage \in {"sent", "ok"}
    /\ mut' = [mut EXCEPT ![m].stage = "failed"]
    /\ UNCHANGED <<server, mounted, moves, list, fetches>>

\* onError of a reaction: every list is what it was before, whatever has happened
\* to it since.
RolledBack(m) ==
    [v \in View |-> IF mut[m].snap[v] = <<>> THEN list[v]
                    ELSE [list[v] EXCEPT !.pages = mut[m].snap[v], !.stale = FALSE]]

\* A list that is written to during its fetch: whether the fetch, if it is cancelled,
\* still goes back to what was there when it began, or to what was written, differs
\* between the releases of React Query 5.
Kept(ls) ==
    [v \in View |-> IF Fetching(v) /\ ls[v] # list[v]
                      THEN [fetches[v] EXCEPT !.before = Content(ls[v])] ELSE fetches[v]]

\* The answer to a reaction is dealt with; the timer of onSettled runs.
ReactionEnds(m) ==
    /\ mut[m].kind \in Reaction
    /\ \/ mut[m].stage = "ok" /\ UNCHANGED <<list, fetches>>
       \/ /\ mut[m].stage = "failed"
          /\ list' = RolledBack(m)
          /\ fetches' \in {fetches, Kept(list')}
    /\ Forget(m, "settled")
    /\ UNCHANGED <<server, mounted, moves>>

\* Altered: nothing is marked.
Timer_Never(m) ==
    /\ mut[m].stage = "settled"
    /\ Forget(m, "done")
    /\ UNCHANGED <<server, mounted, moves, list, fetches>>

\* One second later every list is marked, and none refetched.
Timer(m) ==
    /\ mut[m].stage = "settled"
    /\ list' = Invalidated(list, View)
    /\ Forget(m, "done")
    /\ UNCHANGED <<server, mounted, moves, fetches>>

\* The other mutations invalidate: a deletion in any case, a new post and a
\* follow if they have succeeded.
Ends(m) ==
    /\ mut[m].kind \notin Reaction /\ mut[m].stage \in {"ok", "failed"}
    /\ LET views == IF \/ mut[m].kind = "delete"
                       \/ mut[m].kind = "create" /\ mut[m].stage = "ok" THEN View
                    ELSE IF mut[m].stage = "ok" THEN {"newsfeed"} ELSE {}
       IN  /\ list' = Invalidated(list, views)
           /\ fetches' = Refetched(fetches, views)
    /\ Goto(m, IF mut[m].stage = "ok" THEN "done" ELSE "lost")
    /\ UNCHANGED <<server, mounted, moves>>

-----------------------------------------------------------------------------
\* Others post, delete and, by a call the front end has no button for, soft-delete.
OthersPost ==
    /\ last < MaxPost
    /\ last' = last + 1
    /\ posts' = posts \union {last + 1}
    /\ UNCHANGED <<hidden, mark>>

OthersDelete ==
    /\ \E p \in posts \ mine : /\ posts' = posts \ {p}
                               /\ hidden' = hidden \ {p}
                               /\ mark' = [mark EXCEPT ![p] = {}]
    /\ UNCHANGED last

OthersHide ==
    /\ \E p \in posts \ mine : hidden' = hidden \union {p}
    /\ UNCHANGED <<posts, mark, last>>

Others(m) ==
    /\ mut[m].stage = "idle"
    /\ OthersPost \/ OthersDelete \/ OthersHide
    /\ mut' = [mut EXCEPT ![m].stage = "done"]
    /\ UNCHANGED <<mine, mounted, list, moves, fetches>>

Mutate(m) == React(m) \/ Delete(m) \/ CreatePost(m) \/ Follow(m)
Proceed(m) == Commit(m) \/ Fail(m) \/ ReactionEnds(m) \/ Timer(m) \/ Ends(m)
FetchStep(v) == Serve(v) \/ PagesArrive(v) \/ PageFails(v)

CacheNext ==
    \/ \E v \in View : Mount(v) \/ Collect(v) \/ FetchStep(v)
    \/ Scroll
    \/ \E m \in Req : Mutate(m) \/ Proceed(m) \/ Others(m)

CacheSpec == CacheInit /\ [][CacheNext]_cacheVars

-----------------------------------------------------------------------------
NothingPending ==
    /\ \A m \in Req : mut[m].stage \in {"idle", "done", "lost"}
    /\ \A v \in View : ~Fetching(v)

\* A list that the page takes for fresh, and of which none of these is true: its
\* fetch crossed a change of the user's (Crossed); a next page took the mark off it
\* without renewing the others (washed); a cancelled fetch did (Restored).
Trusted(v) == Loaded(list[v]) /\ ~list[v].stale /\ ~list[v].lost

\* The user's posts, without those whose creation the page holds for failed.
Told == mine \ {mut[m].post : m \in {n \in Req : mut[n].stage = "lost"}}

\* What the user has done is what the user sees.  At rest, after mutations that
\* overlapped, were rolled back over each other, or lost their answers, a trusted list
\* has each reaction of the newsfeed as the database has it, no post that the user has
\* deleted, and every post that the user has created since, except one that a page had
\* to do without when its cursor was no longer listed.
OwnChangesShown ==
    NothingPending => \A v \in View : Trusted(v) =>
        /\ v = "newsfeed" =>
             \A i \in DOMAIN list[v].pages : \A p \in DOMAIN list[v].pages[i].rows :
                 p \in posts => list[v].pages[i].rows[p] = mark[p]
        /\ \A m \in Req : mut[m].kind = "delete" /\ mut[m].stage = "done"
                             => mut[m].post \notin Shown(v)
        /\ \A p \in Told : (\E q \in Shown(v) : q < p) => p \in Shown(v) \union list[v].gaps

\* Each post has one place, and what is left out is known, whatever is created, deleted
\* or soft-deleted between the fetches of two pages: at all times the pages of a list go
\* from the newest post to the oldest without an overlap; at rest, a post is missing from
\* a trusted list, between two that it shows or after its last one if "You've reached
\* the end", only if it was the newest below a cursor that had been soft-deleted, or
\* below one whose row was gone.
PagesJoin ==
    \A v \in View :
        LET pages == list[v].pages
            shown == Shown(v)
        IN  /\ \A i, j \in DOMAIN pages : i < j =>
                 \A p \in DOMAIN pages[i].rows, q \in DOMAIN pages[j].rows : p > q
            /\ NothingPending /\ Trusted(v) =>
                 \A p \in Listed(v) :
                     /\ \E q \in shown : q > p
                     /\ (\E q \in shown : q < p) \/ Last(pages).next = End
                     => p \in shown \union list[v].gaps
=============================================================================
