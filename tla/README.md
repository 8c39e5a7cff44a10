# A verification project for threads-clone

TLA+ specifications of the parts of threads-clone whose correctness depends on
*order*: calls that overlap in the database, tokens that expire under requests,
sockets that come and go, files that outlive the rows that name them. TLC checks
them on small instances; TLAPS proves the most important of their properties for
every number of users, calls, processes and files.

Every module is a translation of source code, and the `map` in `PROJECT.json`
names the lines behind each definition. Paths below are relative to the
repository (`threads-be/...` is the backend, `threads-fe/...` the page).

Contents: 1 the system · 2 the modules · 3 the runs · 4 fairness · 5 the proofs ·
6 findings · 7 what is not modelled · 8 plan · 9 how to run it

## 1. The system

A NestJS backend (`threads-be`: PostgreSQL through Prisma at READ COMMITTED,
Redis, BullMQ queues, socket.io with the Redis adapter) serves a React page
(`threads-fe`). PM2 starts one backend process per core
(`threads-be/ecosystem.config.js`, `instances: 'max'`), so two calls can meet on
one process, between two of its `await`s, or on two processes, in the database
only. The repository's only backend test is the generated one
(`threads-be/src/app.controller.spec.ts`): nothing below is covered by it.

| component | state it keeps | operations | talks to | what is hard | what makes it correct |
|---|---|---|---|---|---|
| **follows** `follows.service.ts` | `follows`, two counters per user, FOLLOW notifications | toggleFollow → follow / unFollow, lists | notifications (after the commit) | the branch is chosen by a read outside the transaction; two row locks per call; the notification is no part of the transaction | counters equal rows; a followed user is told; no call hangs |
| **likes, reposts** `likes.service.ts`, `reposts.service.ts` | `likes`, `reposts`, counters of posts, LIKE and REPOST notifications | toggleLike, toggleRepost | notifications (inside the transaction, on another connection) | the pool; the 5 s limit of a transaction; a rollback that leaves a notification | counters equal rows; a like is notified; orphans only from rollbacks; no pool deadlock |
| **HTTP client of the page** `libs/api/axios.ts` | `isRefreshing`, `failedQueue`, `_retry` | response interceptor | AuthController.refresh | many 401s at once; a refresh that fails with a queue behind it | one refresh at a time; nobody stranded; no loop |
| **notification push** `notifications.gateway.ts`, `notifications.service.ts`, `useNotifications.tsx` | map of one socket per user and process; notifications; list and badge of the page | connect, disconnect, initial fetch, mark read, mark all read, push | sockets, follows, likes, reposts | a late disconnect; a map per process; counts that overtake each other; a fetch cut at 20 | entries are live; a process tells the tabs it holds; a page at rest agrees with the database |
| **posts and their files** `posts.service.ts`, `s3.service.ts`, `cleanup.processor.ts` | posts, media rows, hashtags, objects in the bucket, cleanup jobs | createSync, softDelete, delete, cleanup | bucket, queue | concurrent uploads, some failing; crash between commit and cleanup; cascades; keys read back from URLs | a post keeps its files; every other object has a reason; counters |
| **auth and sessions, mails** `auth.service.ts`, `mail.service.ts`, `mail.processor.ts` | one account's password, `refresh_tokens`, reset tokens, cookies of browsers, mail jobs | register, login, Google, refresh, logout, logoutAll, revoke, changePassword, forgot, reset | HTTP client, mail queue | a refresh deletes a token and stores another in two statements; tokens of one second are equal; two tabs spend one cookie; answers that are lost | a session has one token and never comes back; what is ended stays ended; a browser's cookie is good |
| **conversations** `conversations.service.ts` | conversations, participants with role, `leftAt`, pin and mute, system messages | create, update, addParticipant, leave, togglePin, toggleMute | messages | check-then-create; writes of the negation of what was read; a role looked up without `leftAt` | one direct conversation per pair; a group has one owner; system messages tell who takes part |
| **messages** `messages.service.ts`, `messages.gateway.ts` | messages, `messageCount`, `lastMessage`, sockets per user, rooms | createMessage, connect, disconnect, join | conversations, sockets | unread counts are pushed before the commit; the foreign key's lock and the update's lock meet in a deadlock; one socket per user | counts equal rows; a pushed message is stored; the list of users is that of the sockets |
| **caches and pagination** `useNewsfeed.tsx`, `useFollow.tsx`, `usePost.tsx`, `posts.service.ts` (feeds) | two cached lists of pages, optimistic changes | like, repost, delete, create, follow, next page, refetch | posts, React Query | overlapping mutations rolled back over each other; fetches cancelled by mutations; a refetch that crosses a change; a cursor whose post is deleted or hidden | what the user has done is what the user sees; pages join, but for the posts that a lost cursor skips |
| **account of the page, sockets, rooms** `useAuth.tsx`, `SocketContext.tsx`, `socket.service.ts`, `realtime.gateway.ts`, `useProfile.tsx` | query `["me"]`, three sockets, rooms, cookies shared with other tabs | sign-in, sign-out, sign-up, reset, Google, reload, connect, drop, profile:updated | auth, profile | sign-ins in other tabs; fetches that cross; rooms that are not joined again after a reconnect, and never left | sockets are those of the user shown; a page at rest is current |
| **profile editor** `EditProfile.tsx`, `useScreen.tsx`, `auth.service.ts` (updateProfile) | the form, its screens, saves on their way | open, screens, edit, Done, close | account of the page | Done sends the whole form, does not wait and does not close | only the user's edits are saved |
| **thread composer** `ThreadsPostDialog.tsx`, `HashtagDialog.tsx`, `usePost.tsx`, `useHashtag.tsx` | the draft, previews of images, the question to discard it, hashtags | write, images, hashtags, post, cancel, discard | account of the page, posts | a post that is answered while the user goes on writing; three parallel lists of images | a draft is kept; its previews can be seen |
| suggestions `follows.service.ts` | none (a query) | ranking | follows | – | – |

The remaining parts (image processing queue, socket store in Redis, users, cache,
guards and filters, configuration, layout, generated placeholders) are listed in
`PROJECT.json` with the reason why there is nothing to model.

### How the components interact

* A follow commits and **then** calls `NotificationsService.sendNotification`; a
  reaction calls it **inside** its transaction, on another connection. Both use
  its check for a duplicate of the last 24 hours. `Follows` and `Reactions` model
  the rows it writes.
* `NotificationPush` takes over where the row is created: the emit to the
  recipient's socket, and everything the page shows.
* `PostsService` deletes the rows that reactions count and notify about: that part
  of it is also in `Reactions` (`SoftDeletePost`, `DeletePost`).
* `RefreshQueue` stands between a page and every route; the server's side of the
  refresh is an answer or an error there, and the rotation itself in `Sessions`.
  There the tabs of a browser share a cookie: `isRefreshing` is per page, so two of
  them may spend it at once.
* `Messages` extends `Conversations`: who receives a message is what the calls of the
  conversation have made of its participants.
* `Page` is one page: its account (`PageAccount`), and on top of it the two dialogs
  (`ProfileEditor`, `PostComposer`), which every step of the account takes along
  (`EditorFollows`, `ComposerFollows`). `PageCache` is the lists of posts of a page whose
  user does not change.

### Hazards

`PROJECT.json` lists 40, each at its line, and each with the properties that would
notice it going wrong. Where the code does let the hazard happen, a property can only say
how far the harm goes, and the hazard's `note` names the case that is excepted.

## 2. The modules

```
FollowGraph  <--implements--  Follows           <-- MCFollows
                                 ^--- FollowsProofs
                              Reactions         <-- MCReactions
                                 ^--- ReactionsProofs
                              RefreshQueue      <-- MCRefreshQueue
                                 ^--- RefreshQueueProofs
                              NotificationPush  <-- MCNotificationPush
                                 ^--- NotificationPushProofs
                              Posts             <-- MCPosts
                                 ^--- PostsProofs
SessionLife  <--implements--  Sessions          <-- MCSessions
                                 ^--- SessionsProofs
            Conversations <-- Messages          <-- MCMessages
                                 ^--- MessagesProofs
                              PageCache         <-- MCPages
                                 ^--- PageProofs
 PageAccount <-- ProfileEditor, PostComposer <-- Page  <-- MCPage
                                                  ^--- PageProofs
```

A module is parameterised by the sets of users, calls, sockets, ... (CONSTANTS with
named assumptions); its MC module names the members TLC uses, and a `.cfg` fixes
the instance. Calls are members of a set `Req`, each used once: how many calls there
are is the bound on the length of a history. `Quiescent` lets a model stop when its
calls are used up, so that TLC's deadlock check means something: a call that can never
go on is an error. The check is on in every run but `page`, whose model may stand still
when the user does nothing more and nothing is on its way, and `pages`, which stands still when
its mutations and its turns to another list are used up.

Operators with a comment that begins *Altered:* are variants of the operator below
them with one plausible mistake (a dropped lock, an upsert for an insert, a cleanup
queued too early). Nothing uses them; each shows that one property of a run would
notice that mistake (`mutants` in `PROJECT.json`).

### FollowGraph and Follows

`FollowGraph` is what the feature promises: a directed graph, one edge and its two
counters per step. `Follows` is `follows.service.ts` statement by statement.

* `pc[r]` is the next awaited statement of call `r`; `Statement(r)` are the
  statements of `toggleFollow`, `follow`, `unFollow` and `sendNotification`, in their
  order, with each early return and exception.
* READ COMMITTED is explicit. The committed tables are `follows`,
  `followersCount`, `followingCount`, `notifs`; what a transaction has written and not
  committed is in `written[r]`, and `Commit` makes it visible at once. A row that a
  transaction has written is locked until it ends (`WaitsFor`, `Granted`): the follows
  row through its unique index, then two `users` rows, in an order that depends on
  the direction of the follow.
* Two users who follow each other at the same moment wait for each other:
  `DeadlockVictim` is Postgres aborting one. `Fail` stops a call anywhere: rollback
  before the commit, a lost notification after it.
* `Age` is the end of the 24 hours after which a duplicate is not one any more.
* The ghost `met` remembers the pairs of which two calls have overlapped.

### Reactions

`likes.service.ts` and `reposts.service.ts`, statement by statement, in one module
because they meet on the same row of `posts` and on the same pool. The services
differ in what they read first and in what an error of the notification does: it
aborts a like, a repost goes on.

* An open transaction holds one of `PoolSize` connections, and `sendNotification`
  needs another (`FreeConnection`); `PoolTimeout` is Prisma giving up on a
  connection.
* `Expire` is the end of the 5 seconds of an interactive transaction: it is rolled
  back under its callback, which notices only at its next statement in the
  transaction; inside `sendNotification` there is none, so the notification is
  still written (`expired`).
* A post can be marked deleted or removed by `PostsService` at any time; the cascade
  takes rows and notifications.

### RefreshQueue

The response interceptor of `axios.ts`. A turn of the JavaScript event loop, up to
its `await`, is one step; between turns requests travel, the server answers and
access tokens expire. `queue` is a set: it is emptied in one turn, so the order of
`failedQueue` does not show. `carries` are the requests on the wire with a token that
is still valid, whether it expires on the way or before.

### NotificationPush

One user, whose tabs connect to any process. `registry[s]` is `connectedUsers` of
process `s` for this user; `up` are the sockets the server believes in, `socket[t]`
the one the tab has: they differ between a connection's loss (`Leave`) and the
server noticing it (`Disconnect`). Events of the gateway are calls with a step per
query. Answers travel through `inbox[c]`, in order, and the three handlers of
`useNotifications` are `Shown`. A tab here is one instance of that hook.

Nothing is assumed about how many processes, tabs and sockets there are, or that they take
turns. Three ghosts say where the code leaves a property standing: `overlapped[s]` is true once
process `s` has taken a socket of the user beside another one, until it takes one alone;
`calm[t]` and `quiet[t]` are true from a fetch of tab `t` that met no other event until
something is emitted past the tab, or meets another event in a way that can spoil its list, or
its badge.

### Posts

`PostsService` on threads of any shape, with `S3Service` and the cleanup queue.
The uploads of one post run concurrently and land or fail one by one. A
*transaction* is one step here, unlike in `Follows`, and may fail as a whole: its
counter updates are relative (`increment`, `decrement`), every row it writes stays
locked until it commits, and nothing it reads decides what it writes, so an
interleaving of two has the effect of one of their orders. What a call reads
*before* its transaction (the post, its media) is a step of its own and may be
stale.

Objects are named `<<post, image>>`. `FromUrl` is `extractKeyFromUrl` of
`getFileUrl`: an image whose name a URL escapes or cuts comes back under a name that
no object has. A reply's `rootPostId` is taken to be the root of its parent's thread,
which is what the page sends; the cascade then follows `parentPostId` alone.
`repeats` (second deletions of replies) and `cascaded` (files whose rows fell with an
ancestor) are ghosts.

### SessionLife and Sessions

`SessionLife` is what the owner of an account expects: a session begins with one
sign-in, and once it is over it stays over. `Sessions` is `AuthService` behind
`AuthController`, for one account and several browsers, statement by statement: there is
no transaction but that of a reset.

* `rows` are the `refresh_tokens`, named by the calls that stored them; `session` (ghost)
  says which sign-in a row descends from. A refresh is `find`, `delete`, `insert`, `answer`:
  between its `delete` and its `insert` the session has no row (`Holders`), and a stop there
  ends it.
* `token` is the second in which a row's token was signed: two tokens of one second are the
  same string, and the unique index refuses the second one.
* `jar[b]` is the cookie of browser `b`, shared by its tabs. A call carries the cookie of
  the moment it is sent, and an answer sets it; an answer may be lost (`"lost"`).
* The mails of the calls are jobs (`mail`): queued or not, sent or given up.
* The ghosts: `ended` has the pairs of a session and a call that set out to end it (also a
  change of the password, from its first statement on); `slipped` the pairs of a call that was
  between its own two statements, and so without a row, and the call that then deleted all
  rows; `met` the pairs of calls that overlapped.

### Conversations and Messages

Conversations and messages are named by the calls that create them. Only the creation of
a conversation and the sending of a message are transactions; what a call reads
(`Look`, `FindNewcomer`, `FindForToggle`) may be stale when it writes. `role` and `left`
are two columns: a participant who leaves keeps the role, which is looked up without asking
for `leftAt`.

In the transaction of a message the insert's foreign key holds the conversation's row
(`holders`) together with other inserts, and the update (`writer`) waits for them: two
overlapping messages wait for each other, and one is aborted. `PushUnread` happens before the
commit and is not undone. `onlineUsers` is the gateway's map of one socket per user; any socket
joins the room of any conversation it names, as the gateway does not ask. `met` has the pairs
of calls that overlapped; `mix` is the set of kinds of calls that a history makes, a bound on
which kinds meet.

### PageCache

Posts are numbered by age. A cached list is a sequence of pages (`rows`, `next`); a fetch
gets page after page and replaces the cached ones at its end, as React Query does; a
mutation patches, cancels, snapshots, restores and marks what its hook's handlers do, and
no more.

* `cancelQueries` reverts: `Restored` puts a list back to the data and the mark from before
  its cancelled fetch (`before`), also over what was written to it in between. Whether such a
  write renews what a later cancellation goes back to differs between releases of React Query 5,
  so `ReactionEnds` allows both (`Kept`).
* `After` and `Answer` are the queries of `getNewsFeedPost` and `getUserPosts` with the cursor
  and the limit of the page. Others delete posts (`OthersDelete`) and soft-delete them
  (`OthersHide`): the row of a soft-deleted cursor is still found, but no longer listed, so
  `skip: 1` skips the next post instead; a row that is gone selects nothing.
* A list is *trusted* when the page takes it for fresh and the ghost `lost` is false. It becomes
  true when the list's fetch crossed a change of the user's (`Crossed`), when a next page takes
  the mark off it (`washed`), or when a cancelled fetch does (`Restored`). The ghost `gaps` has
  the posts that a list does without because a cursor was not listed any more when it was used
  (`Missed`).

These losses are the code's, and are observations in section 6.

### Page

`PageAccount` keeps the query `["me"]` (`me`, with its fetch in flight), the cookies
(`cookie`), which other tabs change, the stored profiles, which other devices change, and the
socket with its rooms. A request reads with the cookies of its time (`Read`), and arrives later
(`Arrive`), after which the effects of `SocketProvider` run (`Sockets`: `Open`, `Close`,
`Keep`). `ProfileEditor` has the form, its screens and the saves on their way;
`PostComposer` the draft, the previews' object URLs (`live` are those not revoked) and the
mutations. `Page` composes them: the dialogs' effects are conjuncts of each step of the
account. The ghosts are `missed` (something has changed that nobody tells the page of),
`switched` (the user has changed without a sign-out) and `touched` (the fields that the user
has changed since the form was last reset).

## 3. The runs

State counts are of distinct states. Every run takes less than four minutes with
two workers.

| run | instance | states | shows |
|---|---|---|---|
| `follows` | 3 users, an unknown id, 3 calls about five pairs; fair | 136 k | `TypeOK`, `CountersMatch`, `FollowedImpliesNotified`, `NotificationsTrackFollows`, `FollowGraphSpec` (refinement), `EveryCallEnds` |
| `reactions` | author and fan, like/like/repost on one post, 3 calls, pool of 2; fair | 244 k | `TypeOK`, `CountersMatch`, `LikedImpliesNotified`, `OrphansComeFromRollbacks`, `DuplicatesNeedExpiry`, `EveryCallEnds` |
| `refresh` | 3 API requests and a login, 2 expiries; fair | 215 k | `TypeOK`, `SingleRefresh`, `NobodyStranded`, `OneExpiryIsInvisible`, `EveryRequestSettles` |
| `push_page` | 2 processes, 2 tabs, 3 sockets, 3 events, fetch limit 1; symmetric | 121 k | `PageAgrees`, `RegistryIsLive`, `EmitsWhereConnected` |
| `push_reconnect` | 1 process, 1 tab, 2 sockets, limit 2 | – | **violates** `EmitsIfConnected` (finding 1) |
| `posts_threads` | 5 calls, 1 hashtag, no images; symmetric | 101 k | `TypeOK`, `CountersAccount` |
| `posts_files` | 3 calls, 2 images (one escaped), 2 attempts; fair | 280 k | `MediaHaveFiles`, `FilesAccountedFor`, `CleanupEnds` |
| `posts_repeated` | 4 calls, no images | – | **violates** `ReplyCountShows` (finding 2) |
| `sessions` | 2 browsers, 3 calls, a clock of 3 seconds, 2 active reset tokens; symmetric | 871 k | `TypeOK`, `EndedMeansEnded`, `CookieIsGood`, `ResetTokensSpent`, `SessionLifeSpec` (refinement) |
| `messaging` | 3 users, 3 calls in five mixes, 2 messages, 2 sockets of one user; symmetric | 786 k | `TypeOK`, `DirectOnce`, `ParticipantsAccounted`, `MessagesAccounted` |
| `pages` | 3 posts, one the user's, one more may come, 2 per page, 2 mutations of the user's or changes by others, 3 turns to another list or drops; symmetric | 1.6 M | `OwnChangesShown`, `PagesJoin` |
| `page` | 2 users, 5 inputs, 2 saves, 2 images, 1 hashtag; symmetric | 1.6 M | `SocketFollowsUser`, `PageIsCurrent`, `OnlyEditsAreSaved`, `DraftIsKept` |

### Why the bounds are enough

* **Three calls, three users, five pairs** in `Follows`: two calls that overlap on a row,
  and a third that follows, unfollows or waits behind them (follow, unfollow and follow
  again of one pair). Locks are per row and each call takes three at most, so a third call
  can wait for a second that waits for a first. The pairs (`Asked`) are two users who follow
  each other and deadlock, a second follower of one of them (two calls then share the followed
  user's row only), oneself, and an unknown id. There is no symmetry, as the run checks
  liveness.
* **Pool of 2, three calls** in `Reactions`: two open transactions hold the whole pool
  while both want to notify, and a third call wants to open. The author's own like
  takes the path without a notification, the fan's like and repost the two error
  paths.
* **Two expiries, three API requests** in `RefreshQueue`: one refreshes, one queues
  behind it, one meets its 401 after the refresh is over; the second expiry hits the
  retries. The login is the request that must not refresh.
* **Limit 1, three events, three sockets, two tabs, two processes** in `NotificationPush`: two
  notifications exceed the limit, and the third event is a fetch or a mark that meets them. Each
  connection uses up an event (its fetch), as in the code: so one tab has two notifications
  pushed, or two tabs, on one process or on two, have one, or one of them reconnects beside its
  old socket. Restarts, losses and late disconnects use up no event.
* **Five calls** in `Posts` without files: a parent, a reply, a reply to the reply, and
  two deletions that overlap. **Three** with files: a parent, a reply, a deletion of
  either; two images so that one upload can fail while the other lands; two attempts
  so that the first failure retries and the second gives up.
* **Two browsers, three calls** in `Sessions`: a sign-in, a refresh and what ends the
  session; two refreshes of one cookie and a sign-out; a reset between two requests for
  one. Three seconds let the three calls' tokens all differ or all be equal; two active
  reset tokens are the limit (three in the code) that a third request must wear down.
* **Five mixes of kinds** in `Messages`: three calls of every kind together are more than
  needed, and more than TLC can enumerate; a mix has the kinds that write the same columns.
  Both sockets belong to one user: sockets of different users share no entry.
* **Three posts, two to a page, one to come** in `PageCache`: a list has a next page from the
  start, so that a fetch of it can be cancelled, rolled back over and marked by two mutations,
  and a refetch has two answers between which a change can happen; the fourth post shifts the
  pages. The post a cursor names may be deleted or soft-deleted, and one of its neighbours is the
  user's own. One kind of reaction stands for two. Three turns are enough to leave a list, have
  it dropped and come back.
* **Five inputs** in `Page`: sign in, open the editor, change a field, save, and one thing
  by another tab or device; or sign out, sign in as another and change the page. Two saves
  can overtake each other. Two images are the fewest of which one can be removed wrongly.

### Reading the properties

* `CountersMatch` (both modules): the reads that choose the branch may
  be stale, and it is the unique index, the `P2025` of a delete and the row locks that
  keep the counters right. Each of the mutants removes one of those.
* `FollowedImpliesNotified` allows one gap, a call that stopped after its commit: the
  code has it. `NotificationsTrackFollows` is conditional on `met`: an unfollow that
  overlaps a follow of the same pair can miss the notification that is about to be
  written, and TLC finds such a history without the condition.
* `OrphansComeFromRollbacks`, `DuplicatesNeedExpiry` bound what the notification
  inside a transaction can leave behind. Without an expired transaction, the lock on
  the reaction's row is what prevents a duplicate.
* `OneExpiryIsInvisible`: with no other trouble, one expiry rejects nothing, also not
  the request whose 401 arrives after somebody else's refresh. With two it may: a
  request retried once is final.
* `EmitsWhereConnected` is what is left of "Real-time emit if user connected" once finding 1 and
  the map per process are taken as they are: a tab is told of what its own process handles, until
  a second socket of the user connects to that process, and again from the next one that
  connects alone, through losses, reconnects, restarts and whatever other processes do.
* `PageAgrees` is what a tab at rest can be relied on to show, with any number of tabs,
  processes and sockets: since a fetch of its own that met no other event, and until something
  is emitted past it (to another tab, or by another process), its list has every recent stored
  notification once and with its read mark, also while notifications overlap; the badge, only if
  nothing has overlapped. Two handlers that overlap do leave a wrong badge, and a fetch that
  crosses another event a wrong list: one fetch that meets nothing repairs both. The badge has
  slack on both sides because the code gives it that: a fetch counts only what it lists, and
  nobody tells a page of a withdrawn notification.
* `CountersAccount`: `replyCount` is exact up to the one defect of finding 2, and
  `postCount` of a hashtag counts the posts ever made with it.
  `FilesAccountedFor` enumerates every way an object can be left in the bucket without
  a row. The property is an inventory of leaks: an object that is none of these is a
  new one.
* `EndedMeansEnded`: a session that a call has set out to end is over, but for what the code
  lets happen, named case by case: a change of the password that stopped between its two
  statements (`Unfinished`); a refresh or a sign-in that was between its own two statements when
  that very change deleted the rows (`slipped`); a sign-out whose token the session had moved on
  from, by a refresh that overlapped this sign-out or whose answer was lost. Every other refresh
  and sign-in around a change of the password is covered. The property assumes tokens of
  different seconds (`Distinct`); without it, four calls suffice for a browser with an old
  cookie to refresh, and keep alive, the session of another whose token is the same string.
* `CookieIsGood`: of two tabs that refresh with one cookie, one fails; it does not cost the
  browser its session. `Distinct` again: two equal tokens make the cookie of one session
  name another's row.
* `ResetTokensSpent`: at most three tokens at a time unless two of the requests for them
  overlapped, each used once unless two resets with it overlapped, none older than the last
  reset unless its request overlapped that reset.
* `DirectOnce` excepts the two conversations whose creations overlapped each other, `FlagsCount`
  a setting of which two toggles overlapped: these are check-then-act without a transaction.
  `NotesTell` excepts no state, it counts: the system messages can be wrong about a user by one
  for each addition or departure of that user that stopped before its message or overlapped
  another. `OneOwner` holds always, and is why a group whose owner has left stays without anybody
  who can add to it.
* `CountsMatch` holds always, because the update waits for every insert of a message in the
  conversation. `PushesMatch` says exactly what can be pushed of a message that is rolled
  back: unread counts.
* `OwnChangesShown`, `PagesJoin` speak of lists the page takes for fresh: after any overlap of
  mutations, roll-backs, cancellations and refetches they show what the database has, and a
  post is missing in between only where a cursor was not listed any more. The exceptions are in
  `Trusted` and `Missed`, and each was needed.
* `PageIsCurrent` and `OnlyEditsAreSaved` speak of a page at rest that has missed nothing.
  What it can miss is another tab's sign-in, events while its socket is down, and answers that
  were lost. While a page has not heard yet, a save writes the whole of a stale form.
* `DraftIsKept` is about every step that is not an input of the user: a draft goes only with
  its user, or with a post that the server has created, even if it has been edited since.

## 4. Fairness

Only what the code schedules is assumed to happen; nobody is assumed to make a call,
fail, expire, restart or lose a connection.

* `Follows`: weak fairness of each begun call's statements (the server runs what it
  awaits) and of Postgres's deadlock check, which is what ends mutual follows.
* `Reactions`: statements as above, and weak fairness of giving up on a connection
  (Prisma's `pool_timeout` and `maxWait`, both on by default) and of the refusal of a
  notification whose post is gone. There is no fairness of `Expire` or `Crash`: that
  calls end must not depend on them.
* `RefreshQueue`: each request on the wire is answered or fails (axios rejects what the
  network loses) and the event loop runs handlers of what has arrived.
* `Posts`: calls, uploads and queue workers proceed; whether a step succeeds is open.
* `NotificationPush` has safety and action properties only: delivery is best effort.
* `Sessions`, `Messages`, `PageCache` and `Page` assume no fairness: their properties say
  what may be seen at any time, or when nothing is on its way. What ends a call of theirs
  is what ends those of `Follows`; a page may be closed at any moment.

## 5. The proofs

`tlapm` checks every theorem to its last leaf. Each is for all values of the
constants that satisfy the modules' assumptions, where TLC saw one small instance.

| module | theorem | property |
|---|---|---|
| `FollowsProofs` | `TypeCorrect`, `CountersAlwaysMatch`, `RowsAlwaysStable` | `TypeOK`, `CountersMatch`, `RowStable` (by no run) |
| `FollowsProofs` | `ImplementsFollowGraph` | `FollowGraphSpec`: `Follows` refines `FollowGraph` |
| `FollowsProofs` | `FollowsAreTold`, `NotificationsFollowTheRows` | `FollowedImpliesNotified`, `NotificationsTrackFollows` |
| `ReactionsProofs` | `TypeCorrect`, `CountersAlwaysMatch`, `LikesAreNotified`, `OrphansExplained`, `DuplicatesExplained` | `TypeOK`, `CountersMatch`, `LikedImpliesNotified`, `OrphansComeFromRollbacks`, `DuplicatesNeedExpiry` |
| `RefreshQueueProofs` | `TypeCorrect`, `OneRefreshAtATime`, `QueueHasARefresh`, `NoRetryLoop`, `AnExpiryIsInvisible` | `TypeOK`, `SingleRefresh`, `NobodyStranded`, `SentTwiceAtMost` (part of `TypeOK`), `OneExpiryIsInvisible` |
| `NotificationPushProofs` | `RegistryAlwaysLive` | `RegistryIsLive`, with any processes, tabs and sockets, and overlap |
| `NotificationPushProofs` | `TheConnectedAreTold`, `ThePageAgrees` | `EmitsWhereConnected`, `PageAgrees`, with any processes, tabs and sockets, and overlap |
| `PostsProofs` | `TypeCorrect`, `PostsKeepTheirFiles`, `NoOtherOrphans`, `CountersAreExact` | `TypeOK`, `MediaHaveFiles`, `FilesAccountedFor`, `CountersAccount` |
| `SessionsProofs` | `TypeCorrect`, `ImplementsSessionLife` | `TypeOK`, `SessionLifeSpec`: `Sessions` refines `SessionLife` |
| `SessionsProofs` | `EndedStaysEnded`, `CookiesAreGood`, `ResetTokensAreSpent` | `EndedMeansEnded`, `CookieIsGood`, `ResetTokensSpent` |
| `MessagesProofs` | `TypeCorrect`, `DirectConversationsAreSingle`, `ParticipantsAreAccounted`, `MessagesAreAccounted` | `TypeOK`, `DirectOnce`, `ParticipantsAccounted`, `MessagesAccounted` |
| `PageProofs` | `PagesAreInOrder`, `OwnChangesAreShown` | `PagesJoin`, `OwnChangesShown` |
| `PageProofs` | `SocketsFollowTheUser`, `RestingPagesAreCurrent`, `UntouchedFieldsAreStored`, `DraftsAreKept` | `SocketFollowsUser`, `PageIsCurrent`, `OnlyEditsAreSaved`, `DraftIsKept` |

**Follows.** `CountersMatch` is not inductive: `Commit` writes a value computed two
statements earlier. The invariant `IInv` adds why that value is still the right one:
`EdgesExclusive` (one transaction per follows row), `UsersExclusive` (one per users
row), `WrittenOK` (what a transaction has written is the committed counter plus or
minus one), `RowStable` (the row is absent for a follow and present for an unfollow,
until the commit), `CallOK` (a call past its checks names two different users, and
its branch fits its statement), and that `follows` is finite, without which counting
means nothing. `AddCounts` and `RemoveCounts` say what one edge does to the
cardinality of the rows of a user; `CountersStep` combines them at `Commit`. The
refinement follows: a commit is `AddEdge` or `RemoveEdge`, everything else stutters.

Notifications need a second invariant, `NInv`, on top: a notification's call is done, so its
pair no longer changes (`NotifsAreDone`); what an unfollow has removed and not committed is
of its own pair (`DoomedOK`); two calls in flight for one pair have met (`MetWhenTwo`); and what
a call that has met nobody may rely on between two statements (`Undisturbed`): its first
reading holds, the follow it has committed is there and not told yet, nothing came after its
`deleteMany`.

**Reactions.** The invariant says of each call what its transaction has seen and written
(`Seen`, `Counted`, `Doomed`), that it has notified before it commits (`Told`), that an undone
reaction takes every notification of a committed call (`Clears`), and that its check for a
duplicate still holds when it creates (`Fresh`, unless a transaction of the same reaction
expired). They rest on two locks: `RowsExclusive`, `PostsExclusive`. An expired transaction
holds none, which is why its notification is the one exception everywhere.

**RefreshQueue.** `SingleRefresh`, `NobodyStranded` and `TypeOK` are inductive
together; `SendsInv` adds that a request is sent once before it is marked and at most
twice after. `AnExpiryIsInvisible` adds `Smooth`: before the second expiry nobody is in an
error state, a 401 is never that of a retried request, and a retried one that is sent carries
a valid token.

**NotificationPush.** The entry of a process names a socket of that process that is up:
a connection overwrites the entry, every disconnection of the process deletes it. That
`handleDisconnect` deletes too much (finding 1) is what makes the proof short.

The other two theorems add to that what the ghosts promise (`PushInv`), without any assumption
about the sockets. `SocketInv`: a process whose last socket met no other holds only the socket it
has entered, so an emit of that process reaches the tab behind it. For each tab, `TabInv`:
while it is `calm`, `CalmTab`, and while it is `quiet`, `QuietTab` too. A tab is shown things
long after they were sent, so these speak of what a tab that is not at rest *will* show.
`PageShows` reads its queue from the last answer in it on (the page's own list if there is
none): each notification that follows adds itself to what that answer lists, and the result is
compared with `World`, the rows, those announced so far and those the page has marked ahead of
the database. While a fetch is under way, what counts is that it has read what is there, and
will be answered to this tab; for the badge, that the last message of the queue settles it.
`Received` moves the queue by one, `Appended` and `Answered` add to it, and `QueryAnswers` counts:
the falling places a query returns are a bijection onto the rows it selects. A step of one tab's
socket or fetch leaves the others alone (`Unconcerned`).

**Posts.** A cleanup takes its keys from a call, so the invariant follows a key from
the call to the job: `CreateKeys` (a create works on its own files, and they are stored
when it commits), `DeleteKeys` (a deletion works on the files of its post, whose creator
is done), `Shown` (a file in a media row was committed by its creator), `DoomedFiles`
(a key queued for cleanup, or about to be, is in no media row and its creator can no
longer commit one), with `Typed` for the variables `TypeOK` leaves out.
`FromUrl` may name no object, never another post's (`SamePost`).

`NoOtherOrphans` adds who answers for each object (`Holds`). A deletion that has only read its
post does not: another one may have taken the rows since. What makes it answer for its files
when it commits is `MediaRead`: as long as the post is there, the keys it read are all there
are. `CountersAreExact` rests on `FallsWithParent`: a cascade takes no reply of a post that
stays, except the deleted post itself, so one decrement is right. The sets counted are finite
because only finitely many calls have begun (`BegunIsFinite`).

**Sessions.** Who holds a session is a function of the rows, of the refreshes between their
two writes, and of the sign-in each descends from. `Shape` says what a call may hold at each
of its steps, and `OneHolder` that no two hold one session: the delete of a refresh succeeds
once per row, so of two refreshes one goes on. A step then begins one session, ends some,
or keeps them all. `Custody` is about the browsers, as long as no two tokens are equal: a
session lives in one of them (`AtHome`), which sends its refreshes and its sign-out; a cookie
in a jar or in a call is what an answer has brought (`Cookies`), and no session moves on from
it but by a call that is still to answer or that was lost (`JarFresh`). So a sign-out that
misses the row of its session either overlapped with the refresh that moved it or came after
a lost answer (`SignOutFresh`), and a session that outlives the deletion of all rows was in the
hands of a call between its two statements (`Ending`, `EndedExcused`). `ResetsInv` is the same
argument for the reset tokens: what a request has counted, and a reset has matched, still holds
when it writes but for the writes of those it overlapped (`MetWhenTwo`, pair by pair).

**Messages.** What a call has read is still so when it writes, unless one of the calls it has met
(the pairs of the ghost `met`) has written there: `StillTrue` says so for each statement. It
becomes inductive with `MetWhenTwo`, that any two calls in flight have met, so a step that
falsifies a reading is one of a call the reader has met (`WhatAStepDisturbs`). The steps fall
into three classes (a call begins, moves on, writes), and each class keeps each part for a reason
of its own. Who takes part in a group is an equation (`Account`): there is a set of the additions
and departures that took effect, which has every sure one (`Sure`: not stopped, and met no other
about the user), such that the original members and the additions in it are the departures in it
and those who are there (`Balance`). A sure one is also noted, so the system messages differ from
that set by stray calls only (`CountsDiffer`). The messages are counted in `StoreInv`: beside the
agreement of the count and the last message with the rows, a call that holds a conversation
for writing holds it alone, so what it commits is added to what it has read.

**PageCache.** `CacheInv` has five parts beside the types. Pages, fetched, being fetched or kept for
a cancellation, fall strictly (`Descend`, in `CacheOK`), as a served page continues the one
before, whatever has become of its cursor: no post is shown twice. `ListsFaithful`,
`FetchesFaithful` and `BeforesFaithful` say that a list, what a fetch has gathered, and what its
cancellation would bring back, is `Faithful` to the database while no mutation changes it: between
two posts shown or after the last nothing is missing but `gaps` (`Joins`), the user's marks are
the stored ones, and no erased post is there. A list that goes back over a write is faithful
because it is marked then, or `lost`. `MoreLoaded`: a fetch of a next page is one of a loaded
list. `ErasedGone` keeps deleted posts out. A step that changes nothing shown is treated once
(`QuietStep`); a mutation marks the lists it touches when it begins and ends, and the fetches it
meets in between.

**Page.** `SocketInv` is `SocketFollowsUser` and that without a user nothing comes over a
socket. `CurrentInv` says why a page that has missed nothing will be current: the fetch in
flight was made with the cookies of now, and either what the page has (or has read) is so
already, or something on its way ends in a fetch (`Pending`: an event, its handler, a stored
save). `StartInv` excludes the one case in which such a fetch would be swallowed, the first
fetch of a page. `EditorInv` ties the form to `["me"]`; with `CurrentInv` it gives
`OnlyEditsAreSaved`. `DraftInv` says that the three lists of images agree, which needs
`RemoveAtRange`: taking one image out of a list without repetitions takes out its URL and
no other.

Every safety property of a passing run is stated by a theorem, for all values of the
constants. Only model-checked is what is temporal under fairness: `EveryCallEnds`,
`EveryRequestSettles` and `CleanupEnds`, which need ENABLED.

## 6. Findings

1. **A late disconnect silences a connected user** (`push_reconnect`).
   `notifications.gateway.ts:47` deletes the user's entry on every disconnect, also
   when the entry already holds a newer socket. After a reconnect before the ping
   timeout, or with a second tab closed, a connected user is taken for absent and gets
   no event until the next connection, against the comment "Real-time emit if user
   connected" at `notifications.service.ts:63`. `push_page` shows what does
   hold (`EmitsWhereConnected`): a process tells the tabs it holds as long as it has not taken
   two sockets of the user at once. Across processes the map is wrong for a second reason: it
   is one per process, and what another process handles reaches nobody here.
2. **A reply deleted twice is subtracted twice** (`posts_repeated`). `softDelete`
   (`posts.service.ts:200`) and `delete` decrement the parent's `replyCount` whether or
   not the reply is already marked deleted, so the number shown as `stats.replies`
   (`posts.service.ts:379`) falls below the number of replies, and below zero.
   `posts_threads` shows that this is the only way the counter goes wrong.

### Observations

What the models also show, with no statement in the repository that it contradicts.

*Files.* `deleteFiles` ignores the per-key errors of `DeleteObjects` (`s3.service.ts:151`) and
the worker logs success; keys with escaped characters are never deleted
(`posts.service.ts:604`); uploads that land beside one that failed are never cleaned
up (`posts.service.ts:77`). These are disjuncts of `LeftBehind`. Hashtags are appended twice to
a post's text, so that two tags store a third, "a,b".

*Sessions.* A refresh that races a sign-out signs in again; a change of the password misses
the session of a refresh or a sign-in that overlaps it; a reset of the password ends no session;
two sign-ins of one second make one of them fail, and a refresh or a sign-out with an old
cookie can find the row of another browser whose token was signed in the same second; a second
refresh of one cookie is answered with a 500 (P2025) if it read the row before the first deleted it.

*Conversations and messages.* The roles are looked up without `leftAt`, and no call passes
ownership on: when the owner leaves, nobody can be added any more. `isMediaType` includes TEXT,
so every message without a `mediaUrl` is refused (`messages.service.ts:203`, `242-254`). The
mention of a participant throws and rolls the message back after its unread counts were pushed
(`messages.service.ts:150`); `unreadCount` and `mentionCount` are never written (`:129`).
Overlapping messages of one conversation deadlock, and one is lost.

*Lists.* `useFollow` and `useDeletePost` take a snapshot under a key, `["newsfeed"]`, that no list
has. A next page that is fetched over a marked list takes off the mark and replaces a running
refetch. A mutation that cancels a fetch brings back what the list was before it: a roll-back or a
mark of the meantime is undone, and a list with a wrong like can pass for fresh (a like whose
answer is lost, a next page, the timer's mark, a follow that cancels and then fails). A cursor
whose post has been deleted gives an empty page and "You've reached the end"; one that has been
soft-deleted costs the next post.
A lost answer to a new post invalidates nothing. `getUserPosts` is called without the caller's
id (`posts.controller.ts:91-104`), so its posts never say what the user likes.

*The page.* Rooms are never left: `room:leave` has no handler. `SocketContext` keeps the former
user's sockets when the user changes without a sign-out, and after a reconnect such a page is
not in the room of its own profile. A page that still shows A after another tab has signed in as
B writes to B's account. A fetch of `["me"]` in flight at a sign-out can bring the user back. The
form of the editor is reset whenever the profile changes, with what the user has typed; every
Done sends all of it, so two saves can be stored in the other order, and "Remove link" removes no
link (`update-profile.dto.ts` turns an empty string into none). A draft that is edited while its
post is being created is cleared with it. A created hashtag is put into the list of known
ones with the envelope of the answer, which has no name, so that adding the next unknown one throws
(`ThreadsPostDialog.tsx:301`); the model leaves that list out.

## 7. What is not modelled

* In the modelled components: reads that decide nothing (profiles, searches, conversations,
  sessions); calls rejected before any change because the caller is not the owner; texts of
  posts, messages and notifications; `removeNotification`, `clearAll` and the sound of
  `useNotifications`, which touch the page only; uploads of thumbnails and `deleteFile`,
  which nobody calls; the feed's filters "following" and "trending", which the page never asks
  for (`Home.tsx:25`; with "following", unfollowing the author of a cursor's post would skip a
  post as a soft deletion does) and the tabs of a profile with replies and media, which select
  other posts and page through them alike; the list of known hashtags of the composer. In
  `Posts`, a commit whose answer is lost: the model's call knows whether its transaction committed.
* Postgres, Prisma, BullMQ, S3, React Query and socket.io themselves: they appear as their
  effect on the code (row locks, deadlock victims, expiry, attempts, refused keys,
  replaced fetches, reconnects).
* Hooks of the page that see a new socket only when the provider renders again: the three
  sockets are opened together, and the page listens from then on.
* What nothing calls or emits: hashtag rooms, the events of posts and reactions, the
  listener of `profile.updated`, `useMessagesSocket`, `markAsRead` and the other
  placeholders, `joinRoom` and `leaveRoom` of the page, the producer of the image queue.
  The page `Messages.tsx` works on data of its own.
* Components: see the notes in `PROJECT.json`. The suggestions are a query without state;
  users and cache are single reads and writes; guards, filters and interceptors keep no
  state.

## 8. Plan

What is left, in the order of what it would add.

1. An abstract specification of the lists of a page, of what `useInfiniteQuery` promises, and
   `PageCache` as its refinement: `CacheInv` has the argument for it.
2. The same for the push: a queue that delivers what was created, which `CalmTab` suggests.
3. A composition of `RefreshQueue` with `Sessions`, for two pages of one browser: today
   each is modelled with the other side open.

Conventions: no RECURSIVE operators in a module with theorems or below one; invariants as
conjunctions of named parts; one action per statement where the order of statements shows,
one per transaction where it does not.

## 9. How to run it

```
tlc -workers 2 -config MCFollows.cfg MCFollows.tla   # any run: its cfg and module
tlapm FollowsProofs.tla                                      # any module of proofs
```

`PROJECT.json` has the complete list of runs, mutants, mapped lines, findings, hazards
and theorems.
