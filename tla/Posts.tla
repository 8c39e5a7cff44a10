------------------------------- MODULE Posts -------------------------------
(***************************************************************************)
(* Threads of posts and the files they show: PostsService (createSync,       *)
(* softDelete, delete), S3Service and the cleanup queue.  A post is named by *)
(* the call that creates it.  The rows of a transaction are locked until it  *)
(* commits and its counter updates are relative, so a transaction is one     *)
(* step here, which may also fail (a missing row, a deadlock, a timeout).    *)
(* A reply's rootPostId is taken to be the root of its parent's thread, so   *)
(* that column's own cascade takes no row that parentPostId's does not.      *)
(***************************************************************************)
EXTENDS Integers, FiniteSets

CONSTANTS Req,       \* calls of create, softDelete, delete, each used once
          Tag,       \* hashtag names, normalised
          MaxImages, \* images of a post (the controller accepts 10)
          Escaped,   \* those of them whose name a URL escapes or cuts
          Attempts   \* attempts of a cleanup job (5)

ASSUME PostsAssumption ==
    MaxImages \in Nat /\ Escaped \subseteq 1..MaxImages /\ Attempts \in Nat \ {0}

NoPost == "none"
ASSUME NoPostAssumption == NoPost \notin Req

VARIABLES rows,        \* posts in the database
          deleted,     \* those marked isDeleted
          parent,      \* parentPostId
          replyCount,  \* the counter of each post
          media,       \* files named by post_media
          tagCount,    \* postCount of each hashtag
          stored,      \* objects in the bucket
          pc, op,      \* each call's next step, and what it is about
          flying,      \* uploads of a call that are under way
          job,         \* the cleanup job each call queued: its state
          left,        \* its keys
          tries,       \* the attempts it has made
          repeats,     \* ghost: second deletions of replies, per parent
          cascaded     \* ghost: files whose rows fell with an ancestor

tables == <<rows, deleted, parent, replyCount, media, tagCount, repeats, cascaded>>
calls == <<pc, op>>
queue == <<job, left, tries>>
vars == <<tables, stored, calls, flying, queue>>

\* Objects are named by the post and the image; an escaped name is no object's.
Key == Req \X ((-MaxImages)..MaxImages)
File == Req \X (1..MaxImages)

\* extractKeyFromUrl(getFileUrl(key)).
FromUrl(f) == IF f[2] \in Escaped THEN <<f[1], -f[2]>> ELSE f

NoOp == [kind |-> "none"]
Busy == {"upload", "transact", "cleanup"}
Over == {"done", "uploadFailed", "failed", "crashed"}

Replies(p) == {q \in rows : parent[q] = p}

Init ==
    /\ rows = {} /\ deleted = {} /\ media = {} /\ stored = {}
    /\ parent = [r \in Req |-> NoPost]
    /\ replyCount = [r \in Req |-> 0]
    /\ pc = [r \in Req |-> "idle"]
    /\ op = [r \in Req |-> NoOp]
    /\ flying = {}
    /\ job = [r \in Req |-> "none"]
    /\ left = [r \in Req |-> {}]
    /\ tries = [r \in Req |-> 0]
    /\ tagCount = [h \in Tag |-> 0]
    /\ repeats = [r \in Req |-> 0]
    /\ cascaded = {}

Goto(r, l) == pc' = [pc EXCEPT ![r] = l]
Start(r, o, l) == pc[r] = "idle" /\ op' = [op EXCEPT ![r] = o] /\ Goto(r, l)

-----------------------------------------------------------------------------
(***************************************************************************)
(* createSync.                                                              *)
(***************************************************************************)

\* The parent is a post the page showed; it is not looked up.
Create(r) ==
    /\ \E p \in rows \union {NoPost}, n \in 0..MaxImages, hs \in SUBSET Tag :
         /\ Start(r, [kind |-> "create", post |-> p, keys |-> {r} \X (1..n), tags |-> hs],
                  IF n = 0 THEN "transact" ELSE "upload")
         /\ flying' = flying \union ({r} \X (1..n))
    /\ UNCHANGED <<tables, stored, queue>>

\* uploadImages starts all the uploads and waits for all of them.
Land(f) ==
    /\ f \in flying
    /\ flying' = flying \ {f}
    /\ stored' = stored \union {f}
    /\ pc' = [pc EXCEPT ![f[1]] =
                IF @ = "upload" /\ op[f[1]].keys \subseteq stored' THEN "transact" ELSE @]
    /\ UNCHANGED <<tables, op, queue>>

\* One fails: the call fails with it, the others go on.
UploadFails(f) ==
    /\ f \in flying
    /\ flying' = flying \ {f}
    /\ Goto(f[1], IF pc[f[1]] = "upload" THEN "uploadFailed" ELSE pc[f[1]])
    /\ UNCHANGED <<tables, stored, op, queue>>

\* The transaction: the post, its media, an upsert per hashtag, and the parent's
\* counter; it fails if the parent is gone.
Insert(r) ==
    LET p == op[r].post
    IN  /\ pc[r] = "transact" /\ op[r].kind = "create"
        /\ p # NoPost => p \in rows
        /\ rows' = rows \union {r}
        /\ parent' = [parent EXCEPT ![r] = p]
        /\ media' = media \union op[r].keys
        /\ replyCount' = [q \in Req |-> replyCount[q] + (IF q = p THEN 1 ELSE 0)]
        /\ tagCount' = [h \in Tag |-> tagCount[h] + (IF h \in op[r].tags THEN 1 ELSE 0)]
        /\ Goto(r, "done")
        /\ UNCHANGED <<deleted, repeats, cascaded, stored, op, flying, queue>>

\* Altered: the error of the transaction is passed on at once.
Abort_NoCleanup(r) ==
    /\ pc[r] = "transact"
    /\ Goto(r, "failed")
    /\ UNCHANGED <<tables, stored, op, flying, queue>>

\* Any of the transactions fails: a create then has its files cleaned up.
Abort(r) ==
    /\ pc[r] = "transact"
    /\ Goto(r, IF op[r].kind = "create" /\ op[r].keys # {} THEN "cleanup" ELSE "failed")
    /\ UNCHANGED <<tables, stored, op, flying, queue>>

-----------------------------------------------------------------------------
(***************************************************************************)
(* softDelete and delete: the owner's call reads the post with its media,    *)
(* and its transaction trusts what was read.                                *)
(***************************************************************************)
Find(r, kind) ==
    /\ \E p \in rows :
         Start(r, [kind |-> kind, post |-> p, keys |-> {FromUrl(f) : f \in {g \in media : g[1] = p}}],
               "transact")
    /\ UNCHANGED <<tables, stored, flying, queue>>

\* One reply less for the parent, also when the reply was deleted before.
Decrement(p) ==
    /\ replyCount' = [q \in Req |-> replyCount[q] - (IF q = parent[p] THEN 1 ELSE 0)]
    /\ repeats' = [q \in Req |-> repeats[q] + (IF q = parent[p] /\ p \in deleted THEN 1 ELSE 0)]

\* Altered: the counter is left alone.
SoftDelete_NoDecrement(r) ==
    LET p == op[r].post
    IN  /\ pc[r] = "transact" /\ op[r].kind = "softDelete"
        /\ p \in rows
        /\ deleted' = deleted \union {p}
        /\ Goto(r, "done")
        /\ UNCHANGED <<rows, parent, replyCount, media, tagCount, repeats, cascaded, stored, op, flying, queue>>

SoftDelete(r) ==
    LET p == op[r].post
    IN  /\ pc[r] = "transact" /\ op[r].kind = "softDelete"
        /\ p \in rows
        /\ deleted' = deleted \union {p}
        /\ Decrement(p)
        /\ Goto(r, "done")
        /\ UNCHANGED <<rows, parent, media, tagCount, cascaded, stored, op, flying, queue>>

HasReplies(S) == \A q \in rows : parent[q] \in S => q \in S

\* Altered: the relation without onDelete: Cascade.
Subtree_Childless(p) == {p} \intersect rows

\* The posts that fall with p, parent_post_id cascades: the least set with p that
\* has the replies of its posts.
Subtree(p) == {q \in rows : \A S \in SUBSET rows : p \in S /\ HasReplies(S) => q \in S}

\* Altered: the cleanup is queued before the transaction.
Delete_CleanupFirst(r) ==
    LET p == op[r].post
        fallen == Subtree(p)
    IN  /\ pc[r] = "transact" /\ op[r].kind = "delete"
        /\ p \in rows
        /\ IF job[r] = "none"
             THEN /\ job' = [job EXCEPT ![r] = "queued"]
                  /\ left' = [left EXCEPT ![r] = op[r].keys]
                  /\ UNCHANGED <<tables, pc, tries>>
             ELSE /\ rows' = rows \ fallen
                  /\ deleted' = deleted \ fallen
                  /\ media' = {f \in media : f[1] \notin fallen}
                  /\ cascaded' = cascaded \union {f \in media : f[1] \in fallen \ {p}}
                  /\ Decrement(p)
                  /\ Goto(r, "done")
                  /\ UNCHANGED <<parent, tagCount, queue>>
        /\ UNCHANGED <<stored, op, flying>>

\* The row is deleted last: if it is gone, the transaction takes its decrement
\* back.
Delete(r) ==
    LET p == op[r].post
        fallen == Subtree(p)
    IN  /\ pc[r] = "transact" /\ op[r].kind = "delete"
        /\ p \in rows
        /\ rows' = rows \ fallen
        /\ deleted' = deleted \ fallen
        /\ media' = {f \in media : f[1] \notin fallen}
        /\ cascaded' = cascaded \union {f \in media : f[1] \in fallen \ {p}}
        /\ Decrement(p)
        /\ Goto(r, IF op[r].keys = {} THEN "done" ELSE "cleanup")
        /\ UNCHANGED <<parent, tagCount, stored, op, flying, queue>>

-----------------------------------------------------------------------------
(***************************************************************************)
(* The cleanup queue.                                                       *)
(***************************************************************************)
ScheduleCleanup(r) ==
    /\ pc[r] = "cleanup"
    /\ job' = [job EXCEPT ![r] = "queued"]
    /\ left' = [left EXCEPT ![r] = op[r].keys]
    /\ Goto(r, IF op[r].kind = "create" THEN "failed" ELSE "done")
    /\ UNCHANGED <<tables, stored, op, flying, tries>>

\* The process stops, or Redis refuses the job: the rest of the call is lost.
Crash(r) ==
    /\ pc[r] \in Busy
    /\ Goto(r, "crashed")
    /\ UNCHANGED <<tables, stored, op, flying, queue>>

\* DeleteObjects answers with the keys it could not delete, which nobody reads.
Process(r) ==
    /\ job[r] = "queued"
    /\ \E refused \in SUBSET left[r] : stored' = stored \ (left[r] \ refused)
    /\ job' = [job EXCEPT ![r] = "completed"]
    /\ UNCHANGED <<tables, calls, flying, left, tries>>

\* Altered: the attempts start again when they are used up.
ProcessFails_NeverGivesUp(r) ==
    /\ job[r] = "queued"
    /\ \E ks \in {{}, left[r]} : stored' = stored \ ks
    /\ tries' = [tries EXCEPT ![r] = (@ + 1) % Attempts]
    /\ UNCHANGED <<tables, calls, flying, job, left>>

\* An attempt throws, before or after the objects are deleted.
ProcessFails(r) ==
    /\ job[r] = "queued"
    /\ \E ks \in {{}, left[r]} : stored' = stored \ ks
    /\ tries' = [tries EXCEPT ![r] = @ + 1]
    /\ job' = [job EXCEPT ![r] = IF tries[r] + 1 = Attempts THEN "manual" ELSE @]
    /\ UNCHANGED <<tables, calls, flying, left>>

Work(r) == Insert(r) \/ Abort(r) \/ SoftDelete(r) \/ Delete(r) \/ ScheduleCleanup(r) \/ Crash(r)

Worker(r) == Process(r) \/ ProcessFails(r)

Quiescent ==
    /\ \A r \in Req : pc[r] \in Over /\ job[r] # "queued"
    /\ flying = {}
    /\ UNCHANGED vars

Next ==
    \/ \E r \in Req :
         \/ Create(r) \/ Find(r, "softDelete") \/ Find(r, "delete")
         \/ Work(r) \/ Worker(r)
    \/ \E f \in flying : Land(f) \/ UploadFails(f)
    \/ Quiescent

Spec == Init /\ [][Next]_vars

\* Calls, uploads and workers run; the owner need not delete anything.
FairSpec ==
    /\ Spec
    /\ \A r \in Req : WF_vars(Work(r)) /\ WF_vars(Worker(r))
    /\ \A f \in File : WF_vars(Land(f) \/ UploadFails(f))

-----------------------------------------------------------------------------
\* The type invariant; a reply's parent is there as long as the reply is.
TypeOK ==
    /\ rows \subseteq Req /\ deleted \subseteq rows
    /\ parent \in [Req -> Req \union {NoPost}]
    /\ \A p \in rows : parent[p] \in rows \union {NoPost}
    /\ replyCount \in [Req -> Int]
    /\ tagCount \in [Tag -> Nat]
    /\ media \subseteq File /\ stored \subseteq File /\ flying \subseteq File
    /\ pc \in [Req -> {"idle"} \union Busy \union Over]
    /\ job \in [Req -> {"none", "queued", "completed", "manual"}]
    /\ tries \in [Req -> 0..Attempts]

LiveReplies(p) == Cardinality(Replies(p) \ deleted)

\* What the counter is for: the number of replies the page shows under a post.
ReplyCountShows == \A p \in rows : replyCount[p] = LiveReplies(p)

\* The counters are what was done, whatever overlapped and whatever failed: replyCount
\* is the number of replies that are not deleted, less one for every time a reply was
\* deleted that had been deleted before; postCount of a hashtag is the number of posts
\* ever made with it.
CountersAccount ==
    /\ \A p \in rows : replyCount[p] + repeats[p] = LiveReplies(p)
    /\ \A h \in Tag :
         tagCount[h] = Cardinality({r \in Req : /\ pc[r] = "done"
                                                /\ op[r].kind = "create"
                                                /\ h \in op[r].tags})

\* The files of a post that is there are in the bucket: no cleanup, however
\* late or repeated, takes a file a committed post names.
MediaHaveFiles == media \subseteq stored

\* Every other object in the bucket is on its way to a post or to a cleanup, or
\* was left behind in one of the ways there are: its call failed while uploading
\* or crashed, its row fell with an ancestor, the bucket refused to delete it,
\* its cleanup ran out of attempts, or its name was not read back from its URL.
Pending(f) ==
    \/ \E r \in Req : pc[r] \in Busy /\ f \in op[r].keys
    \/ \E r \in Req : job[r] = "queued" /\ f \in left[r]

LeftBehind(f) ==
    \/ pc[f[1]] = "uploadFailed"
    \/ f \in cascaded
    \/ \E r \in Req : job[r] \in {"completed", "manual"} /\ f \in left[r]
    \/ \E r \in Req : pc[r] = "crashed" /\ f \in op[r].keys
    \/ \E r \in Req : op[r].kind = "delete" /\ FromUrl(f) # f /\ FromUrl(f) \in op[r].keys

FilesAccountedFor == \A f \in stored \ media : Pending(f) \/ LeftBehind(f)

\* Every cleanup that was queued ends, by success or by asking for a manual one.
CleanupEnds == \A r \in Req : (job[r] = "queued") ~> (job[r] \in {"completed", "manual"})
=============================================================================
