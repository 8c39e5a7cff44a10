---------------------------- MODULE PostsProofs ----------------------------
(***************************************************************************)
(* The invariants of Posts for any number of calls, images and attempts.     *)
(* The files of a committed post are safe because a file is doomed only once *)
(* its creator can no longer commit, and a deleted post's rows are gone      *)
(* before its files are.  Two more invariants rest on that one: FilesInv, on  *)
(* who answers for an object of the bucket, and CountsInv, on the counters.   *)
(***************************************************************************)
EXTENDS Posts, FiniteSetTheorems, TLAPS

Op ==
    {NoOp}
    \union [kind : {"create"}, post : Req \union {NoPost}, keys : SUBSET File, tags : SUBSET Tag]
    \union [kind : {"softDelete", "delete"}, post : Req, keys : SUBSET Key]

\* The states from which a call may still commit a post.
Before == {"idle", "upload", "transact"}

\* What the bookkeeping of calls and jobs looks like.
Typed ==
    /\ op \in [Req -> Op]
    /\ \A r \in Req : op[r] = NoOp <=> pc[r] = "idle"
    /\ left \in [Req -> SUBSET Key]
    /\ \A r \in Req : job[r] \in {"none", "queued"} => tries[r] < Attempts
    /\ \A r \in Req : job[r] # "none" => pc[r] \in {"done", "failed"}

\* A file that is shown was committed by its creator.
Shown == \A f \in media : pc[f[1]] = "done"

\* A create works on its own files, and they are there when it commits.
CreateKeys ==
    \A r \in Req : op[r].kind = "create" =>
        /\ \A f \in op[r].keys : f[1] = r
        /\ pc[r] = "transact" => op[r].keys \subseteq stored

\* A deletion works on the files of its post, whose creator is done.
DeleteKeys ==
    \A r \in Req : op[r].kind \in {"softDelete", "delete"} =>
        \A f \in op[r].keys : f[1] = op[r].post /\ pc[f[1]] = "done"

\* A file to be cleaned up is not shown, and never will be.
Doomed(f) == f \notin media /\ pc[f[1]] \notin Before

DoomedFiles ==
    \A r \in Req :
        /\ \A f \in left[r] : Doomed(f)
        /\ pc[r] = "cleanup" => \A f \in op[r].keys : Doomed(f)

IInv == TypeOK /\ Typed /\ MediaHaveFiles /\ Shown /\ CreateKeys /\ DeleteKeys /\ DoomedFiles

LEMMA FileCreator == \A f \in File : f[1] \in Req
BY DEF File

LEMMA FilesAreKeys == File \subseteq Key
BY PostsAssumption DEF File, Key

\* A key read back from a URL may name no object, but never one of another post.
LEMMA SamePost == \A f \in File : FromUrl(f) \in Key /\ FromUrl(f)[1] = f[1]
<1> SUFFICES ASSUME NEW f \in File PROVE FromUrl(f) \in Key /\ FromUrl(f)[1] = f[1]
  OBVIOUS
<1>1. f = <<f[1], f[2]>> /\ f[1] \in Req /\ f[2] \in 1..MaxImages
  BY DEF File
<1>2. -f[2] \in (-MaxImages)..MaxImages
  BY <1>1, PostsAssumption
<1> QED BY <1>1, <1>2, FilesAreKeys DEF FromUrl, Key

LEMMA InitInv == Init => IInv
<1> SUFFICES ASSUME Init PROVE IInv
  OBVIOUS
<1> USE PostsAssumption, NoPostAssumption DEF Init
<1>1. TypeOK
  BY DEF TypeOK, Busy, Over
<1>2. Typed
  BY DEF Typed, Op
<1>3. MediaHaveFiles /\ Shown /\ CreateKeys /\ DeleteKeys /\ DoomedFiles
  BY DEF MediaHaveFiles, Shown, CreateKeys, DeleteKeys, DoomedFiles, NoOp
<1> QED BY <1>1, <1>2, <1>3 DEF IInv

-----------------------------------------------------------------------------
(***************************************************************************)
(* The steps, one lemma per action.                                         *)
(***************************************************************************)
LEMMA CreateKeeps ==
    ASSUME IInv, NEW r \in Req, Create(r)
    PROVE  IInv'
<1> USE DEF IInv
<1>1. PICK p \in rows \union {NoPost}, n \in 0..MaxImages, hs \in SUBSET Tag :
        /\ pc[r] = "idle"
        /\ op' = [op EXCEPT ![r] = [kind |-> "create", post |-> p,
                                    keys |-> {r} \X (1..n), tags |-> hs]]
        /\ pc' = [pc EXCEPT ![r] = IF n = 0 THEN "transact" ELSE "upload"]
        /\ flying' = flying \union ({r} \X (1..n))
  BY DEF Create, Start, Goto
<1>2. UNCHANGED <<rows, deleted, parent, replyCount, media, tagCount, stored, job, left, tries>>
  BY DEF Create, tables, queue
<1>3. {r} \X (1..n) \subseteq File /\ (n = 0 => {r} \X (1..n) = {})
  BY PostsAssumption DEF File
<1>4. TypeOK'
  <2>1. p \in Req \union {NoPost}
    BY DEF TypeOK
  <2> QED BY <1>1, <1>2, <1>3 DEF TypeOK, Busy, Over
<1>5. Typed'
  <2>1. op'[r] \in Op /\ op'[r] # NoOp
    BY <1>1, <1>3 DEF Op, NoOp, TypeOK, Typed
  <2> QED BY <1>1, <1>2, <2>1 DEF Typed, TypeOK
<1>6. MediaHaveFiles'
  BY <1>2 DEF MediaHaveFiles
<1>7. Shown'
  BY <1>1, <1>2 DEF Shown, TypeOK
<1>8. CreateKeys'
  <2> SUFFICES ASSUME NEW q \in Req, op'[q].kind = "create"
               PROVE  /\ \A f \in op'[q].keys : f[1] = q
                      /\ pc'[q] = "transact" => op'[q].keys \subseteq stored'
    BY DEF CreateKeys
  <2>1. CASE q = r
    BY <2>1, <1>1, <1>3 DEF TypeOK, Typed
  <2>2. CASE q # r
    BY <2>2, <1>1, <1>2 DEF TypeOK, Typed, CreateKeys
  <2> QED BY <2>1, <2>2
<1>9. DeleteKeys'
  BY <1>1 DEF DeleteKeys, Typed, TypeOK
<1>10. DoomedFiles'
  BY <1>1, <1>2 DEF DoomedFiles, Doomed, Before, Typed, TypeOK
<1> QED BY <1>4, <1>5, <1>6, <1>7, <1>8, <1>9, <1>10

LEMMA FindKeeps ==
    ASSUME IInv, NEW r \in Req, NEW kind \in {"softDelete", "delete"}, Find(r, kind)
    PROVE  IInv'
<1> USE DEF IInv
<1>1. PICK p \in rows :
        /\ pc[r] = "idle"
        /\ op' = [op EXCEPT ![r] = [kind |-> kind, post |-> p, keys |-> {FromUrl(f) : f \in {g \in media : g[1] = p}}]]
        /\ pc' = [pc EXCEPT ![r] = "transact"]
  BY DEF Find, Start, Goto
<1>2. UNCHANGED <<rows, deleted, parent, replyCount, media, tagCount, stored, flying, job, left, tries>>
  BY DEF Find, tables, queue
<1>3. TypeOK'
  BY <1>1, <1>2 DEF TypeOK, Busy
<1>4. Typed'
  <2>1. {FromUrl(f) : f \in {g \in media : g[1] = p}} \subseteq Key
    BY SamePost DEF TypeOK
  <2>2. op'[r] \in Op /\ op'[r] # NoOp
    BY <1>1, <2>1 DEF Op, NoOp, TypeOK, Typed
  <2> QED BY <1>1, <1>2, <2>2 DEF Typed, TypeOK
<1>5. MediaHaveFiles' /\ Shown'
  BY <1>1, <1>2 DEF MediaHaveFiles, Shown, TypeOK
<1>6. CreateKeys'
  BY <1>1, <1>2 DEF CreateKeys, Typed, TypeOK
<1>7. DeleteKeys'
  <2>1. \A k \in op'[r].keys : k[1] = p /\ pc[k[1]] = "done"
    BY <1>1, SamePost DEF Shown, Typed, TypeOK
  <2> QED BY <1>1, <2>1 DEF DeleteKeys, Typed, TypeOK
<1>8. DoomedFiles'
  BY <1>1, <1>2 DEF DoomedFiles, Doomed, Before, Typed, TypeOK
<1> QED BY <1>3, <1>4, <1>5, <1>6, <1>7, <1>8

\* A step of call r that leaves the tables, the bucket and the queue alone and
\* only moves r on, to where it cannot commit any more.
LEMMA MoveKeeps ==
    ASSUME IInv, NEW r \in Req, NEW l \in {"uploadFailed", "failed", "crashed"},
           pc[r] \in {"upload", "transact", "cleanup"},
           pc' = [pc EXCEPT ![r] = l],
           flying' \subseteq flying,
           UNCHANGED <<rows, deleted, parent, replyCount, media, tagCount, stored, op, job, left, tries>>
    PROVE  IInv'
<1> USE DEF IInv
<1>1. TypeOK'
  BY DEF TypeOK, Over
<1>2. Typed' /\ MediaHaveFiles' /\ CreateKeys'
  BY DEF Typed, MediaHaveFiles, CreateKeys, TypeOK
<1>3. Shown'
  BY DEF Shown, TypeOK
<1>4. DeleteKeys'
  BY DEF DeleteKeys, TypeOK
<1>5. DoomedFiles'
  <2> SUFFICES ASSUME NEW f, Doomed(f) PROVE Doomed(f)'
    BY DEF DoomedFiles, TypeOK
  <2> QED BY DEF Doomed, Before, TypeOK
<1> QED BY <1>1, <1>2, <1>3, <1>4, <1>5

LEMMA LandKeeps ==
    ASSUME IInv, NEW f \in flying, Land(f)
    PROVE  IInv'
<1> USE DEF IInv
<1>1. /\ flying' \subseteq flying
      /\ stored' = stored \union {f}
      /\ UNCHANGED <<rows, deleted, parent, replyCount, media, tagCount, op, job, left, tries>>
  BY DEF Land, tables, queue
<1> DEFINE r == f[1]
<1>2. f \in File /\ r \in Req
  BY FileCreator DEF TypeOK
<1>3. CASE pc' = pc
  <2>1. TypeOK' /\ Typed'
    BY <1>1, <1>2, <1>3 DEF TypeOK, Typed
  <2>2. MediaHaveFiles' /\ Shown' /\ CreateKeys' /\ DeleteKeys' /\ DoomedFiles'
    BY <1>1, <1>3 DEF MediaHaveFiles, Shown, CreateKeys, DeleteKeys, DoomedFiles, Doomed
  <2> QED BY <2>1, <2>2
<1>4. CASE /\ pc[r] = "upload" /\ op[r].keys \subseteq stored'
           /\ pc' = [pc EXCEPT ![r] = "transact"]
  <2>1. TypeOK'
    BY <1>1, <1>2, <1>4 DEF TypeOK, Busy
  <2>2. Typed'
    BY <1>1, <1>2, <1>4 DEF TypeOK, Typed
  <2>3. MediaHaveFiles' /\ Shown'
    BY <1>1, <1>2, <1>4 DEF MediaHaveFiles, Shown, TypeOK
  <2>4. CreateKeys'
    BY <1>1, <1>2, <1>4 DEF CreateKeys, TypeOK
  <2>5. DeleteKeys'
    BY <1>1, <1>2, <1>4 DEF DeleteKeys, TypeOK
  <2>6. DoomedFiles'
    BY <1>1, <1>2, <1>4 DEF DoomedFiles, Doomed, Before, TypeOK
  <2> QED BY <2>1, <2>2, <2>3, <2>4, <2>5, <2>6
<1>5. pc' = pc \/ (pc[r] = "upload" /\ op[r].keys \subseteq stored' /\ pc' = [pc EXCEPT ![r] = "transact"])
  BY <1>2 DEF Land, TypeOK
<1> QED BY <1>3, <1>4, <1>5

LEMMA UploadFailsKeeps ==
    ASSUME IInv, NEW f \in flying, UploadFails(f)
    PROVE  IInv'
<1> USE DEF IInv
<1>1. /\ flying' \subseteq flying
      /\ UNCHANGED <<rows, deleted, parent, replyCount, media, tagCount, stored, op, job, left, tries>>
  BY DEF UploadFails, tables, queue
<1>2. f[1] \in Req
  BY FileCreator DEF TypeOK
<1>3. CASE pc[f[1]] = "upload"
  <2>1. pc' = [pc EXCEPT ![f[1]] = "uploadFailed"]
    BY <1>3 DEF UploadFails, Goto
  <2> QED BY <1>1, <1>2, <1>3, <2>1, MoveKeeps
<1>4. CASE pc[f[1]] # "upload"
  <2>1. pc' = pc
    BY <1>2, <1>4 DEF UploadFails, Goto, TypeOK
  <2>2. TypeOK' /\ Typed'
    BY <1>1, <2>1 DEF TypeOK, Typed
  <2>3. MediaHaveFiles' /\ Shown' /\ CreateKeys' /\ DeleteKeys' /\ DoomedFiles'
    BY <1>1, <2>1 DEF MediaHaveFiles, Shown, CreateKeys, DeleteKeys, DoomedFiles, Doomed
  <2> QED BY <2>2, <2>3
<1> QED BY <1>3, <1>4

LEMMA InsertKeeps ==
    ASSUME IInv, NEW r \in Req, Insert(r)
    PROVE  IInv'
<1> USE DEF IInv
<1> DEFINE p == op[r].post
<1>1. /\ pc[r] = "transact" /\ op[r].kind = "create"
      /\ p # NoPost => p \in rows
      /\ rows' = rows \union {r}
      /\ parent' = [parent EXCEPT ![r] = p]
      /\ media' = media \union op[r].keys
      /\ pc' = [pc EXCEPT ![r] = "done"]
      /\ UNCHANGED <<deleted, stored, op, flying, job, left, tries>>
  BY DEF Insert, Goto, queue
<1>2. /\ replyCount' = [q \in Req |-> replyCount[q] + (IF q = p THEN 1 ELSE 0)]
      /\ tagCount' = [h \in Tag |-> tagCount[h] + (IF h \in op[r].tags THEN 1 ELSE 0)]
  BY DEF Insert
<1>3. op[r].keys \subseteq stored /\ (\A f \in op[r].keys : f[1] = r)
  BY <1>1 DEF CreateKeys
<1>4. TypeOK'
  <2>1. replyCount' \in [Req -> Int] /\ tagCount' \in [Tag -> Nat]
    BY <1>2 DEF TypeOK
  <2>2. /\ parent' \in [Req -> Req \union {NoPost}]
        /\ \A q \in rows' : parent'[q] \in rows' \union {NoPost}
    BY <1>1 DEF TypeOK
  <2>3. media' \subseteq File
    BY <1>1, <1>3 DEF TypeOK
  <2> QED BY <1>1, <2>1, <2>2, <2>3 DEF TypeOK, Over
<1>5. Typed'
  BY <1>1 DEF Typed, TypeOK
<1>6. MediaHaveFiles'
  BY <1>1, <1>3 DEF MediaHaveFiles
<1>7. Shown'
  BY <1>1, <1>3 DEF Shown, TypeOK
<1>8. CreateKeys'
  BY <1>1 DEF CreateKeys, TypeOK
<1>9. DeleteKeys'
  BY <1>1 DEF DeleteKeys, TypeOK
<1>10. DoomedFiles'
  <2>1. ASSUME NEW f, Doomed(f) PROVE Doomed(f)'
    BY <2>1, <1>1, <1>3 DEF Doomed, Before, TypeOK
  <2> QED BY <1>1, <2>1 DEF DoomedFiles, TypeOK
<1> QED BY <1>4, <1>5, <1>6, <1>7, <1>8, <1>9, <1>10

LEMMA AbortKeeps ==
    ASSUME IInv, NEW r \in Req, Abort(r)
    PROVE  IInv'
<1> USE DEF IInv
<1>1. pc[r] = "transact" /\ UNCHANGED <<rows, deleted, parent, replyCount, media, tagCount, stored, op,
                                        flying, job, left, tries>>
  BY DEF Abort, tables, queue
<1>2. CASE op[r].kind = "create" /\ op[r].keys # {}
  <2>1. pc' = [pc EXCEPT ![r] = "cleanup"]
    BY <1>2 DEF Abort, Goto
  <2>2. TypeOK' /\ Typed'
    BY <1>1, <2>1 DEF TypeOK, Typed, Busy
  <2>3. MediaHaveFiles' /\ Shown' /\ CreateKeys' /\ DeleteKeys'
    BY <1>1, <2>1 DEF MediaHaveFiles, Shown, CreateKeys, DeleteKeys, TypeOK
  <2>4. DoomedFiles'
    <3>1. ASSUME NEW f, Doomed(f) PROVE Doomed(f)'
      BY <3>1, <1>1, <2>1 DEF Doomed, Before, TypeOK
    <3>2. \A f \in op[r].keys : Doomed(f)'
      BY <1>1, <1>2, <2>1 DEF CreateKeys, Shown, Doomed, Before, TypeOK
    <3> QED BY <1>1, <2>1, <3>1, <3>2 DEF DoomedFiles, TypeOK
  <2> QED BY <2>2, <2>3, <2>4
<1>3. CASE ~(op[r].kind = "create" /\ op[r].keys # {})
  <2>1. pc' = [pc EXCEPT ![r] = "failed"]
    BY <1>3 DEF Abort, Goto
  <2> QED BY <1>1, <2>1, MoveKeeps
<1> QED BY <1>2, <1>3

LEMMA SoftDeleteKeeps ==
    ASSUME IInv, NEW r \in Req, SoftDelete(r)
    PROVE  IInv'
<1> USE DEF IInv
<1> DEFINE p == op[r].post
<1>1. /\ pc[r] = "transact" /\ op[r].kind = "softDelete" /\ p \in rows
      /\ deleted' = deleted \union {p}
      /\ replyCount' = [q \in Req |-> replyCount[q] - (IF q = parent[p] THEN 1 ELSE 0)]
      /\ pc' = [pc EXCEPT ![r] = "done"]
      /\ UNCHANGED <<rows, parent, media, tagCount, stored, op, flying, job, left, tries>>
  BY DEF SoftDelete, Decrement, Goto, queue
<1>2. TypeOK'
  <2>1. replyCount' \in [Req -> Int]
    BY <1>1 DEF TypeOK
  <2> QED BY <1>1, <2>1 DEF TypeOK, Over
<1>3. Typed' /\ MediaHaveFiles' /\ CreateKeys'
  BY <1>1 DEF Typed, MediaHaveFiles, CreateKeys, TypeOK
<1>4. Shown' /\ DeleteKeys'
  BY <1>1 DEF Shown, DeleteKeys, TypeOK
<1>5. DoomedFiles'
  <2>1. ASSUME NEW f, Doomed(f) PROVE Doomed(f)'
    BY <2>1, <1>1 DEF Doomed, Before, TypeOK
  <2> QED BY <1>1, <2>1 DEF DoomedFiles, TypeOK
<1> QED BY <1>2, <1>3, <1>4, <1>5

LEMMA SubtreeHas == \A p \in rows : p \in Subtree(p)
BY DEF Subtree

LEMMA DeleteKeeps ==
    ASSUME IInv, NEW r \in Req, Delete(r)
    PROVE  IInv'
<1> USE DEF IInv
<1> DEFINE p == op[r].post
           fallen == Subtree(p)
<1>1. /\ pc[r] = "transact" /\ op[r].kind = "delete" /\ p \in rows
      /\ rows' = rows \ fallen
      /\ deleted' = deleted \ fallen
      /\ media' = {f \in media : f[1] \notin fallen}
      /\ replyCount' = [q \in Req |-> replyCount[q] - (IF q = parent[p] THEN 1 ELSE 0)]
      /\ pc' = [pc EXCEPT ![r] = IF op[r].keys = {} THEN "done" ELSE "cleanup"]
      /\ UNCHANGED <<parent, tagCount, stored, op, flying, job, left, tries>>
  BY DEF Delete, Decrement, Goto, queue
<1>2. p \in fallen
  BY <1>1, SubtreeHas
<1>3. TypeOK'
  <2>1. replyCount' \in [Req -> Int]
    BY <1>1 DEF TypeOK
  <2>2. ASSUME NEW q \in rows' PROVE parent'[q] \in rows' \union {NoPost}
    <3>1. q \in rows /\ q \notin fallen
      BY <1>1, <2>2
    <3>2. PICK S \in SUBSET rows : p \in S /\ HasReplies(S) /\ q \notin S
      BY <3>1 DEF Subtree
    <3>3. parent[q] \notin S
      BY <3>1, <3>2 DEF HasReplies
    <3>4. parent[q] \notin fallen
      BY <3>2, <3>3 DEF Subtree
    <3> QED BY <1>1, <3>1, <3>4 DEF TypeOK
  <2>3. pc' \in [Req -> {"idle"} \union Busy \union Over]
    BY <1>1 DEF TypeOK, Busy, Over
  <2> QED BY <1>1, <2>1, <2>2, <2>3 DEF TypeOK
<1>4. Typed' /\ MediaHaveFiles' /\ CreateKeys'
  BY <1>1 DEF Typed, MediaHaveFiles, CreateKeys, TypeOK
<1>5. Shown' /\ DeleteKeys'
  BY <1>1 DEF Shown, DeleteKeys, TypeOK
<1>6. DoomedFiles'
  <2>1. ASSUME NEW f, Doomed(f) PROVE Doomed(f)'
    BY <2>1, <1>1 DEF Doomed, Before, TypeOK
  <2>2. \A f \in op[r].keys : Doomed(f)'
    <3> SUFFICES ASSUME NEW f \in op[r].keys PROVE Doomed(f)'
      OBVIOUS
    <3>1. f[1] = p /\ pc[f[1]] = "done"
      BY <1>1 DEF DeleteKeys
    <3>2. f \notin media'
      BY <1>1, <1>2, <3>1
    <3>3. pc'[f[1]] = "done"
      BY <1>1, <3>1 DEF TypeOK
    <3> QED BY <3>2, <3>3 DEF Doomed, Before
  <2> QED BY <1>1, <2>1, <2>2 DEF DoomedFiles, TypeOK
<1> QED BY <1>3, <1>4, <1>5, <1>6

LEMMA ScheduleCleanupKeeps ==
    ASSUME IInv, NEW r \in Req, ScheduleCleanup(r)
    PROVE  IInv'
<1> USE DEF IInv
<1>1. /\ pc[r] = "cleanup"
      /\ job' = [job EXCEPT ![r] = "queued"]
      /\ left' = [left EXCEPT ![r] = op[r].keys]
      /\ pc' = [pc EXCEPT ![r] = IF op[r].kind = "create" THEN "failed" ELSE "done"]
      /\ UNCHANGED <<rows, deleted, parent, replyCount, media, tagCount, stored, op, flying, tries>>
  BY DEF ScheduleCleanup, Goto, tables
<1>2. op[r].keys \subseteq Key
  BY <1>1, FilesAreKeys DEF Typed, Op, TypeOK, NoOp
<1>3. TypeOK'
  BY <1>1 DEF TypeOK, Over
<1>4. Typed'
  <2>1. left' \in [Req -> SUBSET Key]
    BY <1>1, <1>2 DEF Typed
  <2>2. \A q \in Req : job'[q] \in {"none", "queued"} => tries'[q] < Attempts
    BY <1>1 DEF Typed, TypeOK
  <2> QED BY <1>1, <2>1, <2>2 DEF Typed, TypeOK
<1>5. MediaHaveFiles' /\ Shown' /\ CreateKeys' /\ DeleteKeys'
  BY <1>1 DEF MediaHaveFiles, Shown, CreateKeys, DeleteKeys, TypeOK
<1>6. DoomedFiles'
  <2>1. ASSUME NEW f, Doomed(f) PROVE Doomed(f)'
    BY <2>1, <1>1 DEF Doomed, Before, TypeOK
  <2> QED BY <1>1, <2>1 DEF DoomedFiles, TypeOK, Typed
<1> QED BY <1>3, <1>4, <1>5, <1>6

\* The bucket loses doomed files only, so nothing a post shows or a create is
\* about to commit.
LEMMA WorkerKeeps ==
    ASSUME IInv, NEW r \in Req, Worker(r)
    PROVE  IInv'
<1> USE DEF IInv
<1>1. PICK ks \in SUBSET left[r] : stored' = stored \ ks
  <2>1. CASE Process(r)
    BY <2>1 DEF Process
  <2>2. CASE ProcessFails(r)
    BY <2>2 DEF ProcessFails
  <2> QED BY <2>1, <2>2 DEF Worker
<1>2. UNCHANGED <<rows, deleted, parent, replyCount, media, tagCount, pc, op, flying, left>>
  BY DEF Worker, Process, ProcessFails, tables, calls
<1>3. /\ job[r] = "queued"
      /\ job' \in [Req -> {"none", "queued", "completed", "manual"}]
      /\ tries' \in [Req -> 0..Attempts]
      /\ \A q \in Req : job'[q] \in {"none", "queued"} => tries'[q] < Attempts
      /\ \A q \in Req : job'[q] # "none" => job[q] # "none"
  <2>1. CASE Process(r)
    BY <2>1 DEF Process, Typed, TypeOK
  <2>2. CASE ProcessFails(r)
    <3>1. /\ job[r] = "queued"
          /\ tries' = [tries EXCEPT ![r] = tries[r] + 1]
          /\ job' = [job EXCEPT ![r] = IF tries[r] + 1 = Attempts THEN "manual" ELSE job[r]]
      BY <2>2 DEF ProcessFails
    <3>2. tries[r] \in 0..Attempts /\ tries[r] < Attempts
      BY <3>1 DEF Typed, TypeOK
    <3> QED BY <3>1, <3>2, PostsAssumption DEF Typed, TypeOK
  <2> QED BY <2>1, <2>2 DEF Worker
<1>4. TypeOK' /\ Typed'
  BY <1>1, <1>2, <1>3 DEF TypeOK, Typed
<1>5. MediaHaveFiles'
  BY <1>1, <1>2 DEF MediaHaveFiles, DoomedFiles, Doomed
<1>6. CreateKeys'
  <2> SUFFICES ASSUME NEW q \in Req, op[q].kind = "create", pc[q] = "transact",
                      NEW f \in op[q].keys
               PROVE  f \notin ks
    BY <1>1, <1>2 DEF CreateKeys
  <2>1. f[1] = q
    BY DEF CreateKeys
  <2> QED BY <2>1 DEF DoomedFiles, Doomed, Before
<1>7. Shown' /\ DeleteKeys' /\ DoomedFiles'
  BY <1>2 DEF Shown, DeleteKeys, DoomedFiles, Doomed
<1> QED BY <1>4, <1>5, <1>6, <1>7

LEMMA CrashKeeps ==
    ASSUME IInv, NEW r \in Req, Crash(r)
    PROVE  IInv'
BY MoveKeeps DEF Crash, Goto, Busy, tables, queue

LEMMA StepInv == IInv /\ [Next]_vars => IInv'
<1> SUFFICES ASSUME IInv, [Next]_vars PROVE IInv'
  OBVIOUS
<1>1. CASE UNCHANGED vars
  BY <1>1 DEF IInv, TypeOK, Typed, MediaHaveFiles, Shown, CreateKeys, DeleteKeys, DoomedFiles,
              Doomed, vars, tables, calls, queue
<1>2. ASSUME NEW r \in Req, Create(r) PROVE IInv'
  BY <1>2, CreateKeeps
<1>3. ASSUME NEW r \in Req, Find(r, "softDelete") \/ Find(r, "delete") PROVE IInv'
  BY <1>3, FindKeeps
<1>4. ASSUME NEW r \in Req, Work(r) PROVE IInv'
  BY <1>4, InsertKeeps, AbortKeeps, SoftDeleteKeeps, DeleteKeeps, ScheduleCleanupKeeps, CrashKeeps
     DEF Work
<1>5. ASSUME NEW r \in Req, Worker(r) PROVE IInv'
  BY <1>5, WorkerKeeps
<1>6. ASSUME NEW f \in flying, Land(f) \/ UploadFails(f) PROVE IInv'
  BY <1>6, LandKeeps, UploadFailsKeeps
<1>7. CASE Quiescent
  BY <1>1, <1>7 DEF Quiescent
<1> QED BY <1>1, <1>2, <1>3, <1>4, <1>5, <1>6, <1>7 DEF Next

-----------------------------------------------------------------------------
THEOREM Inductive == Spec => []IInv
BY InitInv, StepInv, PTL DEF Spec

\* Every reachable state is well typed, and no reply outlives its parent.
THEOREM TypeCorrect == Spec => []TypeOK
<1>1. IInv => TypeOK
  BY DEF IInv
<1> QED BY Inductive, <1>1, PTL

\* No cleanup takes a file that the media of a committed post name, however
\* creates, deletes, failures and retried jobs overlap.
THEOREM PostsKeepTheirFiles == Spec => []MediaHaveFiles
<1>1. IInv => MediaHaveFiles
  BY DEF IInv
<1> QED BY Inductive, <1>1, PTL

-----------------------------------------------------------------------------
(***************************************************************************)
(* Every object in the bucket is accounted for.  A deletion that has only    *)
(* read its post holds nothing yet: what it read may be a copy of what        *)
(* another deletion read, so Held leaves it out, and MediaRead says that it   *)
(* knows all the files of its post when it commits.                          *)
(***************************************************************************)
Deletion == {"softDelete", "delete"}

\* An upload under way is one of a create that still waits for it or gave up.
FlyingUploads ==
    \A f \in flying : /\ f \notin stored
                      /\ pc[f[1]] \in {"upload", "uploadFailed", "crashed"}
                      /\ op[f[1]].kind = "create"
                      /\ f \in op[f[1]].keys

StoredStarted == \A f \in stored : pc[f[1]] # "idle"

RowsCommitted == \A q \in rows : pc[q] = "done"

UploadsCreate == \A r \in Req : pc[r] \in {"upload", "uploadFailed"} => op[r].kind = "create"

MediaOf(p) == {FromUrl(f) : f \in {g \in media : g[1] = p}}

MediaRead ==
    \A r \in Req : op[r].kind \in Deletion =>
        /\ pc[op[r].post] = "done"
        /\ pc[r] = "transact" /\ op[r].post \in rows => op[r].keys = MediaOf(op[r].post)

Holds(r, f) ==
    \/ pc[r] \in Busy /\ f \in op[r].keys /\ (op[r].kind = "create" \/ pc[r] = "cleanup")
    \/ job[r] = "queued" /\ f \in left[r]

Accounted(f) == (\E r \in Req : Holds(r, f)) \/ LeftBehind(f)

StoredAccounted == \A f \in stored \ media : Accounted(f)

FilesInv ==
    /\ IInv /\ FlyingUploads /\ StoredStarted /\ RowsCommitted /\ UploadsCreate
    /\ MediaRead /\ StoredAccounted

LEMMA InitFiles == Init => FilesInv
<1> SUFFICES ASSUME Init PROVE FilesInv
  OBVIOUS
<1>1. FlyingUploads /\ StoredStarted /\ RowsCommitted /\ StoredAccounted
  BY DEF Init, FlyingUploads, StoredStarted, RowsCommitted, StoredAccounted
<1>2. UploadsCreate /\ MediaRead
  BY DEF Init, UploadsCreate, MediaRead, NoOp, Deletion
<1> QED BY <1>1, <1>2, InitInv DEF FilesInv

\* What is accounted for stays so while no call but r moves, and r only starts.
LEMMA StartKeepsAccounts ==
    ASSUME IInv, NEW r \in Req, pc[r] = "idle",
           NEW o, NEW l \in Busy,
           op' = [op EXCEPT ![r] = o], pc' = [pc EXCEPT ![r] = l],
           UNCHANGED <<cascaded, job, left>>,
           NEW f \in File, Accounted(f)
    PROVE  Accounted(f)'
<1> USE DEF IInv, TypeOK, Typed
<1>1. op[r] = NoOp
  OBVIOUS
<1>2. CASE \E q \in Req : Holds(q, f)
  BY <1>2 DEF Accounted, Holds, Busy
<1>3. CASE LeftBehind(f)
  <2>1. f[1] \in Req
    BY FileCreator
  <2> QED BY <1>1, <1>3, <2>1 DEF LeftBehind, Accounted, NoOp
<1> QED BY <1>2, <1>3 DEF Accounted

LEMMA CreateKeepsFiles ==
    ASSUME FilesInv, NEW r \in Req, Create(r)
    PROVE  FilesInv'
<1> USE DEF FilesInv
<1>1. PICK p \in rows \union {NoPost}, n \in 0..MaxImages, hs \in SUBSET Tag :
        /\ pc[r] = "idle"
        /\ op' = [op EXCEPT ![r] = [kind |-> "create", post |-> p,
                                    keys |-> {r} \X (1..n), tags |-> hs]]
        /\ pc' = [pc EXCEPT ![r] = IF n = 0 THEN "transact" ELSE "upload"]
        /\ flying' = flying \union ({r} \X (1..n))
  BY DEF Create, Start, Goto
<1>2. UNCHANGED <<rows, media, stored, cascaded, job, left>>
  BY DEF Create, tables, queue
<1>3. IInv'
  BY CreateKeeps
<1> USE DEF IInv, TypeOK, Typed
<1>4. FlyingUploads'
  <2> SUFFICES ASSUME NEW f \in flying' PROVE /\ f \notin stored'
                                              /\ pc'[f[1]] \in {"upload", "uploadFailed", "crashed"}
                                              /\ op'[f[1]].kind = "create"
                                              /\ f \in op'[f[1]].keys
    BY DEF FlyingUploads
  <2>1. CASE f \in flying
    BY <2>1, <1>1, <1>2, FileCreator DEF FlyingUploads
  <2>2. CASE f \in {r} \X (1..n)
    <3>1. f[1] = r /\ n # 0
      BY <2>2
    <3> QED BY <2>2, <3>1, <1>1, <1>2 DEF StoredStarted
  <2> QED BY <2>1, <2>2, <1>1
<1>5. StoredStarted' /\ RowsCommitted'
  BY <1>1, <1>2, FileCreator DEF StoredStarted, RowsCommitted
<1>6. UploadsCreate'
  BY <1>1 DEF UploadsCreate
<1>7. MediaRead'
  BY <1>1, <1>2 DEF MediaRead, MediaOf, Deletion
<1>8. StoredAccounted'
  <2> DEFINE o == [kind |-> "create", post |-> p, keys |-> {r} \X (1..n), tags |-> hs]
             l == IF n = 0 THEN "transact" ELSE "upload"
  <2>1. op' = [op EXCEPT ![r] = o] /\ pc' = [pc EXCEPT ![r] = l] /\ l \in Busy
    BY <1>1 DEF Busy
  <2> HIDE DEF o, l
  <2>2. ASSUME NEW f \in File, Accounted(f) PROVE Accounted(f)'
    <3>1. pc[r] = "idle"
      BY <1>1
    <3> QED BY <3>1, <1>2, <2>1, <2>2, StartKeepsAccounts
  <2> QED BY <1>2, <2>2 DEF StoredAccounted
<1> QED BY <1>3, <1>4, <1>5, <1>6, <1>7, <1>8

LEMMA FindKeepsFiles ==
    ASSUME FilesInv, NEW r \in Req, NEW kind \in Deletion, Find(r, kind)
    PROVE  FilesInv'
<1> USE DEF FilesInv
<1>1. PICK p \in rows :
        /\ pc[r] = "idle"
        /\ op' = [op EXCEPT ![r] = [kind |-> kind, post |-> p, keys |-> MediaOf(p)]]
        /\ pc' = [pc EXCEPT ![r] = "transact"]
  BY DEF Find, Start, Goto, MediaOf
<1>2. UNCHANGED <<rows, media, stored, flying, cascaded, job, left>>
  BY DEF Find, tables, queue
<1>3. IInv'
  BY FindKeeps DEF Deletion
<1> USE DEF IInv, TypeOK, Typed
<1>4. FlyingUploads' /\ StoredStarted' /\ RowsCommitted'
  BY <1>1, <1>2, FileCreator DEF FlyingUploads, StoredStarted, RowsCommitted
<1>5. UploadsCreate'
  BY <1>1 DEF UploadsCreate
<1>6. MediaRead'
  <2>1. pc[p] = "done" /\ p # r /\ MediaOf(p)' = MediaOf(p)
    BY <1>1, <1>2 DEF RowsCommitted, MediaOf
  <2>2. ASSUME NEW q \in Req, op'[q].kind \in Deletion
        PROVE  /\ pc'[op'[q].post] = "done"
               /\ pc'[q] = "transact" /\ op'[q].post \in rows' => op'[q].keys = MediaOf(op[q].post)'
    <3>1. CASE q = r
      <4>1. op'[q].post = p /\ op'[q].keys = MediaOf(p) /\ pc'[p] = "done"
        BY <3>1, <2>1, <1>1
      <4> QED BY <4>1, <1>2 DEF MediaOf
    <3>2. CASE q # r
      <4>1. op'[q] = op[q] /\ pc'[q] = pc[q] /\ pc[op[q].post] = "done"
        BY <3>2, <2>2, <1>1 DEF MediaRead
      <4>2. pc'[op[q].post] = "done"
        BY <4>1, <1>1
      <4> QED BY <2>2, <4>1, <4>2, <1>2 DEF MediaRead, MediaOf
    <3> QED BY <3>1, <3>2
  <2> QED BY <2>2 DEF MediaRead
<1>7. StoredAccounted'
  <2>1. \A f \in File : Accounted(f) => Accounted(f)'
    BY <1>1, <1>2, StartKeepsAccounts DEF Busy
  <2> QED BY <1>2, <2>1 DEF StoredAccounted
<1> QED BY <1>3, <1>4, <1>5, <1>6, <1>7


\* Nothing is lost by a step of call r or of its job that accounts for what r held.
LEMMA KeepsAccounts ==
    ASSUME IInv, NEW r \in Req, UNCHANGED op, cascaded \subseteq cascaded',
           \A q \in Req : q # r => pc'[q] = pc[q] /\ job'[q] = job[q] /\ left'[q] = left[q],
           pc[r] \in {"uploadFailed", "crashed"} => pc'[r] = pc[r],
           job[r] \in {"completed", "manual"} => job'[r] = job[r] /\ left'[r] = left[r],
           NEW f \in File, Accounted(f),
           Holds(r, f) => Accounted(f)'
    PROVE  Accounted(f)'
<1>1. CASE Holds(r, f)
  BY <1>1
<1>2. ASSUME NEW q \in Req, q # r, Holds(q, f) PROVE Accounted(f)'
  BY <1>2 DEF Holds, Accounted
<1>3. CASE LeftBehind(f)
  BY <1>3, FileCreator DEF LeftBehind, Accounted
<1> QED BY <1>1, <1>2, <1>3 DEF Accounted

LEMMA LandKeepsFiles ==
    ASSUME FilesInv, NEW f \in flying, Land(f)
    PROVE  FilesInv'
<1> USE DEF FilesInv
<1> DEFINE r == f[1]
<1>1. /\ flying' = flying \ {f}
      /\ stored' = stored \union {f}
      /\ pc' = [pc EXCEPT ![r] = IF pc[r] = "upload" /\ op[r].keys \subseteq stored'
                                   THEN "transact" ELSE pc[r]]
      /\ UNCHANGED <<rows, media, op, cascaded, job, left>>
  BY DEF Land, tables, queue
<1>2. f \in File /\ r \in Req /\ f \notin stored /\ pc[r] \in {"upload", "uploadFailed", "crashed"}
      /\ op[r].kind = "create" /\ f \in op[r].keys
  BY FileCreator DEF FlyingUploads, IInv, TypeOK
<1>3. IInv'
  BY LandKeeps
<1>4. pc'[r] = pc[r] \/ (pc[r] = "upload" /\ pc'[r] = "transact" /\ op[r].keys \subseteq stored')
  BY <1>1, <1>2 DEF IInv, TypeOK
<1>5. \A q \in Req : q # r => pc'[q] = pc[q]
  BY <1>1
<1>6. FlyingUploads'
  <2> SUFFICES ASSUME NEW g \in flying, g # f
               PROVE  /\ g \notin stored'
                      /\ pc'[g[1]] \in {"upload", "uploadFailed", "crashed"}
                      /\ op[g[1]].kind = "create"
                      /\ g \in op[g[1]].keys
    BY <1>1 DEF FlyingUploads
  <2>1. g[1] \in Req /\ g \notin stored'
    BY <1>1, FileCreator DEF FlyingUploads, IInv, TypeOK
  <2>2. pc'[g[1]] = pc[g[1]]
    BY <2>1, <1>4, <1>5 DEF FlyingUploads
  <2> QED BY <2>1, <2>2 DEF FlyingUploads
<1>7. StoredStarted' /\ RowsCommitted' /\ UploadsCreate'
  BY <1>1, <1>2, <1>4, <1>5, FileCreator DEF StoredStarted, RowsCommitted, UploadsCreate, IInv, TypeOK
<1>8. MediaRead'
  BY <1>1, <1>2, <1>4, <1>5 DEF MediaRead, MediaOf, Deletion, IInv, TypeOK
<1>9. Accounted(f)'
  <2>1. CASE pc[r] = "upload"
    BY <2>1, <1>1, <1>2, <1>4 DEF Accounted, Holds, Busy
  <2>2. CASE pc[r] \in {"uploadFailed", "crashed"}
    BY <2>2, <1>1, <1>2, <1>4 DEF Accounted, LeftBehind
  <2> QED BY <1>2, <2>1, <2>2
<1>10. ASSUME NEW g \in File, Accounted(g) PROVE Accounted(g)'
  <2>1. Holds(r, g) => Accounted(g)'
    BY <1>1, <1>2, <1>4 DEF Holds, Accounted, Busy
  <2> QED BY <1>1, <1>2, <1>4, <1>5, <1>10, <2>1, KeepsAccounts
<1>11. StoredAccounted'
  BY <1>1, <1>9, <1>10 DEF StoredAccounted, IInv, TypeOK
<1> QED BY <1>3, <1>6, <1>7, <1>8, <1>11

\* A step of call r that gives up or goes on to its cleanup, and accounts for its
\* files.
LEMMA MoveKeepsFiles ==
    ASSUME FilesInv, IInv', NEW r \in Req, NEW l \in {"uploadFailed", "cleanup", "failed", "crashed"},
           pc[r] \in Busy, pc' = [pc EXCEPT ![r] = l],
           l = "uploadFailed" => pc[r] = "upload",
           pc[r] = "upload" => l \in {"uploadFailed", "crashed"},
           flying' \subseteq flying,
           UNCHANGED <<rows, media, stored, op, cascaded, job, left>>,
           \A f \in File : Holds(r, f) => Accounted(f)'
    PROVE  FilesInv'
<1> USE DEF FilesInv
<1>1. pc'[r] = l /\ \A q \in Req : q # r => pc'[q] = pc[q]
  BY DEF IInv, TypeOK
<1>2. FlyingUploads'
  <2> SUFFICES ASSUME NEW f \in flying PROVE pc'[f[1]] \in {"upload", "uploadFailed", "crashed"}
    BY DEF FlyingUploads
  <2>1. f[1] \in Req /\ pc[f[1]] \in {"upload", "uploadFailed", "crashed"}
    BY FileCreator DEF FlyingUploads, IInv, TypeOK
  <2> QED BY <1>1, <2>1 DEF Busy
<1>3. StoredStarted' /\ UploadsCreate'
  BY <1>1, FileCreator DEF StoredStarted, UploadsCreate, IInv, TypeOK
<1>4. RowsCommitted'
  BY <1>1 DEF RowsCommitted, Busy, IInv, TypeOK
<1>5. MediaRead'
  <2>1. \A q \in Req : pc[q] = "done" => pc'[q] = "done"
    BY <1>1 DEF Busy
  <2>2. \A q \in Req : op[q].kind \in Deletion => op[q].post \in Req
    BY DEF IInv, Typed, Op, NoOp, Deletion
  <2>3. \A q \in Req : pc'[q] = "transact" => pc[q] = "transact"
    BY <1>1
  <2> QED BY <2>1, <2>2, <2>3 DEF MediaRead, MediaOf
<1>6. ASSUME NEW f \in File, Accounted(f) PROVE Accounted(f)'
  <2>1. pc[r] \notin {"uploadFailed", "crashed"}
    BY DEF Busy
  <2> QED BY <1>1, <1>6, <2>1, KeepsAccounts
<1>7. StoredAccounted'
  BY <1>6 DEF StoredAccounted, IInv, TypeOK
<1> QED BY <1>2, <1>3, <1>4, <1>5, <1>7

LEMMA UploadFailsKeepsFiles ==
    ASSUME FilesInv, NEW f \in flying, UploadFails(f)
    PROVE  FilesInv'
<1> USE DEF FilesInv
<1> DEFINE r == f[1]
<1>1. /\ flying' = flying \ {f}
      /\ UNCHANGED <<rows, media, stored, op, cascaded, job, left>>
  BY DEF UploadFails, tables, queue
<1>2. r \in Req
  BY FileCreator DEF IInv, TypeOK
<1>3. IInv'
  BY UploadFailsKeeps
<1>4. CASE pc[r] = "upload"
  <2>1. pc' = [pc EXCEPT ![r] = "uploadFailed"]
    BY <1>4 DEF UploadFails, Goto
  <2>2. pc'[r] = "uploadFailed"
    BY <2>1, <1>2 DEF IInv, TypeOK
  <2>3. ASSUME NEW g \in File, Holds(r, g) PROVE Accounted(g)'
    <3>1. CASE job[r] = "queued" /\ g \in left[r]
      BY <3>1, <1>1, <1>2 DEF Accounted, Holds
    <3>2. CASE g \in op[r].keys
      <4>1. g[1] = r
        BY <3>2, <1>2, <1>4 DEF UploadsCreate, CreateKeys, IInv
      <4> QED BY <4>1, <2>2 DEF Accounted, LeftBehind
    <3> QED BY <2>3, <3>1, <3>2 DEF Holds
  <2> QED BY <1>1, <1>2, <1>3, <1>4, <2>1, <2>3, MoveKeepsFiles DEF Busy
<1>5. CASE pc[r] # "upload"
  <2>1. pc' = pc
    BY <1>2, <1>5 DEF UploadFails, Goto, IInv, TypeOK
  <2>2. FlyingUploads' /\ StoredStarted' /\ RowsCommitted' /\ UploadsCreate'
    BY <1>1, <2>1 DEF FlyingUploads, StoredStarted, RowsCommitted, UploadsCreate
  <2>3. MediaRead' /\ StoredAccounted'
    BY <1>1, <2>1 DEF MediaRead, MediaOf, StoredAccounted, Accounted, Holds, LeftBehind
  <2> QED BY <1>3, <2>2, <2>3
<1> QED BY <1>4, <1>5

LEMMA AbortKeepsFiles ==
    ASSUME FilesInv, NEW r \in Req, Abort(r)
    PROVE  FilesInv'
<1> USE DEF FilesInv
<1> DEFINE l == IF op[r].kind = "create" /\ op[r].keys # {} THEN "cleanup" ELSE "failed"
<1>1. /\ pc[r] = "transact" /\ pc' = [pc EXCEPT ![r] = l]
      /\ UNCHANGED <<rows, media, stored, op, flying, cascaded, job, left>>
  BY DEF Abort, Goto, tables, queue
<1>2. IInv' /\ l \in {"cleanup", "failed"} /\ pc'[r] = l
  BY <1>1, AbortKeeps DEF IInv, TypeOK
<1>3. ASSUME NEW f \in File, Holds(r, f) PROVE Accounted(f)'
  <2>1. CASE job[r] = "queued" /\ f \in left[r]
    BY <2>1, <1>1 DEF Accounted, Holds
  <2>2. CASE f \in op[r].keys /\ op[r].kind = "create"
    BY <2>2, <1>1, <1>2 DEF Accounted, Holds, Busy
  <2> QED BY <1>1, <1>3, <2>1, <2>2 DEF Holds
<1> HIDE DEF l
<1> QED BY <1>1, <1>2, <1>3, MoveKeepsFiles DEF Busy

LEMMA CrashKeepsFiles ==
    ASSUME FilesInv, NEW r \in Req, Crash(r)
    PROVE  FilesInv'
<1> USE DEF FilesInv
<1>1. /\ pc[r] \in Busy /\ pc' = [pc EXCEPT ![r] = "crashed"]
      /\ UNCHANGED <<rows, media, stored, op, flying, cascaded, job, left>>
  BY DEF Crash, Goto, tables, queue
<1>2. IInv' /\ pc'[r] = "crashed"
  BY <1>1, CrashKeeps DEF IInv, TypeOK
<1>3. ASSUME NEW f \in File, Holds(r, f) PROVE Accounted(f)'
  BY <1>1, <1>2, <1>3 DEF Accounted, Holds, LeftBehind
<1> QED BY <1>1, <1>2, <1>3, MoveKeepsFiles


LEMMA InsertKeepsFiles ==
    ASSUME FilesInv, NEW r \in Req, Insert(r)
    PROVE  FilesInv'
<1> USE DEF FilesInv
<1>1. /\ pc[r] = "transact" /\ op[r].kind = "create"
      /\ rows' = rows \union {r}
      /\ media' = media \union op[r].keys
      /\ pc' = [pc EXCEPT ![r] = "done"]
      /\ UNCHANGED <<stored, op, flying, cascaded, job, left>>
  BY DEF Insert, Goto, queue
<1>2. IInv'
  BY InsertKeeps
<1>3. pc'[r] = "done" /\ \A q \in Req : q # r => pc'[q] = pc[q]
  BY <1>1 DEF IInv, TypeOK
<1>4. FlyingUploads' /\ StoredStarted'
  BY <1>1, <1>3, FileCreator DEF FlyingUploads, StoredStarted, IInv, TypeOK
<1>5. RowsCommitted' /\ UploadsCreate'
  BY <1>1, <1>3 DEF RowsCommitted, UploadsCreate, IInv, TypeOK
<1>6. MediaRead'
  <2> SUFFICES ASSUME NEW q \in Req, op[q].kind \in Deletion
               PROVE  /\ pc'[op[q].post] = "done"
                      /\ pc'[q] = "transact" /\ op[q].post \in rows' => op[q].keys = MediaOf(op[q].post)'
    BY <1>1 DEF MediaRead
  <2>1. op[q].post \in Req /\ pc[op[q].post] = "done" /\ q # r
    BY <1>1 DEF MediaRead, IInv, Typed, Op, NoOp, Deletion
  <2>2. op[q].post # r /\ pc'[op[q].post] = "done" /\ pc'[q] = pc[q]
    BY <2>1, <1>1, <1>3
  <2>3. {g \in media' : g[1] = op[q].post} = {g \in media : g[1] = op[q].post}
    BY <2>2, <1>1 DEF IInv, CreateKeys
  <2>4. MediaOf(op[q].post)' = MediaOf(op[q].post)
    BY <2>3, <1>1 DEF MediaOf
  <2> QED BY <2>2, <2>4, <1>1 DEF MediaRead
<1>7. ASSUME NEW f \in stored \ media' PROVE Accounted(f)'
  <2>1. f \in File /\ Accounted(f) /\ f \notin op[r].keys
    BY <1>1, <1>7 DEF StoredAccounted, IInv, TypeOK
  <2>2. Holds(r, f) => Accounted(f)'
    BY <2>1, <1>1 DEF Holds, Accounted
  <2> QED BY <1>1, <1>3, <2>1, <2>2, KeepsAccounts
<1> QED BY <1>1, <1>2, <1>4, <1>5, <1>6, <1>7 DEF StoredAccounted

LEMMA SoftDeleteKeepsFiles ==
    ASSUME FilesInv, NEW r \in Req, SoftDelete(r)
    PROVE  FilesInv'
<1> USE DEF FilesInv
<1>1. /\ pc[r] = "transact" /\ op[r].kind = "softDelete"
      /\ pc' = [pc EXCEPT ![r] = "done"]
      /\ UNCHANGED <<rows, media, stored, op, flying, cascaded, job, left>>
  BY DEF SoftDelete, Goto, queue
<1>2. IInv'
  BY SoftDeleteKeeps
<1>3. pc'[r] = "done" /\ \A q \in Req : q # r => pc'[q] = pc[q]
  BY <1>1 DEF IInv, TypeOK
<1>4. FlyingUploads' /\ StoredStarted'
  BY <1>1, <1>3, FileCreator DEF FlyingUploads, StoredStarted, IInv, TypeOK
<1>5. RowsCommitted' /\ UploadsCreate'
  BY <1>1, <1>3 DEF RowsCommitted, UploadsCreate, IInv, TypeOK
<1>6. MediaRead'
  <2>1. \A q \in Req : op[q].kind \in Deletion => op[q].post \in Req
    BY DEF IInv, Typed, Op, NoOp, Deletion
  <2> QED BY <1>1, <1>3, <2>1 DEF MediaRead, MediaOf
<1>7. ASSUME NEW f \in stored \ media PROVE Accounted(f)'
  <2>1. f \in File /\ Accounted(f)
    BY <1>7 DEF StoredAccounted, IInv, TypeOK
  <2>2. Holds(r, f) => Accounted(f)'
    BY <1>1 DEF Holds, Accounted
  <2> QED BY <1>1, <1>3, <2>1, <2>2, KeepsAccounts
<1> QED BY <1>1, <1>2, <1>4, <1>5, <1>6, <1>7 DEF StoredAccounted

\* The files of the post itself are among what the call read, unless their names
\* were not read back; those of its replies fall with their rows.
LEMMA DeleteKeepsFiles ==
    ASSUME FilesInv, NEW r \in Req, Delete(r)
    PROVE  FilesInv'
<1> USE DEF FilesInv
<1> DEFINE p == op[r].post
           fallen == Subtree(p)
           l == IF op[r].keys = {} THEN "done" ELSE "cleanup"
<1>1. /\ pc[r] = "transact" /\ op[r].kind = "delete" /\ p \in rows
      /\ rows' = rows \ fallen
      /\ media' = {f \in media : f[1] \notin fallen}
      /\ cascaded' = cascaded \union {f \in media : f[1] \in fallen \ {p}}
      /\ pc' = [pc EXCEPT ![r] = l]
      /\ UNCHANGED <<stored, op, flying, job, left>>
  BY DEF Delete, Goto, queue
<1>2. IInv'
  BY DeleteKeeps
<1>3. pc'[r] = l /\ l \in {"done", "cleanup"} /\ \A q \in Req : q # r => pc'[q] = pc[q]
  BY <1>1 DEF IInv, TypeOK
<1>4. op[r].keys = MediaOf(p)
  BY <1>1 DEF MediaRead, Deletion
<1> HIDE DEF l
<1>5. FlyingUploads' /\ StoredStarted'
  BY <1>1, <1>3, FileCreator DEF FlyingUploads, StoredStarted, IInv, TypeOK
<1>6. RowsCommitted' /\ UploadsCreate'
  BY <1>1, <1>3 DEF RowsCommitted, UploadsCreate, IInv, TypeOK
<1>7. MediaRead'
  <2> SUFFICES ASSUME NEW q \in Req, op[q].kind \in Deletion
               PROVE  /\ pc'[op[q].post] = "done"
                      /\ pc'[q] = "transact" /\ op[q].post \in rows' => op[q].keys = MediaOf(op[q].post)'
    BY <1>1 DEF MediaRead
  <2>1. op[q].post \in Req /\ pc[op[q].post] = "done"
    BY <1>1 DEF MediaRead, IInv, Typed, Op, NoOp, Deletion
  <2>2. pc'[op[q].post] = "done"
    BY <2>1, <1>1, <1>3
  <2>3. ASSUME pc'[q] = "transact", op[q].post \in rows' PROVE op[q].keys = MediaOf(op[q].post)'
    <3>1. pc[q] = "transact" /\ op[q].post \in rows /\ op[q].post \notin fallen
      BY <2>3, <1>1, <1>3
    <3>2. {g \in media' : g[1] = op[q].post} = {g \in media : g[1] = op[q].post}
      BY <3>1, <1>1
    <3>3. MediaOf(op[q].post)' = MediaOf(op[q].post)
      BY <3>2, <1>1 DEF MediaOf
    <3> QED BY <3>1, <3>3 DEF MediaRead
  <2> QED BY <2>2, <2>3
<1>8. ASSUME NEW f \in stored \ media PROVE Accounted(f)'
  <2>1. f \in File /\ Accounted(f)
    BY <1>8 DEF StoredAccounted, IInv, TypeOK
  <2>2. Holds(r, f) => Accounted(f)'
    BY <1>1 DEF Holds, Accounted
  <2> QED BY <1>1, <1>3, <2>1, <2>2, KeepsAccounts
<1>9. ASSUME NEW f \in media, f \notin media' PROVE Accounted(f)'
  <2>1. f[1] \in fallen
    BY <1>1, <1>9
  <2>2. CASE f[1] # p
    BY <2>1, <2>2, <1>1 DEF Accounted, LeftBehind
  <2>3. CASE f[1] = p
    <3>1. FromUrl(f) \in op[r].keys
      BY <2>3, <1>4 DEF MediaOf
    <3>2. CASE FromUrl(f) = f
      <4>1. pc'[r] = "cleanup"
        BY <3>1, <1>3 DEF l
      <4> QED BY <3>1, <3>2, <4>1, <1>1 DEF Accounted, Holds, Busy
    <3>3. CASE FromUrl(f) # f
      BY <3>1, <3>3, <1>1 DEF Accounted, LeftBehind
    <3> QED BY <3>2, <3>3
  <2> QED BY <2>2, <2>3
<1>10. StoredAccounted'
  BY <1>1, <1>8, <1>9 DEF StoredAccounted
<1> QED BY <1>2, <1>5, <1>6, <1>7, <1>10

LEMMA ScheduleCleanupKeepsFiles ==
    ASSUME FilesInv, NEW r \in Req, ScheduleCleanup(r)
    PROVE  FilesInv'
<1> USE DEF FilesInv
<1>1. /\ pc[r] = "cleanup"
      /\ job' = [job EXCEPT ![r] = "queued"]
      /\ left' = [left EXCEPT ![r] = op[r].keys]
      /\ pc' = [pc EXCEPT ![r] = IF op[r].kind = "create" THEN "failed" ELSE "done"]
      /\ UNCHANGED <<rows, media, stored, op, flying, cascaded>>
  BY DEF ScheduleCleanup, Goto, tables
<1>2. IInv'
  BY ScheduleCleanupKeeps
<1>3. /\ pc'[r] \in {"failed", "done"} /\ job'[r] = "queued" /\ left'[r] = op[r].keys
      /\ \A q \in Req : q # r => pc'[q] = pc[q] /\ job'[q] = job[q] /\ left'[q] = left[q]
  BY <1>1 DEF IInv, TypeOK, Typed
<1>4. FlyingUploads' /\ StoredStarted'
  BY <1>1, <1>3, FileCreator DEF FlyingUploads, StoredStarted, IInv, TypeOK
<1>5. RowsCommitted' /\ UploadsCreate'
  BY <1>1, <1>3 DEF RowsCommitted, UploadsCreate, IInv, TypeOK
<1>6. MediaRead'
  <2>1. \A q \in Req : op[q].kind \in Deletion => op[q].post \in Req
    BY DEF IInv, Typed, Op, NoOp, Deletion
  <2> QED BY <1>1, <1>3, <2>1 DEF MediaRead, MediaOf
<1>7. ASSUME NEW f \in stored \ media PROVE Accounted(f)'
  <2>1. f \in File /\ Accounted(f) /\ job[r] = "none"
    BY <1>1, <1>7 DEF StoredAccounted, IInv, TypeOK, Typed
  <2>2. Holds(r, f) => Accounted(f)'
    BY <1>3, <2>1 DEF Holds, Accounted
  <2> QED BY <1>1, <1>3, <2>1, <2>2, KeepsAccounts
<1> QED BY <1>1, <1>2, <1>4, <1>5, <1>6, <1>7 DEF StoredAccounted

LEMMA WorkerKeepsFiles ==
    ASSUME FilesInv, NEW r \in Req, Worker(r)
    PROVE  FilesInv'
<1> USE DEF FilesInv
<1>1. /\ job[r] = "queued" /\ stored' \subseteq stored
      /\ \A q \in Req : q # r => job'[q] = job[q]
      /\ job'[r] \in {"queued", "completed", "manual"}
      /\ UNCHANGED <<rows, media, pc, op, flying, cascaded, left>>
  BY DEF Worker, Process, ProcessFails, tables, calls, IInv, TypeOK
<1>2. IInv'
  BY WorkerKeeps
<1>3. FlyingUploads' /\ StoredStarted' /\ RowsCommitted' /\ UploadsCreate'
  BY <1>1 DEF FlyingUploads, StoredStarted, RowsCommitted, UploadsCreate
<1>4. MediaRead'
  BY <1>1 DEF MediaRead, MediaOf
<1>5. ASSUME NEW f \in stored \ media PROVE Accounted(f)'
  <2>1. f \in File /\ Accounted(f)
    BY <1>5 DEF StoredAccounted, IInv, TypeOK
  <2>2. Holds(r, f) => Accounted(f)'
    BY <1>1 DEF Holds, Accounted, LeftBehind
  <2> QED BY <1>1, <2>1, <2>2, KeepsAccounts
<1> QED BY <1>1, <1>2, <1>3, <1>4, <1>5 DEF StoredAccounted

LEMMA StepFiles == FilesInv /\ [Next]_vars => FilesInv'
<1> SUFFICES ASSUME FilesInv, [Next]_vars PROVE FilesInv'
  OBVIOUS
<1>1. CASE UNCHANGED vars
  <2>1. IInv'
    BY <1>1, StepInv DEF FilesInv
  <2>2. /\ FlyingUploads' /\ StoredStarted' /\ RowsCommitted' /\ UploadsCreate'
        /\ MediaRead' /\ StoredAccounted'
    BY <1>1 DEF FilesInv, FlyingUploads, StoredStarted, RowsCommitted, UploadsCreate, MediaRead, MediaOf,
                StoredAccounted, Accounted, Holds, LeftBehind, vars, tables, calls, queue
  <2> QED BY <2>1, <2>2 DEF FilesInv
<1>2. ASSUME NEW r \in Req, Create(r) PROVE FilesInv'
  BY <1>2, CreateKeepsFiles
<1>3. ASSUME NEW r \in Req, Find(r, "softDelete") \/ Find(r, "delete") PROVE FilesInv'
  BY <1>3, FindKeepsFiles DEF Deletion
<1>4. ASSUME NEW r \in Req, Work(r) PROVE FilesInv'
  BY <1>4, InsertKeepsFiles, AbortKeepsFiles, SoftDeleteKeepsFiles, DeleteKeepsFiles,
     ScheduleCleanupKeepsFiles, CrashKeepsFiles DEF Work
<1>5. ASSUME NEW r \in Req, Worker(r) PROVE FilesInv'
  BY <1>5, WorkerKeepsFiles
<1>6. ASSUME NEW f \in flying, Land(f) \/ UploadFails(f) PROVE FilesInv'
  BY <1>6, LandKeepsFiles, UploadFailsKeepsFiles
<1>7. CASE Quiescent
  BY <1>1, <1>7 DEF Quiescent
<1> QED BY <1>1, <1>2, <1>3, <1>4, <1>5, <1>6, <1>7 DEF Next

\* An object of the bucket that no post shows is on its way to a post or to a
\* cleanup, or was left behind in one of the five ways LeftBehind names: there is no
\* sixth, whatever creates, deletes, crashes, refusals and retries do.
THEOREM NoOtherOrphans == Spec => []FilesAccountedFor
<1>1. FilesInv => FilesAccountedFor
  BY DEF FilesInv, StoredAccounted, Accounted, Holds, Pending, FilesAccountedFor
<1> QED BY InitFiles, StepFiles, <1>1, PTL DEF Spec


-----------------------------------------------------------------------------
(***************************************************************************)
(* The counters.  Only finitely many calls have begun, so the sets that are   *)
(* counted are finite although Req need not be; a post that is not yet there   *)
(* has no counts, and a deletion takes one reply from one parent that stays.  *)
(***************************************************************************)
Begun == {r \in Req : pc[r] # "idle"}

Made(h) == {r \in Req : pc[r] = "done" /\ op[r].kind = "create" /\ h \in op[r].tags}

Live(p) == Replies(p) \ deleted

CountsInv ==
    /\ IInv /\ RowsCommitted
    /\ IsFiniteSet(Begun)
    /\ repeats \in [Req -> Int]
    /\ \A r \in Req : pc[r] # "done" => replyCount[r] = 0 /\ repeats[r] = 0
    /\ CountersAccount

LEMMA InitCounts == Init => CountsInv
<1> SUFFICES ASSUME Init PROVE CountsInv
  OBVIOUS
<1>1. IInv
  BY InitInv
<1>2. Begun = {} /\ \A h \in Tag : Made(h) = {}
  BY DEF Init, Begun, Made
<1>3. CountersAccount
  BY <1>2, FS_EmptySet DEF Init, CountersAccount, Made
<1> QED BY <1>1, <1>2, <1>3, FS_EmptySet DEF Init, CountsInv, RowsCommitted

LEMMA BegunIsFinite ==
    ASSUME IsFiniteSet(Begun), NEW r \in Req, \A q \in Req : q # r => pc'[q] = pc[q]
    PROVE  IsFiniteSet(Begun')
<1>1. Begun' \subseteq Begun \union {r}
  BY DEF Begun
<1> QED BY <1>1, FS_AddElement, FS_Subset

LEMMA CountedAreFinite ==
    ASSUME CountsInv
    PROVE  /\ \A h : IsFiniteSet(Made(h))
           /\ \A p : IsFiniteSet(Live(p)) /\ IsFiniteSet(Replies(p))
<1>1. \A h : Made(h) \subseteq Begun
  BY DEF Made, Begun
<1>2. \A p : Live(p) \subseteq Begun /\ Replies(p) \subseteq Begun
  BY DEF Live, Replies, Begun, CountsInv, RowsCommitted, IInv, TypeOK
<1> QED BY <1>1, <1>2, FS_Subset DEF CountsInv

\* A step of a call that commits nothing.
LEMMA OtherKeepsCounts ==
    ASSUME CountsInv, IInv', NEW r \in Req,
           \A q \in Req : q # r => pc'[q] = pc[q] /\ op'[q] = op[q],
           \/ pc'[r] = pc[r] /\ op'[r] = op[r]
           \/ pc[r] # "done" /\ pc'[r] # "done"
           \/ pc[r] # "done" /\ op[r].kind # "create" /\ op'[r] = op[r],
           UNCHANGED <<rows, deleted, parent, replyCount, tagCount, repeats>>
    PROVE  CountsInv'
<1> USE DEF CountsInv
<1>1. RowsCommitted' /\ IsFiniteSet(Begun')
  BY BegunIsFinite DEF RowsCommitted, IInv, TypeOK
<1>2. \A h \in Tag : Made(h)' = Made(h)
  BY DEF Made
<1>3. CountersAccount'
  BY <1>2 DEF CountersAccount, LiveReplies, Replies, Made
<1> QED BY <1>1, <1>3


LEMMA InsertKeepsCounts ==
    ASSUME CountsInv, NEW r \in Req, Insert(r)
    PROVE  CountsInv'
<1> USE DEF CountsInv
<1> DEFINE p == op[r].post
<1>1. /\ pc[r] = "transact" /\ op[r].kind = "create"
      /\ p # NoPost => p \in rows
      /\ rows' = rows \union {r}
      /\ parent' = [parent EXCEPT ![r] = p]
      /\ replyCount' = [q \in Req |-> replyCount[q] + (IF q = p THEN 1 ELSE 0)]
      /\ tagCount' = [h \in Tag |-> tagCount[h] + (IF h \in op[r].tags THEN 1 ELSE 0)]
      /\ pc' = [pc EXCEPT ![r] = "done"]
      /\ UNCHANGED <<deleted, repeats, op>>
  BY DEF Insert, Goto, queue
<1>2. IInv'
  BY InsertKeeps
<1>3. pc'[r] = "done" /\ \A q \in Req : q # r => pc'[q] = pc[q]
  BY <1>1 DEF IInv, TypeOK
<1>4. RowsCommitted' /\ IsFiniteSet(Begun') /\ (repeats \in [Req -> Int])'
  BY <1>1, <1>3, BegunIsFinite DEF RowsCommitted, IInv, TypeOK
<1>5. r \notin rows /\ r \notin deleted
  BY <1>1 DEF RowsCommitted, IInv, TypeOK
<1>6. \A q \in Req : pc'[q] # "done" => replyCount'[q] = 0 /\ repeats'[q] = 0
  <2> SUFFICES ASSUME NEW q \in Req, pc'[q] # "done" PROVE replyCount'[q] = 0 /\ repeats'[q] = 0
    OBVIOUS
  <2>1. q # r /\ pc[q] # "done"
    BY <1>3
  <2>2. q # p
    BY <2>1, <1>1, NoPostAssumption DEF RowsCommitted
  <2> QED BY <2>1, <2>2, <1>1
<1>7. ASSUME NEW q \in rows' PROVE (replyCount[q] + repeats[q] = LiveReplies(q))'
  <2>1. q \in Req
    BY <1>7, <1>1 DEF IInv, TypeOK
  <2>2. CASE q = p
    <3>1. q \in rows /\ q # r
      BY <2>1, <2>2, <1>1, <1>5, NoPostAssumption
    <3>2. Live(q)' = Live(q) \union {r} /\ r \notin Live(q)
      BY <2>2, <1>1, <1>5 DEF Live, Replies, IInv, TypeOK
    <3>3. Cardinality(Live(q)') = Cardinality(Live(q)) + 1
      BY <3>2, CountedAreFinite, FS_AddElement
    <3>4. replyCount'[q] = replyCount[q] + 1 /\ repeats'[q] = repeats[q]
      BY <1>1, <2>1, <2>2
    <3>5. replyCount[q] \in Int /\ repeats[q] \in Int
      BY <2>1 DEF IInv, TypeOK
    <3>6. replyCount[q] + repeats[q] = Cardinality(Live(q))
      BY <3>1 DEF CountersAccount, LiveReplies, Live
    <3>7. Cardinality(Live(q)) \in Nat
      BY CountedAreFinite, FS_CardinalityType
    <3>8. replyCount'[q] + repeats'[q] = Cardinality(Live(q)')
      BY <3>3, <3>4, <3>5, <3>6, <3>7
    <3> QED BY <3>8 DEF Live, LiveReplies
  <2>3. CASE q # p
    <3>1. Live(q)' = Live(q)
      BY <2>3, <1>1, <1>5 DEF Live, Replies, IInv, TypeOK
    <3>2. replyCount'[q] = replyCount[q] /\ repeats'[q] = repeats[q]
      BY <1>1, <2>1, <2>3 DEF IInv, TypeOK
    <3>3. CASE q = r
      <4>1. Live(q) = {}
        BY <3>3, <1>5, NoPostAssumption DEF Live, Replies, IInv, TypeOK
      <4>2. replyCount[q] = 0 /\ repeats[q] = 0
        BY <3>3, <1>1
      <4>3. Cardinality(Live(q)') = 0
        BY <3>1, <4>1, FS_EmptySet
      <4> QED BY <3>2, <4>2, <4>3 DEF Live, LiveReplies
    <3>4. CASE q # r
      <4>1. q \in rows
        BY <3>4, <1>1, <1>7
      <4>2. replyCount[q] + repeats[q] = Cardinality(Live(q))
        BY <4>1 DEF CountersAccount, LiveReplies, Live
      <4>3. replyCount'[q] + repeats'[q] = Cardinality(Live(q)')
        BY <3>1, <3>2, <4>2
      <4> QED BY <4>3 DEF Live, LiveReplies
    <3> QED BY <3>3, <3>4
  <2> QED BY <2>2, <2>3
<1>8. ASSUME NEW h \in Tag PROVE tagCount'[h] = Cardinality(Made(h)')
  <2>1. tagCount[h] = Cardinality(Made(h)) /\ tagCount[h] \in Nat
    BY DEF CountersAccount, Made, IInv, TypeOK
  <2>2. CASE h \in op[r].tags
    <3>1. Made(h)' = Made(h) \union {r} /\ r \notin Made(h)
      BY <2>2, <1>1, <1>3 DEF Made
    <3>2. Cardinality(Made(h)') = Cardinality(Made(h)) + 1
      BY <3>1, CountedAreFinite, FS_AddElement
    <3> QED BY <3>2, <2>1, <2>2, <1>1
  <2>3. CASE h \notin op[r].tags
    <3>1. Made(h)' = Made(h)
      BY <2>3, <1>1, <1>3 DEF Made
    <3> QED BY <3>1, <2>1, <2>3, <1>1
  <2> QED BY <2>2, <2>3
<1>9. CountersAccount'
  BY <1>7, <1>8 DEF CountersAccount, Made
<1> QED BY <1>2, <1>4, <1>6, <1>9

\* The deletion of p, soft or not: of the replies of a post that stays, p alone
\* goes, and counts as a repeat if it was gone before.
LEMMA DecrementAccounts ==
    ASSUME CountsInv, NEW p \in rows, Decrement(p), NEW q \in rows,
           Live(q)' = Live(q) \ {p}
    PROVE  (replyCount[q] + repeats[q] = LiveReplies(q))'
<1> USE DEF CountsInv
<1>1. replyCount[q] \in Int /\ repeats[q] \in Int /\ q \in Req
  BY DEF IInv, TypeOK
<1>2. replyCount[q] + repeats[q] = Cardinality(Live(q)) /\ Cardinality(Live(q)) \in Nat
  BY CountedAreFinite, FS_CardinalityType DEF CountersAccount, LiveReplies, Live
<1>3. /\ replyCount'[q] = replyCount[q] - (IF q = parent[p] THEN 1 ELSE 0)
      /\ repeats'[q] = repeats[q] + (IF q = parent[p] /\ p \in deleted THEN 1 ELSE 0)
  BY <1>1 DEF Decrement
<1>4. Cardinality(Live(q) \ {p}) = IF p \in Live(q) THEN Cardinality(Live(q)) - 1 ELSE Cardinality(Live(q))
  BY CountedAreFinite, FS_RemoveElement
<1>5. p \in Live(q) <=> q = parent[p] /\ p \notin deleted
  BY DEF Live, Replies
<1>6. replyCount'[q] + repeats'[q] = Cardinality(Live(q)')
  BY <1>1, <1>2, <1>3, <1>4, <1>5
<1> QED BY <1>6 DEF Live, LiveReplies

\* Its counters stay counters, and those of posts that are not there stay zero.
LEMMA DecrementKeeps ==
    ASSUME CountsInv, NEW p \in rows, Decrement(p)
    PROVE  /\ repeats' \in [Req -> Int]
           /\ \A q \in Req : pc[q] # "done" => replyCount'[q] = 0 /\ repeats'[q] = 0
<1> USE DEF CountsInv, Decrement
<1>1. \A q \in Req : pc[q] # "done" => q # parent[p]
  BY NoPostAssumption DEF RowsCommitted, IInv, TypeOK
<1> QED BY <1>1 DEF IInv, TypeOK


LEMMA SoftDeleteKeepsCounts ==
    ASSUME CountsInv, NEW r \in Req, SoftDelete(r)
    PROVE  CountsInv'
<1> USE DEF CountsInv
<1> DEFINE p == op[r].post
<1>1. /\ pc[r] = "transact" /\ op[r].kind = "softDelete" /\ p \in rows
      /\ deleted' = deleted \union {p}
      /\ Decrement(p)
      /\ pc' = [pc EXCEPT ![r] = "done"]
      /\ UNCHANGED <<rows, parent, tagCount, op>>
  BY DEF SoftDelete, Goto
<1>2. IInv'
  BY SoftDeleteKeeps
<1>3. pc'[r] = "done" /\ \A q \in Req : q # r => pc'[q] = pc[q]
  BY <1>1 DEF IInv, TypeOK
<1> HIDE DEF p
<1>4. RowsCommitted' /\ IsFiniteSet(Begun')
  BY <1>1, <1>3, BegunIsFinite DEF RowsCommitted, IInv, TypeOK
<1>5. /\ repeats' \in [Req -> Int]
      /\ \A q \in Req : pc'[q] # "done" => replyCount'[q] = 0 /\ repeats'[q] = 0
  BY <1>1, <1>3, DecrementKeeps
<1>6. ASSUME NEW q \in rows' PROVE (replyCount[q] + repeats[q] = LiveReplies(q))'
  <2>1. Live(q)' = Live(q) \ {p}
    BY <1>1 DEF Live, Replies
  <2> QED BY <1>1, <2>1, DecrementAccounts
<1>7. \A h \in Tag : tagCount'[h] = Cardinality(Made(h)')
  <2>1. \A h : Made(h)' = Made(h)
    BY <1>1, <1>3 DEF Made
  <2> QED BY <1>1, <2>1 DEF CountersAccount, Made
<1>8. CountersAccount'
  BY <1>6, <1>7 DEF CountersAccount, Made
<1> QED BY <1>2, <1>4, <1>5, <1>8

\* A post other than p falls only with its parent.
LEMMA FallsWithParent ==
    ASSUME NEW p \in rows, NEW x \in Subtree(p), x # p
    PROVE  parent[x] \in Subtree(p)
<1> SUFFICES ASSUME parent[x] \notin Subtree(p) PROVE FALSE
  OBVIOUS
<1> DEFINE S == Subtree(p) \ {x}
<1>1. HasReplies(Subtree(p))
  BY DEF HasReplies, Subtree
<1>2. S \subseteq rows /\ p \in S
  BY SubtreeHas DEF Subtree
<1>3. HasReplies(S)
  BY <1>1 DEF HasReplies
<1>4. x \in S
  BY <1>2, <1>3 DEF Subtree
<1> QED BY <1>4

LEMMA DeleteKeepsCounts ==
    ASSUME CountsInv, NEW r \in Req, Delete(r)
    PROVE  CountsInv'
<1> USE DEF CountsInv
<1> DEFINE p == op[r].post
           fallen == Subtree(p)
           l == IF op[r].keys = {} THEN "done" ELSE "cleanup"
<1>1. /\ pc[r] = "transact" /\ op[r].kind = "delete" /\ p \in rows
      /\ rows' = rows \ fallen
      /\ deleted' = deleted \ fallen
      /\ Decrement(p)
      /\ pc' = [pc EXCEPT ![r] = l]
      /\ UNCHANGED <<parent, tagCount, op>>
  BY DEF Delete, Goto
<1>2. IInv'
  BY DeleteKeeps
<1>3. pc'[r] = l /\ \A q \in Req : q # r => pc'[q] = pc[q]
  BY <1>1 DEF IInv, TypeOK
<1> HIDE DEF p, l
<1>4. RowsCommitted' /\ IsFiniteSet(Begun')
  BY <1>1, <1>3, BegunIsFinite DEF RowsCommitted, IInv, TypeOK
<1>5. /\ repeats' \in [Req -> Int]
      /\ \A q \in Req : pc'[q] # "done" => replyCount'[q] = 0 /\ repeats'[q] = 0
  BY <1>1, <1>3, DecrementKeeps
<1>6. ASSUME NEW q \in rows' PROVE (replyCount[q] + repeats[q] = LiveReplies(q))'
  <2>1. q \in rows /\ q \notin fallen
    BY <1>1, <1>6
  <2>2. ASSUME NEW x \in Replies(q), x \in fallen PROVE x = p
    BY <1>1, <2>1, <2>2, FallsWithParent DEF Replies
  <2>3. p \in fallen
    BY <1>1, SubtreeHas
  <2>4. Live(q)' = Live(q) \ {p}
    BY <1>1, <2>2, <2>3 DEF Live, Replies
  <2> QED BY <1>1, <2>1, <2>4, DecrementAccounts
<1>7. \A h \in Tag : tagCount'[h] = Cardinality(Made(h)')
  <2>1. \A h : Made(h)' = Made(h)
    BY <1>1, <1>3 DEF Made
  <2> QED BY <1>1, <2>1 DEF CountersAccount, Made
<1>8. CountersAccount'
  BY <1>6, <1>7 DEF CountersAccount, Made
<1> QED BY <1>2, <1>4, <1>5, <1>8

LEMMA StepCounts == CountsInv /\ [Next]_vars => CountsInv'
<1> SUFFICES ASSUME CountsInv, [Next]_vars PROVE CountsInv'
  OBVIOUS
<1> USE DEF CountsInv
<1>0. IInv'
  BY StepInv
<1>1. CASE UNCHANGED vars
  BY <1>0, <1>1 DEF RowsCommitted, Begun, CountersAccount, LiveReplies, Replies, vars, tables, calls
<1>2. ASSUME NEW r \in Req, Create(r) \/ Find(r, "softDelete") \/ Find(r, "delete") PROVE CountsInv'
  <2>1. /\ pc[r] = "idle" /\ pc'[r] \in Busy
        /\ \A q \in Req : q # r => pc'[q] = pc[q] /\ op'[q] = op[q]
        /\ UNCHANGED <<rows, deleted, parent, replyCount, tagCount, repeats>>
    <3>1. /\ pc[r] = "idle"
          /\ \E l \in Busy : pc' = [pc EXCEPT ![r] = l]
          /\ \E o : op' = [op EXCEPT ![r] = o]
      <4>1. CASE Create(r)
        BY <4>1 DEF Create, Start, Goto, Busy
      <4>2. CASE Find(r, "softDelete") \/ Find(r, "delete")
        BY <4>2 DEF Find, Start, Goto, Busy
      <4> QED BY <1>2, <4>1, <4>2
    <3>2. UNCHANGED <<rows, deleted, parent, replyCount, tagCount, repeats>>
      BY <1>2 DEF Create, Find, tables
    <3> QED BY <3>1, <3>2 DEF IInv, TypeOK, Typed
  <2> QED BY <1>0, <2>1, OtherKeepsCounts DEF Busy
<1>3. ASSUME NEW r \in Req, Abort(r) \/ Crash(r) \/ ScheduleCleanup(r) PROVE CountsInv'
  <2>1. /\ \A q \in Req : q # r => pc'[q] = pc[q]
        /\ pc[r] # "done"
        /\ pc'[r] = "done" => op[r].kind # "create"
        /\ UNCHANGED <<rows, deleted, parent, replyCount, tagCount, repeats, op>>
    BY <1>3 DEF Abort, Crash, ScheduleCleanup, Goto, Busy, tables, IInv, TypeOK
  <2> QED BY <1>0, <2>1, OtherKeepsCounts
<1>4. ASSUME NEW r \in Req, Work(r) PROVE CountsInv'
  BY <1>3, <1>4, InsertKeepsCounts, SoftDeleteKeepsCounts, DeleteKeepsCounts DEF Work
<1>5. ASSUME NEW r \in Req, Worker(r) PROVE CountsInv'
  <2>1. UNCHANGED <<pc, op, rows, deleted, parent, replyCount, tagCount, repeats>>
    BY <1>5 DEF Worker, Process, ProcessFails, tables, calls
  <2> QED BY <1>0, <2>1, OtherKeepsCounts
<1>6. ASSUME NEW f \in flying, Land(f) \/ UploadFails(f) PROVE CountsInv'
  <2> DEFINE r == f[1]
  <2>1. r \in Req
    BY FileCreator DEF IInv, TypeOK
  <2>2. /\ \A q \in Req : q # r => pc'[q] = pc[q]
        /\ pc'[r] = pc[r] \/ (pc[r] # "done" /\ pc'[r] # "done")
        /\ UNCHANGED <<rows, deleted, parent, replyCount, tagCount, repeats, op>>
    BY <1>6, <2>1 DEF Land, UploadFails, Goto, tables, IInv, TypeOK
  <2> HIDE DEF r
  <2> QED BY <1>0, <2>1, <2>2, OtherKeepsCounts
<1>7. CASE Quiescent
  BY <1>1, <1>7 DEF Quiescent
<1> QED BY <1>1, <1>2, <1>4, <1>5, <1>6, <1>7 DEF Next

\* For any number of calls: replyCount of a post is the number of its replies that are
\* not deleted, less one per reply deleted again, and postCount of a hashtag is the
\* number of posts ever made with it, also when deletions overlap and threads fall.
THEOREM CountersAreExact == Spec => []CountersAccount
<1>1. CountsInv => CountersAccount
  BY DEF CountsInv
<1> QED BY InitCounts, StepCounts, <1>1, PTL DEF Spec

=============================================================================
