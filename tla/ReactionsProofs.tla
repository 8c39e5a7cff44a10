--------------------------- MODULE ReactionsProofs ---------------------------
(***************************************************************************)
(* Proofs about Reactions, for any users, posts and calls, any size of the   *)
(* pool, and wherever transactions expire or the process stops.  What the    *)
(* properties rest on are the two row locks: at most one open transaction is *)
(* past the write of a given row, and at most one past the update of a given *)
(* post, so what each has read is still true when it commits.                *)
(***************************************************************************)
EXTENDS Reactions, FiniteSetTheorems, TLAPS

\* The branch of a call's toggle, by its next statement, and what it leaves.
Branch(r) ==
    /\ pc[r] # "idle" => call[r] \in Row
    /\ pc[r] \in {"insert"} \union Notifying => op[r] = "add"
    /\ pc[r] \in {"delete", "clear"} => op[r] = "remove"
    /\ pc[r] \in {"open"} \union InTx => op[r] \in {"add", "remove"}
    /\ pc[r] \in Notifying \union {"clear"} => ~ByOwner(r)
    /\ r \in notifs => /\ op[r] = "add" /\ ~ByOwner(r)
                       /\ pc[r] \in {"commit"} \union Final
    /\ r \in expired => pc[r] \in Notifying \union {"failed"}

\* What a transaction that has its row locked has seen is still so.
Seen(r) ==
    LocksRow(r) => /\ op[r] = "add" => call[r] \notin rows /\ post[PostOf(r)] # "gone"
                   /\ op[r] = "remove" => call[r] \in rows

\* What it will write to the counter is one away from the committed value.
Counted(r) ==
    LocksPost(r) => written[r].count = count[KindOf(r)][PostOf(r)] + Delta(r)

\* The notifications it will delete are those of its own reaction.
Doomed(r) ==
    \A n \in written[r].doomed :
        /\ pc[r] = "commit" /\ Open(r) /\ op[r] = "remove"
        /\ pc[n] # "idle" /\ call[n] = call[r]

\* Before a like of somebody else's post commits, the owner has been notified.
Told(r) ==
    pc[r] = "commit" /\ Open(r) /\ op[r] = "add" /\ KindOf(r) = "like" /\ ~ByOwner(r)
        => \E n \in notifs : call[n] = call[r]

\* Before an undone reaction commits, every notification of a call that has
\* committed it is among those to be deleted.
Clears(r) ==
    pc[r] = "commit" /\ Open(r) /\ op[r] = "remove"
        => \A n \in notifs : call[n] = call[r] /\ pc[n] = "done" => n \in written[r].doomed

\* A call that has found no duplicate is right, unless a transaction expired.
Alone(x) == ~\E e \in expired : call[e] = x

Fresh(r) ==
    pc[r] = "create" /\ Alone(call[r]) => \A n \in notifs \ old : call[n] # call[r]

Own(r) ==
    Branch(r) /\ Seen(r) /\ Counted(r) /\ Doomed(r) /\ Told(r) /\ Clears(r) /\ Fresh(r)

RowsExclusive ==
    \A q, r \in Req : LocksRow(q) /\ LocksRow(r) /\ call[q] = call[r] => q = r

PostsExclusive ==
    \A q, r \in Req : LocksPost(q) /\ LocksPost(r) /\ PostOf(q) = PostOf(r) => q = r

\* The tables, as the properties see them.
Tables ==
    /\ IsFiniteSet(rows)
    /\ CountersMatch
    /\ LikedImpliesNotified
    /\ OrphansComeFromRollbacks
    /\ DuplicatesNeedExpiry

Locks == RowsExclusive /\ PostsExclusive /\ \A r \in Req : Own(r)

\* The inductive invariant.
IInv == TypeOK /\ Locks /\ Tables

-----------------------------------------------------------------------------
LEMMA InitIInv == Init => IInv
<1> SUFFICES ASSUME Init PROVE IInv
  OBVIOUS
<1>1. TypeOK
  BY DEF Init, TypeOK, Pc, NothingWritten
<1>2. ASSUME NEW r \in Req PROVE Own(r) /\ ~LocksRow(r) /\ ~LocksPost(r)
  BY DEF Init, Own, Branch, Seen, Counted, Doomed, Told, Clears, Fresh, LocksRow, LocksPost,
     Open, InTx, Notifying, NothingWritten
<1>3. IsFiniteSet(rows) /\ CountersMatch
  <2>1. \A k, p : {x \in rows : x[1] = k /\ x[3] = p} = {}
    BY DEF Init
  <2> QED
    BY <2>1, FS_EmptySet DEF Init, CountersMatch
<1>4. LikedImpliesNotified /\ OrphansComeFromRollbacks /\ DuplicatesNeedExpiry
  BY DEF Init, LikedImpliesNotified, OrphansComeFromRollbacks, DuplicatesNeedExpiry
<1> QED
  BY <1>1, <1>2, <1>3, <1>4 DEF IInv, Locks, Tables, RowsExclusive, PostsExclusive

\* What a row names.
LEMMA RowParts ==
    ASSUME NEW x \in Row
    PROVE  x[1] \in Kind /\ x[2] \in User /\ x[3] \in Post
BY ReactionsAssumption DEF Kind

-----------------------------------------------------------------------------
(***************************************************************************)
(* Steps that touch one call and no table.                                  *)
(***************************************************************************)
Frame(r) ==
    /\ UNCHANGED <<post, rows, count, notifs, old>>
    /\ \A q \in Req \ {r} :
         /\ pc'[q] = pc[q] /\ call'[q] = call[q] /\ op'[q] = op[q]
         /\ written'[q] = written[q]
         /\ q \in expired' <=> q \in expired
    /\ r \in expired => r \in expired'
    /\ pc[r] # "idle" => pc'[r] # "idle" /\ call'[r] = call[r]
    /\ pc'[r] # "done"

LEMMA FrameKeeps ==
    ASSUME IInv, NEW r \in Req, Frame(r), Own(r)',
           LocksRow(r)' => /\ pc[r] # "idle"
                           /\ \/ LocksRow(r)
                              \/ \A q \in Req \ {r} : LocksRow(q) => call[q] # call[r],
           LocksPost(r)' => \/ LocksPost(r)
                            \/ \A q \in Req \ {r} : LocksPost(q) => PostOf(q) # PostOf(r)
    PROVE  Locks' /\ Tables'
<1> USE DEF Frame
<1>0. TypeOK /\ notifs \subseteq Req /\ expired \subseteq Req /\ \A q \in Req : Own(q)
  BY DEF IInv, Locks, TypeOK
<1>1. pc[r] = "idle" => r \notin notifs /\ r \notin expired
  BY <1>0 DEF Own, Branch, Notifying, Final
<1>2. \A n \in notifs : call'[n] = call[n] /\ pc[n] # "idle"
  BY <1>0, <1>1 DEF Own, Branch, Final
<1>3. \A e \in expired : e \in expired' /\ call'[e] = call[e]
  BY <1>0, <1>1
<1>4. \A n \in Req : pc'[n] = "done" => pc[n] = "done"
  OBVIOUS
<1>5. ASSUME NEW q \in Req, q # r PROVE Own(q)'
  <2>0. Own(q) /\ call'[q] = call[q] /\ op'[q] = op[q] /\ pc'[q] = pc[q]
        /\ written'[q] = written[q] /\ (q \in expired' <=> q \in expired)
    BY <1>0, <1>5
  <2>1. Branch(q)'
    BY <2>0 DEF Own, Branch, ByOwner, UserOf, PostOf
  <2>2. Seen(q)' /\ Counted(q)'
    BY <2>0 DEF Own, Seen, Counted, LocksRow, LocksPost, Open, PostOf, KindOf, Delta
  <2>3. Doomed(q)'
    <3>1. written[q].doomed \subseteq Req
      BY <1>0 DEF TypeOK
    <3> QED
      BY <2>0, <3>1 DEF Own, Doomed, Open
  <2>4. Told(q)'
    BY <1>2, <2>0 DEF Own, Told, Open, KindOf, ByOwner, UserOf, PostOf
  <2>5. Clears(q)'
    BY <1>0, <1>2, <1>4, <2>0 DEF Own, Clears, Open
  <2>6. Fresh(q)'
    BY <1>2, <1>3, <2>0 DEF Own, Fresh, Alone
  <2> QED
    BY <2>1, <2>2, <2>3, <2>4, <2>5, <2>6 DEF Own
<1>6. \A q \in Req \ {r} : (LocksRow(q)' <=> LocksRow(q)) /\ (LocksPost(q)' <=> LocksPost(q))
  BY DEF LocksRow, LocksPost, Open
<1>7. RowsExclusive'
  BY <1>6 DEF IInv, Locks, RowsExclusive
<1>8. PostsExclusive'
  <2>1. LocksPost(r)' => call'[r] = call[r]
    BY DEF LocksPost
  <2>2. \A q \in Req \ {r} : PostOf(q)' = PostOf(q)
    BY DEF PostOf
  <2>3. LocksPost(r)' => PostOf(r)' = PostOf(r)
    BY <2>1 DEF PostOf
  <2> QED
    BY <1>6, <2>2, <2>3 DEF IInv, Locks, PostsExclusive
<1>9. Tables'
  <2>1. IsFiniteSet(rows)' /\ CountersMatch'
    BY DEF IInv, Tables, CountersMatch
  <2>2. LikedImpliesNotified' /\ OrphansComeFromRollbacks'
    BY <1>0, <1>2, <1>4 DEF IInv, Tables, LikedImpliesNotified, OrphansComeFromRollbacks
  <2>3. DuplicatesNeedExpiry'
    BY <1>2, <1>3 DEF IInv, Tables, DuplicatesNeedExpiry
  <2> QED
    BY <2>1, <2>2, <2>3 DEF Tables
<1> QED
  BY <1>5, <1>7, <1>8, <1>9 DEF Locks

\* What the invariant says of a call that has begun.
LEMMA Begun ==
    ASSUME IInv, NEW r \in Req, pc[r] # "idle"
    PROVE  /\ TypeOK /\ Own(r) /\ call[r] \in Row
           /\ KindOf(r) \in Kind /\ UserOf(r) \in User /\ PostOf(r) \in Post
<1>1. TypeOK /\ Own(r) /\ call[r] \in Row
  BY DEF IInv, Locks, Own, Branch
<1> QED
  BY <1>1, RowParts DEF KindOf, UserOf, PostOf

\* Nothing is doomed but by a transaction about to commit.
LEMMA NothingDoomed ==
    ASSUME IInv, NEW r \in Req, pc[r] # "commit"
    PROVE  written[r].doomed = {}
BY DEF IInv, Locks, Own, Doomed

\* A rollback leaves no more than was there.
LEMMA RollbackWrites ==
    ASSUME TypeOK, NEW r \in Req, written' = [written EXCEPT ![r] = NothingWritten]
    PROVE  written' \in [Req -> [count : Int, doomed : SUBSET Req]] /\ written'[r].doomed = {}
<1>1. NothingWritten \in [count : Int, doomed : SUBSET Req] /\ NothingWritten.doomed = {}
  BY DEF NothingWritten
<1> QED
  BY <1>1 DEF TypeOK

\* A step that leaves its call outside any transaction.
LEMMA OutsideKeeps ==
    ASSUME IInv, NEW r \in Req, Frame(r), pc'[r] \notin InTx, Branch(r)',
           written'[r].doomed = {}
    PROVE  Locks' /\ Tables'
<1>1. ~LocksRow(r)' /\ ~LocksPost(r)'
  BY DEF LocksRow, LocksPost, Open
<1>2. Own(r)'
  BY <1>1 DEF Own, Seen, Counted, Doomed, Told, Clears, Fresh, InTx, Notifying
<1> QED
  BY <1>1, <1>2, FrameKeeps

LEMMA BeginKeeps ==
    ASSUME IInv, NEW r \in Req, Begin(r)
    PROVE  IInv'
<1>0. TypeOK /\ Own(r)
  BY DEF IInv, Locks
<1>1. TypeOK'
  BY <1>0 DEF TypeOK, Begin, Goto, tables, Pc
<1>2. Frame(r) /\ pc'[r] \notin InTx
  BY <1>0 DEF TypeOK, Begin, Goto, tables, Frame, InTx, Notifying
<1>3. Branch(r)'
  BY <1>0 DEF TypeOK, Begin, Goto, tables, Own, Branch, InTx, Notifying, Final
<1>4. written'[r].doomed = {}
  BY NothingDoomed DEF Begin
<1> QED
  BY <1>1, <1>2, <1>3, <1>4, OutsideKeeps DEF IInv

LEMMA DecideKeeps ==
    ASSUME IInv, NEW r \in Req, Decide(r)
    PROVE  IInv'
<1>0. TypeOK /\ Own(r) /\ call[r] \in Row
  BY Begun DEF Decide
<1>1. TypeOK'
  BY <1>0 DEF TypeOK, Decide, Goto, tables, Pc, Final
<1>2. Frame(r) /\ pc'[r] \notin InTx
  BY <1>0 DEF TypeOK, Decide, Goto, tables, Frame, InTx, Notifying
<1>3. Branch(r)'
  BY <1>0 DEF TypeOK, Decide, Goto, tables, Own, Branch, InTx, Notifying, Final
<1>4. written'[r].doomed = {}
  BY NothingDoomed DEF Decide
<1> QED
  BY <1>1, <1>2, <1>3, <1>4, OutsideKeeps DEF IInv

\* A transaction that has just opened, or fails at once.
LEMMA OpenTransactionKeeps ==
    ASSUME IInv, NEW r \in Req, OpenTransaction(r)
    PROVE  IInv'
<1>0. TypeOK /\ Own(r) /\ call[r] \in Row /\ written[r].doomed = {}
  BY Begun, NothingDoomed DEF OpenTransaction
<1>1. TypeOK'
  BY <1>0 DEF TypeOK, OpenTransaction, Goto, tables, calls, Pc, Final, InTx
<1>2. Frame(r) /\ pc'[r] \in {"rejected", "insert", "delete"}
  BY <1>0 DEF TypeOK, OpenTransaction, Goto, tables, calls, Frame, InTx, Notifying
<1>3. Branch(r)'
  BY <1>0 DEF TypeOK, OpenTransaction, Goto, tables, calls, Own, Branch, InTx, Notifying, Final,
     ByOwner, UserOf, PostOf
<1>4. ~LocksRow(r)' /\ ~LocksPost(r)'
  BY <1>2 DEF LocksRow, LocksPost, Open, InTx, Notifying
<1>5. written'[r].doomed = {}
  BY <1>0 DEF OpenTransaction
<1>6. Own(r)'
  BY <1>2, <1>3, <1>4, <1>5 DEF Own, Seen, Counted, Doomed, Told, Clears, Fresh
<1> QED
  BY <1>1, <1>2, <1>4, <1>6, FrameKeeps DEF IInv

-----------------------------------------------------------------------------
(***************************************************************************)
(* Statements inside the transaction.                                       *)
(***************************************************************************)
LEMMA InsertRowKeeps ==
    ASSUME IInv, NEW r \in Req, InsertRow(r)
    PROVE  IInv'
<1>0. TypeOK /\ Own(r) /\ call[r] \in Row /\ written[r].doomed = {}
  BY Begun, NothingDoomed DEF InsertRow
<1>1. TypeOK'
  BY <1>0 DEF TypeOK, InsertRow, Goto, tables, calls, Pc, Final, InTx
<1>2. Frame(r) /\ pc'[r] \in {"failed", "bump"}
  BY <1>0 DEF TypeOK, InsertRow, Goto, tables, calls, Frame
<1>3. Branch(r)' /\ Seen(r)'
  BY <1>0 DEF TypeOK, InsertRow, Goto, tables, calls, Own, Branch, Seen, LocksRow, Open, InTx,
     Notifying, Final, ByOwner, UserOf, PostOf
<1>4. ~LocksPost(r)' /\ pc[r] # "idle"
  BY <1>2 DEF LocksRow, LocksPost, Open, InTx, Notifying, InsertRow
<1>5. \A q \in Req \ {r} : LocksRow(q) => call[q] # call[r]
  BY DEF InsertRow, Granted, WaitsFor
<1>6. written'[r].doomed = {}
  BY <1>0 DEF InsertRow
<1>7. Own(r)'
  BY <1>2, <1>3, <1>4, <1>6 DEF Own, Counted, Doomed, Told, Clears, Fresh
<1> QED
  BY <1>1, <1>2, <1>4, <1>5, <1>7, FrameKeeps DEF IInv

LEMMA DeleteRowKeeps ==
    ASSUME IInv, NEW r \in Req, DeleteRow(r)
    PROVE  IInv'
<1>0. TypeOK /\ Own(r) /\ call[r] \in Row /\ written[r].doomed = {}
  BY Begun, NothingDoomed DEF DeleteRow
<1>1. TypeOK'
  BY <1>0 DEF TypeOK, DeleteRow, Goto, tables, calls, Pc, Final, InTx
<1>2. Frame(r) /\ pc'[r] \in {"failed", "bump"}
  BY <1>0 DEF TypeOK, DeleteRow, Goto, tables, calls, Frame
<1>3. Branch(r)' /\ Seen(r)'
  BY <1>0 DEF TypeOK, DeleteRow, Goto, tables, calls, Own, Branch, Seen, LocksRow, Open, InTx,
     Notifying, Final, ByOwner, UserOf, PostOf
<1>4. ~LocksPost(r)' /\ pc[r] # "idle"
  BY <1>2 DEF LocksRow, LocksPost, Open, InTx, Notifying, DeleteRow
<1>5. LocksRow(r)' => \A q \in Req \ {r} : LocksRow(q) => call[q] # call[r]
  BY <1>0 DEF TypeOK, DeleteRow, Granted, WaitsFor, Goto, LocksRow, Open, InTx, Notifying
<1>6. written'[r].doomed = {}
  BY <1>0 DEF DeleteRow
<1>7. Own(r)'
  BY <1>2, <1>3, <1>4, <1>6 DEF Own, Counted, Doomed, Told, Clears, Fresh
<1> QED
  BY <1>1, <1>2, <1>4, <1>5, <1>7, FrameKeeps DEF IInv

LEMMA BumpCountKeeps ==
    ASSUME IInv, NEW r \in Req, BumpCount(r)
    PROVE  IInv'
<1>0. /\ TypeOK /\ Own(r) /\ call[r] \in Row /\ written[r].doomed = {}
      /\ KindOf(r) \in Kind /\ PostOf(r) \in Post
  BY Begun, NothingDoomed DEF BumpCount
<1>1. TypeOK'
  <2>1. count[KindOf(r)][PostOf(r)] + Delta(r) \in Int
    BY <1>0 DEF TypeOK, Delta
  <2>2. written' \in [Req -> [count : Int, doomed : SUBSET Req]]
    BY <1>0, <2>1 DEF TypeOK, BumpCount
  <2> QED
    BY <1>0, <2>2 DEF TypeOK, BumpCount, Goto, tables, calls, Pc, Final, InTx, Notifying
<1>2. Frame(r) /\ pc'[r] \in {"commit", "notify", "clear"} /\ pc[r] = "bump" /\ r \notin expired
  BY <1>0 DEF TypeOK, BumpCount, Goto, tables, calls, Frame, Open
<1>3. Branch(r)'
  BY <1>0 DEF TypeOK, BumpCount, Goto, tables, calls, Own, Branch, Open, InTx,
     Notifying, Final, ByOwner, UserOf, PostOf
<1>4. LocksRow(r)
  BY <1>2 DEF LocksRow, Open, InTx
<1>5. \A q \in Req \ {r} : LocksPost(q) => PostOf(q) # PostOf(r)
  BY DEF BumpCount, Granted, WaitsFor
<1>6. written'[r].doomed = {} /\ written'[r].count = count[KindOf(r)][PostOf(r)] + Delta(r)
  BY <1>0 DEF TypeOK, BumpCount
<1>7. Seen(r)' /\ Counted(r)'
  BY <1>0, <1>4, <1>6 DEF Own, Seen, Counted, BumpCount, tables, calls, KindOf, PostOf, Delta
<1>8. pc'[r] = "commit" => ByOwner(r)
  BY <1>0 DEF TypeOK, BumpCount, Goto
<1>9. Told(r)' /\ Fresh(r)'
  BY <1>2, <1>8 DEF Told, Fresh, BumpCount, calls, ByOwner, UserOf, PostOf
<1>10. Clears(r)'
  <2>1. ASSUME NEW n \in notifs, call[n] = call[r] PROVE ~ByOwner(r)
    BY <1>0, <2>1 DEF IInv, Locks, TypeOK, Own, Branch, ByOwner, UserOf, PostOf
  <2> QED
    BY <1>8, <2>1 DEF Clears, BumpCount, calls, tables
<1>11. Own(r)'
  BY <1>3, <1>6, <1>7, <1>9, <1>10 DEF Own, Doomed
<1> QED
  BY <1>1, <1>2, <1>4, <1>5, <1>11, FrameKeeps DEF IInv

LEMMA ClearNotifsKeeps ==
    ASSUME IInv, NEW r \in Req, ClearNotifs(r)
    PROVE  IInv'
<1>0. TypeOK /\ Own(r) /\ call[r] \in Row /\ op[r] = "remove" /\ r \notin expired
  BY Begun DEF ClearNotifs, Own, Branch, Open
<1>1. TypeOK'
  <2>1. {n \in notifs : call[n] = call[r]} \in SUBSET Req
    BY <1>0 DEF TypeOK
  <2>2. written' \in [Req -> [count : Int, doomed : SUBSET Req]]
    BY <1>0, <2>1 DEF TypeOK, ClearNotifs
  <2> QED
    BY <1>0, <2>2 DEF TypeOK, ClearNotifs, Goto, tables, calls, Pc, Final, InTx, Notifying
<1>2. Frame(r) /\ pc'[r] = "commit" /\ pc[r] = "clear"
  BY <1>0 DEF TypeOK, ClearNotifs, Goto, tables, calls, Frame
<1>3. LocksRow(r) /\ LocksPost(r)
  BY <1>0, <1>2 DEF LocksRow, LocksPost, Open, InTx
<1>4. Branch(r)'
  BY <1>0 DEF TypeOK, ClearNotifs, Goto, tables, calls, Own, Branch, InTx,
     Notifying, Final, ByOwner, UserOf, PostOf
<1>5. /\ written'[r].doomed = {n \in notifs : call[n] = call[r]}
      /\ written'[r].count = written[r].count
  BY <1>0 DEF TypeOK, ClearNotifs
<1>6. Seen(r)' /\ Counted(r)'
  BY <1>0, <1>3, <1>5 DEF Own, Seen, Counted, ClearNotifs, tables, calls, KindOf, PostOf, Delta
<1>7. Told(r)' /\ Fresh(r)'
  BY <1>0, <1>2 DEF Told, Fresh, ClearNotifs, calls
<1>8. Clears(r)'
  BY <1>5 DEF Clears, ClearNotifs, calls, tables
<1>9. Doomed(r)'
  <2>1. ASSUME NEW n \in notifs, call[n] = call[r]
        PROVE  pc'[n] # "idle" /\ call'[n] = call'[r]
    <3>1. n \in Req /\ pc[n] # "idle"
      BY <1>0 DEF IInv, Locks, TypeOK, Own, Branch, Final
    <3> QED
      BY <1>2, <2>1, <3>1 DEF Frame
  <2>2. pc'[r] = "commit" /\ Open(r)' /\ op'[r] = "remove"
    BY <1>0, <1>2 DEF ClearNotifs, calls, Open, InTx
  <2> QED
    BY <1>5, <2>1, <2>2 DEF Doomed
<1>10. Own(r)'
  BY <1>4, <1>6, <1>7, <1>8, <1>9 DEF Own
<1> QED
  BY <1>1, <1>2, <1>3, <1>10, FrameKeeps DEF IInv

LEMMA FindDuplicateKeeps ==
    ASSUME IInv, NEW r \in Req, FindDuplicate(r)
    PROVE  IInv'
<1>0. TypeOK /\ Own(r) /\ call[r] \in Row /\ op[r] = "add" /\ written[r].doomed = {}
  BY Begun, NothingDoomed DEF FindDuplicate, Own, Branch, Notifying
<1>1. TypeOK'
  BY <1>0 DEF TypeOK, FindDuplicate, AfterNotify, Goto, tables, calls, Pc, Final, InTx, Notifying
<1>2. /\ Frame(r) /\ pc[r] = "notify"
      /\ pc'[r] = IF \E n \in notifs \ old : call[n] = call[r] THEN AfterNotify(r) ELSE "create"
      /\ AfterNotify(r) = IF r \in expired THEN "failed" ELSE "commit"
  BY <1>0 DEF TypeOK, FindDuplicate, AfterNotify, Goto, tables, calls, Frame
<1>3. LocksPost(r)' => LocksRow(r) /\ LocksPost(r)
  BY <1>2 DEF LocksRow, LocksPost, Open, InTx, Notifying, FindDuplicate
<1>4. Branch(r)'
  BY <1>0, <1>2 DEF TypeOK, FindDuplicate, tables, calls, Own, Branch, InTx,
     Notifying, Final, ByOwner, UserOf, PostOf
<1>5. LocksRow(r)' => LocksPost(r)'
  BY <1>2 DEF LocksRow, LocksPost
<1>6. Seen(r)' /\ Counted(r)'
  BY <1>0, <1>3, <1>5 DEF Own, Seen, Counted, FindDuplicate, tables, calls, KindOf, PostOf, Delta
<1>7. Told(r)' /\ Clears(r)' /\ Fresh(r)'
  BY <1>0, <1>2 DEF Told, Clears, Fresh, FindDuplicate, calls, tables
<1>8. written'[r].doomed = {}
  BY <1>0 DEF FindDuplicate
<1>9. Own(r)'
  BY <1>4, <1>6, <1>7, <1>8 DEF Own, Doomed
<1> QED
  BY <1>1, <1>2, <1>3, <1>5, <1>9, FrameKeeps DEF IInv

LEMMA NotifyErrorKeeps ==
    ASSUME IInv, NEW r \in Req, NotifyError(r)
    PROVE  IInv'
<1>0. TypeOK /\ Own(r) /\ call[r] \in Row /\ op[r] = "add" /\ written[r].doomed = {}
  BY Begun, NothingDoomed DEF NotifyError, Own, Branch, Notifying
<1>1. TypeOK'
  BY <1>0, RollbackWrites DEF TypeOK, NotifyError, Rollback, Goto, tables, calls, Pc, Final, InTx
<1>2. /\ Frame(r) /\ pc[r] \in Notifying
      /\ \/ pc'[r] = "failed"
         \/ pc'[r] = "commit" /\ KindOf(r) = "repost" /\ r \notin expired /\ written' = written
  BY <1>0 DEF TypeOK, NotifyError, Rollback, NothingWritten, Goto, tables, calls, Frame, Notifying
<1>3. written'[r].doomed = {}
  BY <1>0, RollbackWrites DEF NotifyError, Rollback
<1>4. Branch(r)'
  BY <1>0, <1>2 DEF TypeOK, NotifyError, tables, calls, Own, Branch, InTx,
     Notifying, Final, ByOwner, UserOf, PostOf
<1>5. CASE pc'[r] = "failed"
  <2>1. pc'[r] \notin InTx
    BY <1>5 DEF InTx, Notifying
  <2> QED
    BY <1>1, <1>2, <1>3, <1>4, <2>1, OutsideKeeps DEF IInv
<1>6. CASE pc'[r] # "failed"
  <2>1. LocksRow(r) /\ LocksPost(r)
    BY <1>2, <1>6 DEF LocksRow, LocksPost, Open, InTx, Notifying
  <2>2. Seen(r)' /\ Counted(r)'
    BY <1>0, <1>2, <1>6, <2>1 DEF Own, Seen, Counted, NotifyError, tables, calls, KindOf, PostOf,
       Delta
  <2>3. Told(r)' /\ Clears(r)' /\ Fresh(r)'
    BY <1>0, <1>2, <1>6 DEF Told, Clears, Fresh, NotifyError, calls, KindOf
  <2>4. Own(r)'
    BY <1>3, <1>4, <2>2, <2>3 DEF Own, Doomed
  <2> QED
    BY <1>1, <1>2, <2>1, <2>4, FrameKeeps DEF IInv, Notifying
<1> QED
  BY <1>5, <1>6

\* A call that fails, wherever it was.
LEMMA FailureKeeps ==
    ASSUME IInv, NEW r \in Req, pc[r] \in {"decide", "open"} \union InTx,
           Goto(r, "failed"), UNCHANGED <<post, tables, calls, expired>>,
           \/ written' = [written EXCEPT ![r] = NothingWritten]
           \/ written' = written /\ pc[r] # "commit"
    PROVE  IInv'
<1>0. TypeOK /\ Own(r) /\ call[r] \in Row
  BY Begun DEF InTx, Notifying
<1>1. TypeOK'
  BY <1>0, RollbackWrites DEF TypeOK, Goto, tables, calls, Pc, Final
<1>2. Frame(r) /\ pc'[r] = "failed" /\ pc'[r] \notin InTx
  BY <1>0 DEF TypeOK, Goto, tables, calls, Frame, InTx, Notifying
<1>3. Branch(r)'
  BY <1>0, <1>2 DEF tables, calls, Own, Branch, InTx, Notifying, Final, ByOwner, UserOf, PostOf
<1>4. written'[r].doomed = {}
  BY <1>0, NothingDoomed, RollbackWrites
<1> QED
  BY <1>1, <1>2, <1>3, <1>4, OutsideKeeps DEF IInv

LEMMA PoolTimeoutKeeps ==
    ASSUME IInv, NEW r \in Req, PoolTimeout(r)
    PROVE  IInv'
<1>1. CASE NotifyError(r)
  BY <1>1, NotifyErrorKeeps
<1>2. CASE ~NotifyError(r)
  BY <1>2, FailureKeeps DEF PoolTimeout, calls
<1> QED
  BY <1>1, <1>2

LEMMA CrashKeeps ==
    ASSUME IInv, NEW r \in Req, Crash(r)
    PROVE  IInv'
BY FailureKeeps DEF Crash, Rollback

LEMMA ExpireKeeps ==
    ASSUME IInv, NEW r \in Req, Expire(r)
    PROVE  IInv'
<1>1. CASE pc[r] \in Notifying
  <2>0. TypeOK /\ Own(r) /\ call[r] \in Row
    BY <1>1, Begun DEF Notifying
  <2>1. TypeOK'
    BY <1>1, <2>0, RollbackWrites DEF TypeOK, Expire, Rollback, Goto, tables, calls, Pc
  <2>2. Frame(r) /\ pc'[r] = pc[r] /\ r \in expired' /\ written'[r].doomed = {}
    BY <1>1, <2>0, RollbackWrites DEF TypeOK, Expire, Rollback, Goto, tables, calls, Frame, Notifying
  <2>3. Branch(r)'
    BY <1>1, <2>0, <2>2 DEF Expire, tables, calls, Own, Branch, InTx,
       Notifying, Final, ByOwner, UserOf, PostOf
  <2>4. ~LocksRow(r)' /\ ~LocksPost(r)'
    BY <2>2 DEF LocksRow, LocksPost, Open
  <2>5. Own(r)'
    BY <1>1, <2>2, <2>3, <2>4 DEF Own, Seen, Counted, Doomed, Told, Clears, Fresh, Alone, Notifying
  <2> QED
    BY <2>1, <2>2, <2>4, <2>5, FrameKeeps DEF IInv
<1>2. CASE pc[r] \notin Notifying
  BY <1>2, FailureKeeps DEF Expire, Rollback, Open
<1> QED
  BY <1>1, <1>2

-----------------------------------------------------------------------------
(***************************************************************************)
(* The notification, visible at once.                                       *)
(***************************************************************************)
LEMMA CreateNotifKeeps ==
    ASSUME IInv, NEW r \in Req, CreateNotif(r)
    PROVE  IInv'
<1>0. /\ TypeOK /\ call[r] \in Row /\ op[r] = "add" /\ written[r].doomed = {} /\ ~ByOwner(r)
      /\ \A q \in Req : Own(q)
  BY Begun, NothingDoomed DEF IInv, Locks, CreateNotif, Own, Branch, Notifying
<1>1. /\ notifs' = notifs \union {r} /\ r \notin notifs
      /\ pc[r] = "create" /\ pc'[r] = IF r \in expired THEN "failed" ELSE "commit"
      /\ \A q \in Req \ {r} : pc'[q] = pc[q]
      /\ UNCHANGED <<post, rows, count, old, call, op, expired, written>>
  BY <1>0 DEF TypeOK, CreateNotif, AfterNotify, Goto, calls, Own, Branch, Final
<1>2. TypeOK'
  BY <1>0, <1>1 DEF TypeOK, CreateNotif, AfterNotify, Goto, Pc, Final, InTx
<1>3. /\ \A q \in Req \ {r} : (LocksRow(q)' <=> LocksRow(q)) /\ (LocksPost(q)' <=> LocksPost(q))
      /\ LocksRow(r)' => LocksRow(r) /\ LocksPost(r)
      /\ LocksPost(r)' => LocksRow(r) /\ LocksPost(r)
      /\ \A q \in Req : PostOf(q)' = PostOf(q)
  BY <1>1 DEF LocksRow, LocksPost, Open, InTx, Notifying, PostOf
<1>4. RowsExclusive' /\ PostsExclusive'
  BY <1>1, <1>3 DEF IInv, Locks, RowsExclusive, PostsExclusive
<1>5. ASSUME NEW q \in Req, q # r PROVE Own(q)'
  <2>0. Own(q) /\ pc'[q] = pc[q] /\ (q \in notifs' <=> q \in notifs)
        /\ (q \in expired => pc[q] \in Notifying \union {"failed"})
    BY <1>0, <1>1, <1>5 DEF Own, Branch
  <2>1. Branch(q)'
    BY <1>1, <2>0 DEF Own, Branch, ByOwner, UserOf, PostOf
  <2>2. Seen(q)' /\ Counted(q)'
    BY <1>1, <2>0 DEF Own, Seen, Counted, LocksRow, LocksPost, Open, PostOf, KindOf, Delta
  <2>3. Doomed(q)'
    BY <1>0, <1>1, <2>0 DEF TypeOK, Own, Doomed, Open
  <2>4. Told(q)' /\ Clears(q)'
    BY <1>0, <1>1, <2>0 DEF TypeOK, Own, Told, Clears, Open, KindOf, ByOwner, UserOf, PostOf
  <2>5. Fresh(q)'
    <3> SUFFICES ASSUME pc[q] = "create", Alone(call[q])
                 PROVE  \A n \in notifs' \ old' : call'[n] # call'[q]
      BY <1>1, <2>0 DEF Fresh, Alone
    <3>1. \A n \in notifs \ old : call[n] # call[q]
      BY <2>0 DEF Own, Fresh
    <3>2. ASSUME call[r] = call[q] PROVE FALSE
      <4>1. r \notin expired /\ q \notin expired
        BY <3>2 DEF Alone
      <4>2. LocksRow(r) /\ LocksRow(q)
        BY <1>1, <4>1 DEF LocksRow, Open, InTx, Notifying
      <4> QED
        BY <1>5, <3>2, <4>2 DEF IInv, Locks, RowsExclusive
    <3> QED
      BY <1>1, <3>1, <3>2
  <2> QED
    BY <2>1, <2>2, <2>3, <2>4, <2>5 DEF Own
<1>6. Own(r)'
  <2>1. Branch(r)'
    BY <1>0, <1>1 DEF Own, Branch, InTx, Notifying, Final, ByOwner, UserOf, PostOf
  <2>2. Seen(r)' /\ Counted(r)'
    BY <1>0, <1>1, <1>3 DEF Own, Seen, Counted, PostOf, KindOf, Delta
  <2> QED
    BY <1>0, <1>1, <2>1, <2>2 DEF Own, Doomed, Told, Clears, Fresh
<1>7. Tables'
  <2>1. IsFiniteSet(rows)' /\ CountersMatch' /\ LikedImpliesNotified'
    BY <1>1 DEF IInv, Tables, CountersMatch, LikedImpliesNotified
  <2>2. OrphansComeFromRollbacks'
    BY <1>0, <1>1 DEF IInv, TypeOK, Tables, OrphansComeFromRollbacks
  <2>3. ASSUME NEW n \in notifs \ old, call[n] = call[r]
        PROVE  \E e \in expired : call[e] = call[r]
    BY <1>0, <1>1, <2>3 DEF Own, Fresh, Alone
  <2>4. DuplicatesNeedExpiry'
    BY <1>1, <2>3 DEF IInv, Tables, DuplicatesNeedExpiry
  <2> QED
    BY <2>1, <2>2, <2>4 DEF Tables
<1> QED
  BY <1>2, <1>4, <1>5, <1>6, <1>7 DEF IInv, Locks

-----------------------------------------------------------------------------
(***************************************************************************)
(* The commit.                                                              *)
(***************************************************************************)
RowsOf(s, k, p) == {x \in s : x[1] = k /\ x[3] = p}

LEMMA CommitCounts ==
    ASSUME IInv, NEW r \in Req, Commit(r)
    PROVE  IsFiniteSet(rows') /\ CountersMatch' /\ count' \in [Kind -> [Post -> Nat]]
<1>0. /\ TypeOK /\ Own(r) /\ call[r] \in Row /\ op[r] \in {"add", "remove"}
      /\ KindOf(r) \in Kind /\ PostOf(r) \in Post
  BY Begun DEF Commit, Own, Branch, InTx
<1>1. /\ IsFiniteSet(rows)
      /\ \A k \in Kind, p \in Post : count[k][p] = Cardinality(RowsOf(rows, k, p))
  BY DEF IInv, Tables, CountersMatch, RowsOf
<1>2. LocksRow(r) /\ LocksPost(r)
  BY DEF Commit, LocksRow, LocksPost, Open
<1>3. /\ op[r] = "add" => call[r] \notin rows /\ rows' = rows \union {call[r]}
      /\ op[r] = "remove" => call[r] \in rows /\ rows' = rows \ {call[r]}
      /\ written[r].count = count[KindOf(r)][PostOf(r)] + Delta(r)
  BY <1>0, <1>2 DEF Own, Seen, Counted, Commit
<1>4. IsFiniteSet(rows')
  BY <1>0, <1>1, <1>3, FS_AddElement, FS_RemoveElement
<1>5. ASSUME NEW k \in Kind, NEW p \in Post
      PROVE  count'[k][p] = Cardinality(RowsOf(rows', k, p)) /\ count'[k][p] \in Nat
  <2>1. IsFiniteSet(RowsOf(rows, k, p)) /\ Cardinality(RowsOf(rows, k, p)) \in Nat
    BY <1>1, FS_Subset, FS_CardinalityType DEF RowsOf
  <2>2. CASE k = KindOf(r) /\ p = PostOf(r)
    <3>1. count'[k][p] = count[k][p] + Delta(r)
      BY <1>0, <1>3, <2>2 DEF TypeOK, Commit
    <3>2. CASE op[r] = "add"
      <4>1. RowsOf(rows', k, p) = RowsOf(rows, k, p) \union {call[r]} /\ call[r] \notin RowsOf(rows, k, p)
        BY <1>3, <2>2, <3>2 DEF RowsOf, KindOf, PostOf
      <4>2. Cardinality(RowsOf(rows', k, p)) = Cardinality(RowsOf(rows, k, p)) + 1
        BY <2>1, <4>1, FS_AddElement
      <4> QED
        BY <1>1, <2>1, <3>1, <3>2, <4>2 DEF Delta
    <3>3. CASE op[r] = "remove"
      <4>1. RowsOf(rows', k, p) = RowsOf(rows, k, p) \ {call[r]} /\ call[r] \in RowsOf(rows, k, p)
        BY <1>3, <2>2, <3>3 DEF RowsOf, KindOf, PostOf
      <4>2. Cardinality(RowsOf(rows', k, p)) = Cardinality(RowsOf(rows, k, p)) - 1
        BY <2>1, <4>1, FS_RemoveElement
      <4>3. Cardinality(RowsOf(rows', k, p)) \in Nat
        BY <2>1, <4>1, FS_RemoveElement, FS_CardinalityType
      <4> QED
        BY <1>1, <2>1, <3>1, <3>3, <4>2, <4>3 DEF Delta
    <3> QED
      BY <1>0, <3>2, <3>3
  <2>3. CASE ~(k = KindOf(r) /\ p = PostOf(r))
    <3>1. count'[k][p] = count[k][p]
      BY <1>0, <2>3 DEF TypeOK, Commit
    <3>2. RowsOf(rows', k, p) = RowsOf(rows, k, p)
      BY <1>0, <1>3, <2>3 DEF RowsOf, KindOf, PostOf
    <3> QED
      BY <1>1, <2>1, <3>1, <3>2
  <2> QED
    BY <2>2, <2>3
<1>6. count' \in [Kind -> [Post -> Nat]]
  <2>1. /\ DOMAIN count' = Kind
        /\ \A k \in Kind : count'[k] = [p \in Post |-> count'[k][p]]
        /\ count' = [k \in Kind |-> count'[k]]
    BY <1>0 DEF TypeOK, Commit
  <2> QED
    BY <1>5, <2>1
<1> QED
  BY <1>4, <1>5, <1>6 DEF CountersMatch, RowsOf

LEMMA CommitKeeps ==
    ASSUME IInv, NEW r \in Req, Commit(r)
    PROVE  IInv'
<1>0. /\ TypeOK /\ call[r] \in Row /\ op[r] \in {"add", "remove"}
      /\ KindOf(r) \in Kind /\ PostOf(r) \in Post
      /\ \A q \in Req : Own(q)
  BY Begun DEF IInv, Locks, Commit, Own, Branch, InTx
<1>1. /\ pc[r] = "commit" /\ r \notin expired /\ pc'[r] = "done"
      /\ \A q \in Req \ {r} : pc'[q] = pc[q] /\ written'[q] = written[q]
      /\ notifs' = notifs \ written[r].doomed /\ old' = old \ written[r].doomed
      /\ rows' = IF op[r] = "add" THEN rows \union {call[r]} ELSE rows \ {call[r]}
      /\ UNCHANGED <<post, call, op, expired>>
      /\ written'[r].doomed = {}
  BY <1>0, RollbackWrites DEF TypeOK, Commit, Open, Rollback, Goto, calls
<1>2. /\ LocksRow(r) /\ LocksPost(r) /\ ~LocksRow(r)' /\ ~LocksPost(r)'
      /\ \A q \in Req \ {r} : (LocksRow(q)' <=> LocksRow(q)) /\ (LocksPost(q)' <=> LocksPost(q))
      /\ \A q \in Req : PostOf(q)' = PostOf(q)
  BY <1>1 DEF LocksRow, LocksPost, Open, InTx, Notifying, PostOf
<1>3. \A n \in written[r].doomed : op[r] = "remove" /\ call[n] = call[r]
  BY <1>0 DEF Own, Doomed
<1>4. TypeOK'
  <2>1. rows' \subseteq Row /\ old' \subseteq notifs' /\ notifs' \subseteq Req
    BY <1>0, <1>1 DEF TypeOK
  <2>2. pc' \in [Req -> Pc]
    BY <1>0 DEF TypeOK, Commit, Rollback, Goto, Pc, Final
  <2>3. written' \in [Req -> [count : Int, doomed : SUBSET Req]]
    BY <1>0, RollbackWrites DEF Commit, Rollback
  <2> QED
    BY <1>0, <1>1, <2>1, <2>2, <2>3, CommitCounts DEF TypeOK
<1>5. RowsExclusive' /\ PostsExclusive'
  BY <1>1, <1>2 DEF IInv, Locks, RowsExclusive, PostsExclusive
<1>6. ASSUME NEW q \in Req, q # r PROVE Own(q)'
  <2>0. Own(q) /\ pc'[q] = pc[q] /\ written'[q] = written[q]
    BY <1>0, <1>1, <1>6
  <2>1. LocksRow(q) => call[q] # call[r]
    BY <1>2, <1>6 DEF IInv, Locks, RowsExclusive
  <2>2. LocksPost(q) => PostOf(q) # PostOf(r)
    BY <1>2, <1>6 DEF IInv, Locks, PostsExclusive
  <2>3. pc[q] = "commit" /\ Open(q) => LocksRow(q)
    BY DEF LocksRow
  <2>4. Branch(q)'
    BY <1>1, <2>0 DEF Own, Branch, ByOwner, UserOf, PostOf
  <2>5. Seen(q)'
    BY <1>1, <1>2, <1>6, <2>0, <2>1 DEF Own, Seen
  <2>6. Counted(q)'
    <3> SUFFICES ASSUME LocksPost(q)
                 PROVE  written'[q].count = count'[KindOf(q)'][PostOf(q)'] + Delta(q)'
      BY <1>2, <1>6 DEF Counted
    <3>1. pc[q] # "idle"
      BY DEF LocksPost, LocksRow, Open, InTx, Notifying
    <3>2. KindOf(q) \in Kind /\ PostOf(q) \in Post
      BY <3>1, Begun
    <3>3. count'[KindOf(q)][PostOf(q)] = count[KindOf(q)][PostOf(q)]
      BY <1>0, <2>2, <3>2 DEF TypeOK, Commit
    <3>4. KindOf(q)' = KindOf(q) /\ PostOf(q)' = PostOf(q) /\ Delta(q)' = Delta(q)
      BY <1>1 DEF KindOf, PostOf, Delta
    <3> QED
      BY <2>0, <3>3, <3>4 DEF Own, Counted
  <2>7. Doomed(q)'
    <3>1. \A n \in Req : pc[n] # "idle" => pc'[n] # "idle"
      BY <1>1
    <3> QED
      BY <1>0, <1>1, <2>0, <3>1 DEF TypeOK, Own, Doomed, Open
  <2>8. Told(q)'
    BY <1>1, <1>3, <2>0, <2>1, <2>3 DEF Own, Told, Open, KindOf, ByOwner, UserOf, PostOf
  <2>9. Clears(q)'
    BY <1>0, <1>1, <2>0, <2>1, <2>3 DEF TypeOK, Own, Clears, Open
  <2>10. Fresh(q)'
    BY <1>1, <2>0 DEF Own, Fresh, Alone
  <2> QED
    BY <2>4, <2>5, <2>6, <2>7, <2>8, <2>9, <2>10 DEF Own
<1>7. Own(r)'
  <2>1. Branch(r)'
    BY <1>0, <1>1 DEF Own, Branch, InTx, Notifying, Final, ByOwner, UserOf, PostOf
  <2> QED
    BY <1>1, <1>2, <2>1 DEF Own, Seen, Counted, Doomed, Told, Clears, Fresh
<1>8. LikedImpliesNotified'
  <2> SUFFICES ASSUME NEW x \in rows', x[1] = "like", x[2] # Owner[x[3]]
               PROVE  \E n \in notifs' : call[n] = x
    BY <1>1 DEF LikedImpliesNotified
  <2>1. CASE x = call[r] /\ op[r] = "add"
    <3>1. \E n \in notifs : call[n] = x
      BY <1>0, <1>1, <2>1 DEF Own, Told, Open, InTx, KindOf, ByOwner, UserOf, PostOf
    <3> QED
      BY <1>1, <1>3, <2>1, <3>1
  <2>2. CASE x # call[r]
    <3>1. x \in rows
      BY <1>1, <2>2
    <3>2. \E n \in notifs : call[n] = x
      BY <3>1 DEF IInv, Tables, LikedImpliesNotified
    <3> QED
      BY <1>1, <1>3, <2>2, <3>2
  <2> QED
    BY <1>0, <1>1, <2>1, <2>2
<1>9. OrphansComeFromRollbacks'
  <2> SUFFICES ASSUME NEW n \in notifs', pc'[n] = "done"
               PROVE  call[n] \in rows'
    BY <1>1 DEF OrphansComeFromRollbacks
  <2>0. n \in Req /\ n \in notifs /\ n \notin written[r].doomed
    BY <1>0, <1>1 DEF TypeOK
  <2>1. CASE n = r
    BY <1>0, <1>1, <2>0, <2>1 DEF Own, Branch
  <2>2. CASE n # r
    <3>1. pc[n] = "done" /\ call[n] \in rows
      BY <1>1, <2>0, <2>2 DEF IInv, Tables, OrphansComeFromRollbacks
    <3>2. ~(op[r] = "remove" /\ call[n] = call[r])
      BY <1>0, <1>1, <2>0, <3>1 DEF Own, Clears, Open, InTx
    <3> QED
      BY <1>0, <1>1, <3>1, <3>2
  <2> QED
    BY <2>1, <2>2
<1>10. DuplicatesNeedExpiry'
  BY <1>1 DEF IInv, Tables, DuplicatesNeedExpiry
<1> QED
  BY <1>4, <1>5, <1>6, <1>7, <1>8, <1>9, <1>10, CommitCounts DEF IInv, Locks, Tables

-----------------------------------------------------------------------------
(***************************************************************************)
(* The other statements on the same tables, and the whole.                  *)
(***************************************************************************)
LEMMA SoftDeletePostKeeps ==
    ASSUME IInv, NEW p \in Post, SoftDeletePost(p)
    PROVE  IInv'
<1>0. TypeOK /\ \A q \in Req : Own(q)
  BY DEF IInv, Locks
<1>1. /\ UNCHANGED <<rows, count, notifs, old, pc, call, op, expired, written>>
      /\ post' = [post EXCEPT ![p] = "deleted"]
      /\ \A x : post[x] # "gone" => post'[x] # "gone"
  BY <1>0 DEF TypeOK, SoftDeletePost, tables, calls
<1>2. TypeOK'
  BY <1>0, <1>1 DEF TypeOK
<1>3. \A q \in Req : Own(q)'
  <2> SUFFICES ASSUME NEW q \in Req PROVE Own(q)'
    OBVIOUS
  <2>1. Own(q)
    BY <1>0
  <2>2. Seen(q)'
    BY <1>1, <2>1 DEF Own, Seen, LocksRow, Open, PostOf
  <2>3. Branch(q)' /\ Counted(q)' /\ Doomed(q)'
    BY <1>1, <2>1 DEF Own, Branch, Counted, Doomed, LocksPost, LocksRow, Open, KindOf, UserOf,
       PostOf, ByOwner, Delta
  <2>4. Told(q)' /\ Clears(q)' /\ Fresh(q)'
    BY <1>1, <2>1 DEF Own, Told, Clears, Fresh, Alone, Open, KindOf, UserOf, PostOf, ByOwner
  <2> QED
    BY <2>2, <2>3, <2>4 DEF Own
<1>4. RowsExclusive' /\ PostsExclusive'
  BY <1>1 DEF IInv, Locks, RowsExclusive, PostsExclusive, LocksPost, LocksRow, Open, PostOf
<1>5. Tables'
  BY <1>1 DEF IInv, Tables, CountersMatch, LikedImpliesNotified, OrphansComeFromRollbacks,
     DuplicatesNeedExpiry
<1> QED
  BY <1>2, <1>3, <1>4, <1>5 DEF IInv, Locks

LEMMA DeletePostKeeps ==
    ASSUME IInv, NEW p \in Post, DeletePost(p)
    PROVE  IInv'
<1>0. TypeOK /\ \A q \in Req : Own(q)
  BY DEF IInv, Locks
<1>1. /\ UNCHANGED <<pc, call, op, expired, written>>
      /\ post' = [post EXCEPT ![p] = "gone"]
      /\ rows' = {x \in rows : x[3] # p}
      /\ count' = [k \in Kind |-> [count[k] EXCEPT ![p] = 0]]
      /\ notifs' = {n \in notifs : PostOf(n) # p}
      /\ old' = {n \in old : PostOf(n) # p}
      /\ \A q \in Req : ~(LocksRow(q) /\ PostOf(q) = p)
  BY DEF DeletePost, calls
<1>2. \A k \in Kind, x \in Post : count'[k][x] = IF x = p THEN 0 ELSE count[k][x]
  BY <1>0, <1>1 DEF TypeOK
<1>3. TypeOK'
  <2>1. count' \in [Kind -> [Post -> Nat]]
    BY <1>0, <1>1 DEF TypeOK
  <2> QED
    BY <1>0, <1>1, <2>1 DEF TypeOK
<1>4. \A q \in Req : Own(q)'
  <2> SUFFICES ASSUME NEW q \in Req PROVE Own(q)'
    OBVIOUS
  <2>1. Own(q) /\ (LocksRow(q) => PostOf(q) # p) /\ (LocksPost(q) => PostOf(q) # p)
    BY <1>0, <1>1 DEF LocksPost
  <2>2. (LocksRow(q)' <=> LocksRow(q)) /\ (LocksPost(q)' <=> LocksPost(q))
    BY <1>1 DEF LocksPost, LocksRow, Open
  <2>3. LocksRow(q) => /\ KindOf(q) \in Kind /\ PostOf(q) \in Post
                       /\ post'[PostOf(q)] = post[PostOf(q)]
                       /\ call[q] \in rows' <=> call[q] \in rows
    <3>1. LocksRow(q) => pc[q] # "idle"
      BY DEF LocksRow, Open, InTx, Notifying
    <3>2. LocksRow(q) => KindOf(q) \in Kind /\ PostOf(q) \in Post
      BY <3>1, Begun
    <3> QED
      BY <1>0, <1>1, <2>1, <3>2 DEF TypeOK, PostOf
  <2>4. Seen(q)'
    BY <1>1, <2>1, <2>2, <2>3 DEF Own, Seen, PostOf
  <2>5. Counted(q)'
    BY <1>1, <1>2, <2>1, <2>2, <2>3 DEF Own, Counted, LocksPost, PostOf, KindOf, Delta
  <2>6. Branch(q)' /\ Doomed(q)'
    BY <1>1, <2>1 DEF Own, Branch, Doomed, Open, UserOf, PostOf, ByOwner
  <2>7. Told(q)'
    BY <1>1, <2>1 DEF Own, Told, LocksRow, Open, KindOf, UserOf, PostOf, ByOwner
  <2>8. Clears(q)' /\ Fresh(q)'
    BY <1>0, <1>1, <2>1 DEF TypeOK, Own, Clears, Fresh, Alone, Open
  <2> QED
    BY <2>4, <2>5, <2>6, <2>7, <2>8 DEF Own
<1>5. RowsExclusive' /\ PostsExclusive'
  BY <1>1 DEF IInv, Locks, RowsExclusive, PostsExclusive, LocksPost, LocksRow, Open, PostOf
<1>6. IsFiniteSet(rows') /\ CountersMatch'
  <2>1. IsFiniteSet(rows')
    BY <1>1, FS_Subset DEF IInv, Tables
  <2>2. ASSUME NEW k \in Kind, NEW x \in Post
        PROVE  count'[k][x] = Cardinality({y \in rows' : y[1] = k /\ y[3] = x})
    <3>1. CASE x = p
      <4>1. {y \in rows' : y[1] = k /\ y[3] = x} = {}
        BY <1>1, <3>1
      <4> QED
        BY <1>2, <3>1, <4>1, FS_EmptySet
    <3>2. CASE x # p
      <4>1. {y \in rows' : y[1] = k /\ y[3] = x} = {y \in rows : y[1] = k /\ y[3] = x}
        BY <1>1, <3>2
      <4> QED
        BY <1>2, <3>2, <4>1 DEF IInv, Tables, CountersMatch
    <3> QED
      BY <3>1, <3>2
  <2> QED
    BY <2>1, <2>2 DEF CountersMatch
<1>7. LikedImpliesNotified' /\ OrphansComeFromRollbacks' /\ DuplicatesNeedExpiry'
  BY <1>0, <1>1 DEF IInv, TypeOK, Tables, LikedImpliesNotified, OrphansComeFromRollbacks,
     DuplicatesNeedExpiry, PostOf
<1> QED
  BY <1>3, <1>4, <1>5, <1>6, <1>7 DEF IInv, Locks, Tables

LEMMA AgeKeeps == ASSUME IInv, Age PROVE IInv'
<1>1. TypeOK'
  BY DEF IInv, TypeOK, Age, calls
<1>2. \A q \in Req : Own(q)'
  BY DEF IInv, Locks, Own, Branch, Seen, Counted, Doomed, Told, Clears, Fresh, Age, calls, LocksPost,
     LocksRow, Open, KindOf, UserOf, PostOf, ByOwner, Delta
<1>3. RowsExclusive' /\ PostsExclusive'
  BY DEF IInv, Locks, RowsExclusive, PostsExclusive, LocksPost, LocksRow, Open, PostOf, Age, calls
<1>4. Tables'
  BY DEF IInv, Tables, CountersMatch, LikedImpliesNotified, OrphansComeFromRollbacks,
     DuplicatesNeedExpiry, Age, calls
<1> QED
  BY <1>1, <1>2, <1>3, <1>4 DEF IInv, Locks

LEMMA StutterKeeps == ASSUME IInv, UNCHANGED vars PROVE IInv'
<1>1. TypeOK'
  BY DEF IInv, TypeOK, vars
<1>2. \A q \in Req : Own(q)'
  BY DEF IInv, Locks, Own, Branch, Seen, Counted, Doomed, Told, Clears, Fresh, Alone, vars, LocksPost,
     LocksRow, Open, KindOf, UserOf, PostOf, ByOwner, Delta
<1>3. RowsExclusive' /\ PostsExclusive'
  BY DEF IInv, Locks, RowsExclusive, PostsExclusive, LocksPost, LocksRow, Open, PostOf, vars
<1>4. Tables'
  BY DEF IInv, Tables, CountersMatch, LikedImpliesNotified, OrphansComeFromRollbacks,
     DuplicatesNeedExpiry, vars
<1> QED
  BY <1>1, <1>2, <1>3, <1>4 DEF IInv, Locks

LEMMA Step == IInv /\ [Next]_vars => IInv'
<1> SUFFICES ASSUME IInv, [Next]_vars PROVE IInv'
  OBVIOUS
<1>1. ASSUME NEW r \in Req, Statement(r) PROVE IInv'
  BY <1>1, DecideKeeps, OpenTransactionKeeps, InsertRowKeeps, DeleteRowKeeps, BumpCountKeeps,
     ClearNotifsKeeps, FindDuplicateKeeps, CreateNotifKeeps, CommitKeeps DEF Statement
<1>2. ASSUME NEW r \in Req,
             Begin(r) \/ NotifyError(r) \/ PoolTimeout(r) \/ Expire(r) \/ Crash(r)
      PROVE  IInv'
  BY <1>2, BeginKeeps, NotifyErrorKeeps, PoolTimeoutKeeps, ExpireKeeps, CrashKeeps
<1>3. ASSUME NEW p \in Post, SoftDeletePost(p) \/ DeletePost(p) PROVE IInv'
  BY <1>3, SoftDeletePostKeeps, DeletePostKeeps
<1>4. CASE Age
  BY <1>4, AgeKeeps
<1>5. CASE Quiescent \/ UNCHANGED vars
  BY <1>5, StutterKeeps DEF Quiescent
<1> QED
  BY <1>1, <1>2, <1>3, <1>4, <1>5 DEF Next

LEMMA Inductive == Spec => []IInv
BY InitIInv, Step, PTL DEF Spec

\* The variables keep their types; above all, no counter goes below zero.
THEOREM TypeCorrect == Spec => []TypeOK
<1>1. IInv => TypeOK
  BY DEF IInv
<1> QED
  BY <1>1, Inductive, PTL

\* likeCount and repostCount are the numbers of rows, whatever overlaps, expires,
\* is rolled back or deleted.
THEOREM CountersAlwaysMatch == Spec => []CountersMatch
<1>1. IInv => CountersMatch
  BY DEF IInv, Tables
<1> QED
  BY <1>1, Inductive, PTL

\* A committed like of somebody else's post has its notification.
THEOREM LikesAreNotified == Spec => []LikedImpliesNotified
<1>1. IInv => LikedImpliesNotified
  BY DEF IInv, Tables
<1> QED
  BY <1>1, Inductive, PTL

\* A notification without its reaction comes from a call that did not commit.
THEOREM OrphansExplained == Spec => []OrphansComeFromRollbacks
<1>1. IInv => OrphansComeFromRollbacks
  BY DEF IInv, Tables
<1> QED
  BY <1>1, Inductive, PTL

\* Two notifications of one reaction within a day need an expired transaction.
THEOREM DuplicatesExplained == Spec => []DuplicatesNeedExpiry
<1>1. IInv => DuplicatesNeedExpiry
  BY DEF IInv, Tables
<1> QED
  BY <1>1, Inductive, PTL
=============================================================================
