--------------------------- MODULE FollowsProofs ---------------------------
(***************************************************************************)
(* Proofs about Follows, for any users and any number of overlapping calls.  *)
(***************************************************************************)
EXTENDS Follows, FiniteSetTheorems, TLAPS

Counted == {"bumpFollowed", "clear", "commit"}  \* the follower's row is locked
BothCounted == {"clear", "commit"}              \* both users rows are locked

\* A call past its first checks names two users, and the branch of its
\* transaction is known.
CallOK ==
    \A r \in Req :
        /\ pc[r] # "idle" => call[r] \in User \X Id
        /\ pc[r] \notin Final \union {"idle"} => call[r][1] # call[r][2]
        /\ pc[r] \in {"insert", "delete"} \union InTx => call[r] \in User \X User
        /\ pc[r] \in {"check", "insert"} => op[r] = "follow"
        /\ pc[r] = "delete" => op[r] = "unfollow"
        /\ pc[r] \in InTx => op[r] \in {"follow", "unfollow"}

\* Two open transactions never work on the same row.
EdgesExclusive ==
    \A q, r \in Req :
        q # r /\ pc[q] \in InTx /\ pc[r] \in InTx => call[q] # call[r]

UsersExclusive ==
    \A q, r \in Req : \A u \in User :
        q # r => ~(LocksUser(q, u) /\ LocksUser(r, u))

\* What a transaction will commit is still one away from what is committed.
WrittenOK ==
    \A r \in Req :
        /\ pc[r] \in Counted =>
             written[r].following = followingCount[call[r][1]] + Delta(r)
        /\ pc[r] \in BothCounted =>
             written[r].followers = followersCount[call[r][2]] + Delta(r)

\* The inductive invariant.
IInv ==
    /\ TypeOK
    /\ IsFiniteSet(follows)
    /\ CallOK
    /\ EdgesExclusive
    /\ UsersExclusive
    /\ WrittenOK
    /\ RowStable
    /\ CountersMatch

-----------------------------------------------------------------------------
(***************************************************************************)
(* Counting edges.                                                          *)
(***************************************************************************)

\* The edges of F whose i-th end is u: i = 1 for whom u follows, 2 for who
\* follows u.
Incident(F, i, u) == {x \in F : x[i] = u}

LEMMA IncidentFinite ==
    ASSUME NEW F, IsFiniteSet(F), NEW i, NEW u
    PROVE  IsFiniteSet(Incident(F, i, u)) /\ Cardinality(Incident(F, i, u)) \in Nat
BY FS_Subset, FS_CardinalityType DEF Incident

\* Adding an edge adds one to the lists it belongs to and nothing to others.
LEMMA AddCounts ==
    ASSUME NEW F, IsFiniteSet(F), NEW e, e \notin F, NEW i, NEW u
    PROVE  /\ IsFiniteSet(F \union {e})
           /\ Cardinality(Incident(F \union {e}, i, u)) =
                Cardinality(Incident(F, i, u)) + (IF e[i] = u THEN 1 ELSE 0)
<1>1. IsFiniteSet(F \union {e})
  BY FS_AddElement
<1>2. IsFiniteSet(Incident(F, i, u)) /\ Cardinality(Incident(F, i, u)) \in Nat
  BY IncidentFinite
<1>3. CASE e[i] = u
  <2>1. Incident(F \union {e}, i, u) = Incident(F, i, u) \union {e} /\ e \notin Incident(F, i, u)
    BY <1>3 DEF Incident
  <2>2. Cardinality(Incident(F, i, u) \union {e}) = Cardinality(Incident(F, i, u)) + 1
    BY <1>2, <2>1, FS_AddElement
  <2>3. QED
    BY <1>1, <1>3, <2>1, <2>2
<1>4. CASE e[i] # u
  <2>1. Incident(F \union {e}, i, u) = Incident(F, i, u)
    BY <1>4 DEF Incident
  <2>2. QED
    BY <1>1, <1>2, <1>4, <2>1
<1>5. QED
  BY <1>3, <1>4

\* Removing an edge is the reverse.
LEMMA RemoveCounts ==
    ASSUME NEW F, IsFiniteSet(F), NEW e \in F, NEW i, NEW u
    PROVE  /\ IsFiniteSet(F \ {e})
           /\ Cardinality(Incident(F \ {e}, i, u)) =
                Cardinality(Incident(F, i, u)) - (IF e[i] = u THEN 1 ELSE 0)
<1>1. IsFiniteSet(F \ {e}) /\ e \notin F \ {e} /\ (F \ {e}) \union {e} = F
  BY FS_RemoveElement
<1>2. Cardinality(Incident(F \ {e}, i, u)) \in Nat
  BY <1>1, IncidentFinite
<1>3. Cardinality(Incident((F \ {e}) \union {e}, i, u)) =
        Cardinality(Incident(F \ {e}, i, u)) + (IF e[i] = u THEN 1 ELSE 0)
  BY <1>1, AddCounts
<1>4. Cardinality(Incident(F, i, u)) =
        Cardinality(Incident(F \ {e}, i, u)) + (IF e[i] = u THEN 1 ELSE 0)
  BY <1>1, <1>3
<1>5. QED
  BY <1>1, <1>2, <1>4

-----------------------------------------------------------------------------
(***************************************************************************)
(* The inductive invariant, one part at a time.                              *)
(***************************************************************************)

LEMMA InitIInv == Init => IInv
<1> SUFFICES ASSUME Init PROVE IInv
  OBVIOUS
<1> USE DEF Init
<1>1. IsFiniteSet(follows) /\ Cardinality({}) = 0
  BY FS_EmptySet
<1>2. TypeOK
  BY DEF TypeOK, Pc, NothingWritten, NoCall
<1>3. CallOK /\ EdgesExclusive /\ WrittenOK /\ RowStable
  BY DEF CallOK, EdgesExclusive, WrittenOK, RowStable, InTx, Final, Counted, BothCounted
<1>4. UsersExclusive
  BY DEF UsersExclusive, LocksUser
<1>5. CountersMatch
  <2>1. \A u \in User : FollowerRows(u) = {} /\ FollowingRows(u) = {}
    BY DEF FollowerRows, FollowingRows
  <2>2. QED
    BY <1>1, <2>1 DEF CountersMatch
<1>6. QED
  BY <1>1, <1>2, <1>3, <1>4, <1>5 DEF IInv

\* A step of the program: of one call, or of the clock.
CallStep(r) == Begin(r) \/ Statement(r) \/ DeadlockVictim(r) \/ Fail(r)

\* Every step but a commit leaves follows and the counters alone.
LEMMA OnlyCommitWrites ==
    ASSUME NEW r \in Req, CallStep(r), ~Commit(r)
    PROVE  UNCHANGED <<follows, followersCount, followingCount>>
BY DEF CallStep, Begin, Statement, DeadlockVictim, Fail, ReadFollow, CheckFollow,
       InsertFollow, DeleteFollow, BumpFollower, BumpFollowed, ClearNotifs,
       FindDuplicate, CreateNotif, tables

\* A step of one call leaves the private state of the others alone.
LEMMA OthersUnchanged ==
    ASSUME TypeOK, NEW r \in Req, CallStep(r), NEW q \in Req, q # r
    PROVE  /\ pc'[q] = pc[q]
           /\ call'[q] = call[q]
           /\ op'[q] = op[q]
           /\ written'[q] = written[q]
BY DEF CallStep, Begin, Statement, DeadlockVictim, Fail, ReadFollow, CheckFollow,
       InsertFollow, DeleteFollow, BumpFollower, BumpFollowed, ClearNotifs, Commit,
       FindDuplicate, CreateNotif, Goto, TypeOK

LEMMA CallOKStep == TypeOK /\ CallOK /\ (\E r \in Req : CallStep(r)) => CallOK'
<1> SUFFICES ASSUME TypeOK, CallOK, NEW r \in Req, CallStep(r), NEW q \in Req
             PROVE  /\ pc'[q] # "idle" => call'[q] \in User \X Id
                    /\ pc'[q] \notin Final \union {"idle"} => call'[q][1] # call'[q][2]
                    /\ pc'[q] \in {"insert", "delete"} \union InTx => call'[q] \in User \X User
                    /\ pc'[q] \in {"check", "insert"} => op'[q] = "follow"
                    /\ pc'[q] = "delete" => op'[q] = "unfollow"
                    /\ pc'[q] \in InTx => op'[q] \in {"follow", "unfollow"}
  BY DEF CallOK
<1>1. CASE q # r
  BY <1>1, OthersUnchanged DEF CallOK
<1>2. CASE q = r
  <2> USE DEF CallOK, TypeOK, Goto, InTx, Final
  <2>1. CASE Begin(r)
    <3>1. PICK e \in Asked : /\ call' = [call EXCEPT ![r] = e]
                             /\ Goto(r, IF e[1] = e[2] THEN "rejected" ELSE "read")
      BY <2>1 DEF Begin
    <3>2. e \in User \X Id
      BY <3>1, FollowsAssumption
    <3>3. QED
      BY <1>2, <3>1, <3>2
  <2>2. CASE ReadFollow(r)
    BY <1>2, <2>2 DEF ReadFollow
  <2>3. CASE CheckFollow(r)
    <3>1. call' = call /\ op' = op /\ pc[r] = "check" /\ call[r] \in User \X Id /\ call[r][1] # call[r][2]
      BY <2>3 DEF CheckFollow
    <3>2. \/ pc'[r] = "rejected"
          \/ pc'[r] = "insert" /\ call[r] \in User \X User
      BY <2>3 DEF CheckFollow
    <3>3. op[r] = "follow"
      BY <3>1
    <3>4. QED
      BY <1>2, <3>1, <3>2, <3>3
  <2>4. CASE InsertFollow(r) \/ DeleteFollow(r)
    BY <1>2, <2>4 DEF InsertFollow, DeleteFollow
  <2>5. CASE BumpFollower(r) \/ BumpFollowed(r) \/ ClearNotifs(r)
    BY <1>2, <2>5 DEF BumpFollower, BumpFollowed, ClearNotifs
  <2>6. CASE Commit(r) \/ FindDuplicate(r) \/ CreateNotif(r)
    BY <1>2, <2>6 DEF Commit, FindDuplicate, CreateNotif
  <2>7. CASE DeadlockVictim(r) \/ Fail(r)
    BY <1>2, <2>7 DEF DeadlockVictim, Fail, Deadlocked, WaitsFor, InFlight
  <2>8. QED
    BY <2>1, <2>2, <2>3, <2>4, <2>5, <2>6, <2>7 DEF CallStep, Statement
<1>3. QED
  BY <1>1, <1>2

\* A call enters its transaction only when no other transaction has its edge.
LEMMA EntersAlone ==
    ASSUME TypeOK, NEW r \in Req, CallStep(r), pc[r] \notin InTx, pc'[r] \in InTx
    PROVE  /\ InsertFollow(r) \/ DeleteFollow(r)
           /\ call' = call /\ op' = op /\ pc'[r] = "bumpFollower"
           /\ \A q \in Req \ {r} : ~LocksEdge(q, call[r])
           /\ call[r] \in follows <=> pc[r] = "delete"
<1> USE DEF TypeOK, Goto, InTx, Final
<1>1. CASE InsertFollow(r)
  BY <1>1 DEF InsertFollow, Granted, WaitsFor
<1>2. CASE DeleteFollow(r)
  BY <1>2 DEF DeleteFollow, Granted, WaitsFor
<1>3. CASE Begin(r) \/ Fail(r) \/ DeadlockVictim(r)
  BY <1>3 DEF Begin, Fail, DeadlockVictim
<1>4. CASE ReadFollow(r) \/ CheckFollow(r) \/ FindDuplicate(r) \/ CreateNotif(r)
  BY <1>4 DEF ReadFollow, CheckFollow, FindDuplicate, CreateNotif
<1>5. CASE BumpFollower(r) \/ BumpFollowed(r) \/ ClearNotifs(r) \/ Commit(r)
  BY <1>5 DEF BumpFollower, BumpFollowed, ClearNotifs, Commit
<1>6. QED
  BY <1>1, <1>2, <1>3, <1>4, <1>5 DEF CallStep, Statement

\* Inside its transaction a call keeps its edge and its branch.
LEMMA StaysOnEdge ==
    ASSUME TypeOK, NEW r \in Req, CallStep(r), pc[r] \in InTx
    PROVE  call'[r] = call[r] /\ op'[r] = op[r]
BY DEF CallStep, Begin, Statement, DeadlockVictim, Fail, ReadFollow, CheckFollow,
       InsertFollow, DeleteFollow, BumpFollower, BumpFollowed, ClearNotifs, Commit,
       FindDuplicate, CreateNotif, InTx

LEMMA EdgesExclusiveStep ==
    TypeOK /\ EdgesExclusive /\ (\E r \in Req : CallStep(r)) => EdgesExclusive'
<1> SUFFICES ASSUME TypeOK, EdgesExclusive, NEW r \in Req, CallStep(r)
             PROVE  EdgesExclusive'
  OBVIOUS
<1>1. ASSUME NEW q \in Req, q # r, pc'[q] \in InTx, pc'[r] \in InTx
      PROVE  call'[q] # call'[r]
  <2>1. pc[q] \in InTx /\ call'[q] = call[q]
    BY <1>1, OthersUnchanged
  <2>2. CASE pc[r] \in InTx
    BY <1>1, <2>1, <2>2, StaysOnEdge DEF EdgesExclusive
  <2>3. CASE pc[r] \notin InTx
    BY <1>1, <2>1, <2>3, EntersAlone DEF LocksEdge
  <2>4. QED
    BY <2>2, <2>3
<1>2. ASSUME NEW p \in Req, NEW q \in Req, p # q, p # r, q # r, pc'[p] \in InTx, pc'[q] \in InTx
      PROVE  call'[p] # call'[q]
  BY <1>2, OthersUnchanged DEF EdgesExclusive
<1>3. QED
  BY <1>1, <1>2 DEF EdgesExclusive

\* A call locks a users row only when no other transaction has it.
LEMMA LocksAlone ==
    ASSUME TypeOK, NEW r \in Req, CallStep(r), NEW u \in User,
           ~LocksUser(r, u), LocksUser(r, u)'
    PROVE  \A q \in Req \ {r} : ~LocksUser(q, u)
<1> USE DEF TypeOK, Goto, LocksUser
<1>1. CASE BumpFollower(r)
  <2>1. pc[r] = "bumpFollower" /\ pc'[r] = "bumpFollowed" /\ call' = call
    BY <1>1 DEF BumpFollower
  <2>2. u = call[r][1]
    BY <2>1
  <2>3. QED
    BY <1>1, <2>1, <2>2 DEF BumpFollower, Granted, WaitsFor
<1>2. CASE BumpFollowed(r)
  <2>1. pc[r] = "bumpFollowed" /\ pc'[r] \in BothCounted /\ call' = call
    BY <1>2 DEF BumpFollowed, BothCounted
  <2>2. u = call[r][2]
    BY <2>1 DEF BothCounted
  <2>3. QED
    BY <1>2, <2>1, <2>2 DEF BumpFollowed, Granted, WaitsFor
<1>3. CASE ClearNotifs(r)
  BY <1>3 DEF ClearNotifs
<1>4. CASE Begin(r) \/ Fail(r) \/ DeadlockVictim(r) \/ Commit(r)
  BY <1>4 DEF Begin, Fail, DeadlockVictim, Commit
<1>5. CASE ReadFollow(r) \/ CheckFollow(r) \/ FindDuplicate(r) \/ CreateNotif(r)
  BY <1>5 DEF ReadFollow, CheckFollow, FindDuplicate, CreateNotif
<1>6. CASE InsertFollow(r) \/ DeleteFollow(r)
  BY <1>6 DEF InsertFollow, DeleteFollow
<1>7. QED
  BY <1>1, <1>2, <1>3, <1>4, <1>5, <1>6 DEF CallStep, Statement

LEMMA UsersExclusiveStep ==
    TypeOK /\ UsersExclusive /\ (\E r \in Req : CallStep(r)) => UsersExclusive'
<1> SUFFICES ASSUME TypeOK, UsersExclusive, NEW r \in Req, CallStep(r)
             PROVE  UsersExclusive'
  OBVIOUS
<1>1. ASSUME NEW q \in Req, q # r, NEW u \in User
      PROVE  LocksUser(q, u)' <=> LocksUser(q, u)
  BY <1>1, OthersUnchanged DEF LocksUser
<1>2. ASSUME NEW q \in Req, q # r, NEW u \in User, LocksUser(q, u)', LocksUser(r, u)'
      PROVE  FALSE
  <2>1. LocksUser(q, u)
    BY <1>1, <1>2
  <2>2. ~LocksUser(r, u)
    BY <1>2, <2>1 DEF UsersExclusive
  <2>3. QED
    BY <1>2, <2>1, <2>2, LocksAlone
<1>3. ASSUME NEW p \in Req, NEW q \in Req, p # q, p # r, q # r, NEW u \in User
      PROVE  ~(LocksUser(p, u)' /\ LocksUser(q, u)')
  BY <1>1, <1>3 DEF UsersExclusive
<1>4. QED
  BY <1>2, <1>3 DEF UsersExclusive

\* A commit of r moves only the rows r has locked.
LEMMA CommitWrites ==
    ASSUME TypeOK, CallOK, WrittenOK, RowStable, NEW r \in Req, Commit(r)
    PROVE  /\ call[r] \in User \X User /\ call[r][1] # call[r][2]
           /\ pc[r] = "commit" /\ pc'[r] \in {"notify", "done"}
           /\ followingCount' =
                [followingCount EXCEPT ![call[r][1]] = @ + Delta(r)]
           /\ followersCount' =
                [followersCount EXCEPT ![call[r][2]] = @ + Delta(r)]
           /\ \/ /\ op[r] = "follow" /\ Delta(r) = 1 /\ call[r] \notin follows
                 /\ follows' = follows \union {call[r]}
              \/ /\ op[r] = "unfollow" /\ Delta(r) = -1 /\ call[r] \in follows
                 /\ follows' = follows \ {call[r]}
<1>1. /\ pc[r] = "commit" /\ call[r] \in User \X User /\ call[r][1] # call[r][2]
      /\ op[r] \in {"follow", "unfollow"}
  BY DEF Commit, CallOK, InTx, Final
<1>2. /\ written[r].following = followingCount[call[r][1]] + Delta(r)
      /\ written[r].followers = followersCount[call[r][2]] + Delta(r)
  BY <1>1 DEF WrittenOK, Counted, BothCounted
<1>3. call[r] \in follows <=> op[r] = "unfollow"
  BY <1>1 DEF RowStable, InTx
<1>4. pc'[r] \in {"notify", "done"}
  BY DEF Commit, Goto, TypeOK
<1>5. /\ followingCount' = [followingCount EXCEPT ![call[r][1]] = written[r].following]
      /\ followersCount' = [followersCount EXCEPT ![call[r][2]] = written[r].followers]
      /\ IF op[r] = "follow" THEN follows' = follows \union {call[r]}
                             ELSE follows' = follows \ {call[r]}
  BY DEF Commit
<1>6. IF op[r] = "follow" THEN Delta(r) = 1 ELSE Delta(r) = -1
  BY DEF Delta
<1>7. QED
  BY <1>1, <1>2, <1>3, <1>4, <1>5, <1>6

LEMMA RowStableStep ==
    IInv /\ (\E r \in Req : CallStep(r)) => RowStable'
<1> SUFFICES ASSUME IInv, NEW r \in Req, CallStep(r), NEW q \in Req, pc'[q] \in InTx
             PROVE  call'[q] \in follows' <=> op'[q] = "unfollow"
  BY DEF RowStable
<1> USE DEF IInv
<1>1. CASE q # r
  <2>1. pc[q] \in InTx /\ call'[q] = call[q] /\ op'[q] = op[q]
    BY <1>1, OthersUnchanged
  <2>2. call[q] \in follows <=> op[q] = "unfollow"
    BY <2>1 DEF RowStable
  <2>3. CASE Commit(r)
    <3>1. pc[r] \in InTx
      BY <2>3 DEF Commit, InTx
    <3>2. call[q] # call[r]
      BY <1>1, <2>1, <3>1 DEF EdgesExclusive
    <3>3. follows' = follows \union {call[r]} \/ follows' = follows \ {call[r]}
      BY <2>3, CommitWrites
    <3>4. QED
      BY <2>1, <2>2, <3>2, <3>3
  <2>4. CASE ~Commit(r)
    BY <2>1, <2>2, <2>4, OnlyCommitWrites
  <2>5. QED
    BY <2>3, <2>4
<1>2. CASE q = r
  <2>1. ~Commit(r)
    BY <1>2, CommitWrites DEF InTx
  <2>2. follows' = follows
    BY <2>1, OnlyCommitWrites
  <2>3. CASE pc[r] \in InTx
    BY <1>2, <2>2, <2>3, StaysOnEdge DEF RowStable
  <2>4. CASE pc[r] \notin InTx
    <3>1. /\ InsertFollow(r) \/ DeleteFollow(r)
          /\ call' = call /\ op' = op
          /\ call[r] \in follows <=> pc[r] = "delete"
      BY <1>2, <2>4, EntersAlone
    <3>2. pc[r] = "insert" \/ pc[r] = "delete"
      BY <3>1 DEF InsertFollow, DeleteFollow
    <3>3. QED
      BY <1>2, <2>2, <3>1, <3>2 DEF CallOK
  <2>5. QED
    BY <2>3, <2>4
<1>3. QED
  BY <1>1, <1>2

LEMMA WrittenOKStep ==
    IInv /\ (\E r \in Req : CallStep(r)) => WrittenOK'
<1> SUFFICES ASSUME IInv, NEW r \in Req, CallStep(r), NEW q \in Req
             PROVE  /\ pc'[q] \in Counted =>
                         written'[q].following = followingCount'[call'[q][1]] + Delta(q)'
                    /\ pc'[q] \in BothCounted =>
                         written'[q].followers = followersCount'[call'[q][2]] + Delta(q)'
  BY DEF WrittenOK
<1> USE DEF IInv
<1>1. CASE q # r
  <2>1. /\ pc'[q] = pc[q] /\ call'[q] = call[q] /\ written'[q] = written[q]
        /\ Delta(q)' = Delta(q)
    BY <1>1, OthersUnchanged DEF Delta
  <2>2. CASE ~Commit(r)
    BY <2>1, <2>2, OnlyCommitWrites DEF WrittenOK
  <2>3. CASE Commit(r)
    <3>1. /\ call[r] \in User \X User /\ pc[r] = "commit"
          /\ followingCount' = [followingCount EXCEPT ![call[r][1]] = @ + Delta(r)]
          /\ followersCount' = [followersCount EXCEPT ![call[r][2]] = @ + Delta(r)]
      BY <2>3, CommitWrites
    <3>2. LocksUser(r, call[r][1]) /\ LocksUser(r, call[r][2])
      BY <3>1 DEF LocksUser
    <3>3. ASSUME pc[q] \in Counted
          PROVE  followingCount'[call[q][1]] = followingCount[call[q][1]]
      <4>1. call[q] \in User \X User /\ LocksUser(q, call[q][1])
        BY <3>3 DEF Counted, CallOK, InTx, LocksUser
      <4>2. call[q][1] # call[r][1]
        BY <1>1, <3>1, <3>2, <4>1 DEF UsersExclusive
      <4>3. QED
        BY <3>1, <4>1, <4>2 DEF TypeOK
    <3>4. ASSUME pc[q] \in BothCounted
          PROVE  followersCount'[call[q][2]] = followersCount[call[q][2]]
      <4>1. call[q] \in User \X User /\ LocksUser(q, call[q][2])
        BY <3>4 DEF BothCounted, CallOK, InTx, LocksUser
      <4>2. call[q][2] # call[r][2]
        BY <1>1, <3>1, <3>2, <4>1 DEF UsersExclusive
      <4>3. QED
        BY <3>1, <4>1, <4>2 DEF TypeOK
    <3>5. QED
      BY <2>1, <3>3, <3>4 DEF WrittenOK
  <2>4. QED
    BY <2>2, <2>3
<1>2. CASE q = r
  <2> USE DEF TypeOK, Goto, Counted, BothCounted, Delta
  <2>1. CASE BumpFollower(r)
    BY <1>2, <2>1 DEF BumpFollower, tables
  <2>2. CASE BumpFollowed(r)
    BY <1>2, <2>2 DEF BumpFollowed, WrittenOK, tables
  <2>3. CASE ClearNotifs(r)
    BY <1>2, <2>3 DEF ClearNotifs, CallOK, WrittenOK, tables
  <2>4. CASE Begin(r) \/ Fail(r) \/ DeadlockVictim(r) \/ Commit(r)
    BY <1>2, <2>4 DEF Begin, Fail, DeadlockVictim, Commit
  <2>5. CASE ReadFollow(r) \/ CheckFollow(r) \/ FindDuplicate(r) \/ CreateNotif(r)
    BY <1>2, <2>5 DEF ReadFollow, CheckFollow, FindDuplicate, CreateNotif
  <2>6. CASE InsertFollow(r) \/ DeleteFollow(r)
    BY <1>2, <2>6 DEF InsertFollow, DeleteFollow
  <2>7. QED
    BY <2>1, <2>2, <2>3, <2>4, <2>5, <2>6 DEF CallStep, Statement
<1>3. QED
  BY <1>1, <1>2

\* The counters follow the rows through a commit.
LEMMA CountersStep ==
    ASSUME IInv, NEW r \in Req, CallStep(r)
    PROVE  /\ IsFiniteSet(follows')
           /\ CountersMatch'
           /\ followersCount' \in [User -> Nat]
           /\ followingCount' \in [User -> Nat]
<1> USE DEF IInv
<1>1. CASE ~Commit(r)
  BY <1>1, OnlyCommitWrites DEF CountersMatch, FollowerRows, FollowingRows, TypeOK
<1>2. CASE Commit(r)
  <2> DEFINE e == call[r]
  <2>1. /\ e \in User \X User /\ e[1] # e[2]
        /\ followingCount' = [followingCount EXCEPT ![e[1]] = @ + Delta(r)]
        /\ followersCount' = [followersCount EXCEPT ![e[2]] = @ + Delta(r)]
        /\ \/ Delta(r) = 1 /\ e \notin follows /\ follows' = follows \union {e}
           \/ Delta(r) = -1 /\ e \in follows /\ follows' = follows \ {e}
    BY <1>2, CommitWrites
  <2>2. followingCount \in [User -> Nat] /\ followersCount \in [User -> Nat]
    BY DEF TypeOK
  <2> HIDE DEF e
  <2>3. ASSUME NEW i \in {1, 2}, NEW u \in User
        PROVE  /\ IsFiniteSet(follows')
               /\ Cardinality(Incident(follows', i, u)) \in Nat
               /\ Cardinality(Incident(follows', i, u)) =
                    Cardinality(Incident(follows, i, u)) + (IF e[i] = u THEN Delta(r) ELSE 0)
    <3>1. CASE Delta(r) = 1 /\ e \notin follows /\ follows' = follows \union {e}
      BY <3>1, AddCounts, IncidentFinite
    <3>2. CASE Delta(r) = -1 /\ e \in follows /\ follows' = follows \ {e}
      <4>1. /\ IsFiniteSet(follows \ {e})
            /\ Cardinality(Incident(follows \ {e}, i, u)) =
                 Cardinality(Incident(follows, i, u)) - (IF e[i] = u THEN 1 ELSE 0)
        BY <3>2, RemoveCounts
      <4>2. /\ Cardinality(Incident(follows, i, u)) \in Nat
            /\ Cardinality(Incident(follows \ {e}, i, u)) \in Nat
        BY <4>1, IncidentFinite
      <4>3. QED
        BY <3>2, <4>1, <4>2
    <3>3. QED
      BY <2>1, <3>1, <3>2
  <2>4. ASSUME NEW u \in User
        PROVE  /\ followersCount[u] = Cardinality(Incident(follows, 2, u))
               /\ followingCount[u] = Cardinality(Incident(follows, 1, u))
    BY DEF CountersMatch, FollowerRows, FollowingRows, Incident
  <2>5. ASSUME NEW u \in User
        PROVE  /\ followersCount'[u] = Cardinality(Incident(follows', 2, u))
               /\ followingCount'[u] = Cardinality(Incident(follows', 1, u))
    <3>1. /\ followersCount'[u] = followersCount[u] + (IF e[2] = u THEN Delta(r) ELSE 0)
          /\ followingCount'[u] = followingCount[u] + (IF e[1] = u THEN Delta(r) ELSE 0)
      BY <2>1, <2>2
    <3>2. QED
      BY <2>3, <2>4, <3>1
  <2>6. CountersMatch'
    BY <2>5 DEF CountersMatch, FollowerRows, FollowingRows, Incident
  <2>7. IsFiniteSet(follows')
    <3>1. CASE follows' = follows \union {e}
      BY <3>1, FS_AddElement
    <3>2. CASE follows' = follows \ {e}
      BY <3>2, FS_RemoveElement
    <3>3. QED
      BY <2>1, <3>1, <3>2
  <2>8. ASSUME NEW u \in User
        PROVE  followersCount'[u] \in Nat /\ followingCount'[u] \in Nat
    BY <2>3, <2>5
  <2>9. DOMAIN followersCount' = User /\ DOMAIN followingCount' = User
    BY <2>1, <2>2
  <2>10. /\ followersCount' = [u \in User |-> followersCount'[u]]
         /\ followingCount' = [u \in User |-> followingCount'[u]]
    BY <2>1, <2>2, <2>9
  <2>11. QED
    BY <2>6, <2>7, <2>8, <2>10
<1>3. QED
  BY <1>1, <1>2

LEMMA TypeOKStep ==
    ASSUME IInv, NEW r \in Req, CallStep(r)
    PROVE  TypeOK'
<1> USE DEF IInv
<1>1. followersCount' \in [User -> Nat] /\ followingCount' \in [User -> Nat]
  BY CountersStep
<1>2. follows' \subseteq {e \in User \X User : e[1] # e[2]}
  <2>1. CASE Commit(r)
    <3>1. /\ call[r] \in User \X User /\ call[r][1] # call[r][2]
          /\ follows' = follows \union {call[r]} \/ follows' = follows \ {call[r]}
      BY <2>1, CommitWrites
    <3>2. QED
      BY <3>1 DEF TypeOK
  <2>2. CASE ~Commit(r)
    BY <2>2, OnlyCommitWrites DEF TypeOK
  <2>3. QED
    BY <2>1, <2>2
<1>3. /\ notifs' \subseteq Req
      /\ old' \subseteq notifs'
      /\ pc' \in [Req -> Pc]
      /\ call' \in [Req -> (User \X Id) \union {NoCall}]
      /\ op' \in [Req -> {"none", "follow", "unfollow"}]
      /\ written' \in [Req -> [following : Int, followers : Int, doomed : SUBSET Req]]
  <2>0. NothingWritten \in [following : Int, followers : Int, doomed : SUBSET Req]
    BY DEF NothingWritten
  <2> USE DEF TypeOK, Goto, Pc, InTx, Final, tables
  <2>1. CASE Begin(r)
    <3>1. PICK e \in Asked : /\ call' = [call EXCEPT ![r] = e]
                             /\ Goto(r, IF e[1] = e[2] THEN "rejected" ELSE "read")
      BY <2>1 DEF Begin
    <3>2. e \in User \X Id
      BY <3>1, FollowsAssumption
    <3>3. call' \in [Req -> (User \X Id) \union {NoCall}]
      BY <3>1, <3>2
    <3>4. pc' \in [Req -> Pc]
      BY <3>1
    <3>5. QED
      BY <2>1, <3>3, <3>4 DEF Begin
  <2>2. CASE ReadFollow(r) \/ CheckFollow(r)
    BY <2>2 DEF ReadFollow, CheckFollow
  <2>3. CASE InsertFollow(r) \/ DeleteFollow(r)
    BY <2>3 DEF InsertFollow, DeleteFollow
  <2>4. CASE BumpFollower(r)
    <3>1. followingCount[call[r][1]] + Delta(r) \in Int
      BY <2>4 DEF BumpFollower, CallOK, Delta
    <3>2. QED
      BY <2>4, <3>1 DEF BumpFollower
  <2>5. CASE BumpFollowed(r)
    <3>1. followersCount[call[r][2]] + Delta(r) \in Int
      BY <2>5 DEF BumpFollowed, CallOK, Delta
    <3>2. QED
      BY <2>5, <3>1 DEF BumpFollowed
  <2>6. CASE ClearNotifs(r)
    BY <2>6 DEF ClearNotifs
  <2>7. CASE Commit(r)
    <3>1. notifs' \subseteq Req /\ old' \subseteq notifs'
      BY <2>7 DEF Commit
    <3>2. pc' \in [Req -> Pc]
      BY <2>7 DEF Commit
    <3>3. written' \in [Req -> [following : Int, followers : Int, doomed : SUBSET Req]]
      BY <2>0, <2>7 DEF Commit
    <3>4. call' = call /\ op' = op
      BY <2>7 DEF Commit
    <3>5. QED
      BY <3>1, <3>2, <3>3, <3>4
  <2>8. CASE FindDuplicate(r) \/ CreateNotif(r)
    BY <2>8 DEF FindDuplicate, CreateNotif
  <2>9. CASE DeadlockVictim(r) \/ Fail(r)
    <3>1. written' \in [Req -> [following : Int, followers : Int, doomed : SUBSET Req]]
      BY <2>0, <2>9 DEF DeadlockVictim, Fail
    <3>2. QED
      BY <2>9, <3>1 DEF DeadlockVictim, Fail
  <2>10. QED
    BY <2>1, <2>2, <2>3, <2>4, <2>5, <2>6, <2>7, <2>8, <2>9 DEF CallStep, Statement
<1>4. met' \subseteq User \X Id
  <2>1. CASE Begin(r)
    <3>1. PICK e \in Asked :
            met' = met \union {x \in {e} : \E q \in InFlight : call[q] = x}
      BY <2>1 DEF Begin
    <3>2. QED
      BY <3>1, FollowsAssumption DEF TypeOK
  <2>2. CASE ~Begin(r)
    <3>1. met' = met
      BY <2>2 DEF CallStep, Statement, ReadFollow, CheckFollow, InsertFollow, DeleteFollow,
         BumpFollower, BumpFollowed, ClearNotifs, Commit, FindDuplicate, CreateNotif,
         DeadlockVictim, Fail, tables
    <3>2. QED
      BY <3>1 DEF TypeOK
  <2>3. QED
    BY <2>1, <2>2
<1>5. QED
  BY <1>1, <1>2, <1>3, <1>4 DEF TypeOK

\* A day passing, or nothing happening, keeps the invariant.
LEMMA NoCallStep ==
    ASSUME IInv, Age \/ UNCHANGED vars
    PROVE  IInv'
<1>1. /\ UNCHANGED <<follows, followersCount, followingCount, notifs, met, pc, call, op, written>>
      /\ old' = old \/ old' = notifs
  BY DEF Age, vars, tables
<1>2. TypeOK'
  BY <1>1 DEF IInv, TypeOK
<1>3. CallOK' /\ EdgesExclusive' /\ WrittenOK' /\ RowStable'
  BY <1>1 DEF IInv, CallOK, EdgesExclusive, WrittenOK, RowStable, Delta
<1>4. UsersExclusive'
  BY <1>1 DEF IInv, UsersExclusive, LocksUser
<1>5. IsFiniteSet(follows') /\ CountersMatch'
  BY <1>1 DEF IInv, CountersMatch, FollowerRows, FollowingRows
<1>6. QED
  BY <1>2, <1>3, <1>4, <1>5 DEF IInv

LEMMA NextSplit ==
    [Next]_vars <=> (\E r \in Req : CallStep(r)) \/ Age \/ UNCHANGED vars \/ Quiescent
BY DEF Next, CallStep

LEMMA IInvStep == IInv /\ [Next]_vars => IInv'
<1>1. ASSUME IInv, NEW r \in Req, CallStep(r) PROVE IInv'
  BY <1>1, TypeOKStep, CountersStep, CallOKStep, EdgesExclusiveStep, UsersExclusiveStep,
     WrittenOKStep, RowStableStep DEF IInv
<1>2. QED
  BY <1>1, NoCallStep, NextSplit DEF Quiescent

LEMMA Invariance == Spec => []IInv
BY InitIInv, IInvStep, PTL DEF Spec

-----------------------------------------------------------------------------
(***************************************************************************)
(* The theorems.                                                            *)
(***************************************************************************)

\* Every reachable state is well typed; in particular no counter of a user is
\* ever negative, whatever calls of toggleFollow overlap, fail or deadlock.
THEOREM TypeCorrect == Spec => []TypeOK
<1>1. IInv => TypeOK
  BY DEF IInv
<1>2. QED
  BY <1>1, Invariance, PTL

\* followersCount and followingCount are always the lengths of the follower and
\* following lists, for any users and any overlap of calls.
THEOREM CountersAlwaysMatch == Spec => []CountersMatch
<1>1. IInv => CountersMatch
  BY DEF IInv
<1>2. QED
  BY <1>1, Invariance, PTL

\* The transactions of follow and unFollow always work on a row that is
\* respectively absent and present until they end.
THEOREM RowsAlwaysStable == Spec => []RowStable
<1>1. IInv => RowStable
  BY DEF IInv
<1>2. QED
  BY <1>1, Invariance, PTL

\* One statement of one call adds or removes at most one edge of the graph, with
\* both of its counters: FollowsService implements FollowGraph.
THEOREM ImplementsFollowGraph == Spec => FollowGraphSpec
<1>1. Init => FG!Init
  BY DEF Init, FG!Init
<1>2. IInv /\ [Next]_vars => [FG!Next]_(FG!vars)
  <2>1. ASSUME IInv, NEW r \in Req, CallStep(r)
        PROVE  [FG!Next]_(FG!vars)
    <3>1. CASE Commit(r)
      <4>1. /\ call[r] \in User \X User /\ call[r][1] # call[r][2]
            /\ followingCount' = [followingCount EXCEPT ![call[r][1]] = @ + Delta(r)]
            /\ followersCount' = [followersCount EXCEPT ![call[r][2]] = @ + Delta(r)]
            /\ \/ Delta(r) = 1 /\ call[r] \notin follows /\ follows' = follows \union {call[r]}
               \/ Delta(r) = -1 /\ call[r] \in follows /\ follows' = follows \ {call[r]}
        BY <2>1, <3>1, CommitWrites DEF IInv
      <4>2. call[r] \in FG!Edge
        BY <4>1 DEF FG!Edge
      <4>3. followingCount \in [User -> Nat] /\ followersCount \in [User -> Nat]
        BY <2>1 DEF IInv, TypeOK
      <4>4. CASE Delta(r) = 1 /\ call[r] \notin follows /\ follows' = follows \union {call[r]}
        <5>1. FG!AddEdge(call[r])
          BY <4>1, <4>4 DEF FG!AddEdge
        <5>2. QED
          BY <4>2, <5>1 DEF FG!Next
      <4>5. CASE Delta(r) = -1 /\ call[r] \in follows /\ follows' = follows \ {call[r]}
        <5>1. /\ followingCount[call[r][1]] + (-1) = followingCount[call[r][1]] - 1
              /\ followersCount[call[r][2]] + (-1) = followersCount[call[r][2]] - 1
          BY <4>1, <4>3
        <5>2. FG!RemoveEdge(call[r])
          BY <4>1, <4>5, <5>1 DEF FG!RemoveEdge
        <5>3. QED
          BY <4>2, <5>2 DEF FG!Next
      <4>6. QED
        BY <4>1, <4>4, <4>5
    <3>2. CASE ~Commit(r)
      BY <2>1, <3>2, OnlyCommitWrites DEF FG!vars
    <3>3. QED
      BY <3>1, <3>2
  <2>2. CASE Age \/ UNCHANGED vars \/ Quiescent
    BY <2>2 DEF Age, Quiescent, vars, tables, FG!vars
  <2>3. QED
    BY <2>1, <2>2, NextSplit
<1>3. QED
  BY <1>1, <1>2, Invariance, PTL DEF Spec, FollowGraphSpec, FG!Spec

-----------------------------------------------------------------------------
(***************************************************************************)
(* The FOLLOW notifications, which are created after the transaction they    *)
(* tell about has committed and outside it.                                  *)
(***************************************************************************)
\* A notification was created by a call that has ended since, so the pair it is
\* about no longer changes.
NotifsAreDone == \A n \in notifs : pc[n] = "done"

\* Only an unfollow about to commit has removed notifications, of its own pair.
DoomedOK ==
    \A r \in Req :
        /\ pc[r] = "clear" => op[r] = "unfollow"
        /\ \A n \in written[r].doomed :
             pc[r] = "commit" /\ op[r] = "unfollow" /\ pc[n] = "done" /\ call[n] = call[r]

\* Two calls in flight for one pair have met.
MetWhenTwo ==
    \A q, r \in InFlight : q # r /\ call[q] = call[r] => call[r] \in met

\* What a call that has met no other of its pair may rely on between two of its
\* statements: its first reading still holds, the follow it has committed is
\* still there and not told yet, and no notification came after its deleteMany.
Undisturbed ==
    \A r \in Req : call[r] \notin met =>
        /\ pc[r] \in {"check", "insert"} => call[r] \notin follows
        /\ pc[r] \in {"notify", "create"} =>
             call[r] \in follows /\ \A n \in notifs : call[n] # call[r]
        /\ pc[r] = "commit" /\ op[r] = "unfollow" =>
             \A n \in notifs : call[n] = call[r] => n \in written[r].doomed

\* The inductive invariant, on top of that of the counters.
NInv ==
    /\ NotifsAreDone
    /\ DoomedOK
    /\ MetWhenTwo
    /\ Undisturbed
    /\ FollowedImpliesNotified
    /\ NotificationsTrackFollows

LEMMA InitNInv == Init => NInv
BY DEF Init, NInv, NotifsAreDone, DoomedOK, MetWhenTwo, Undisturbed, InFlight, NothingWritten,
       FollowedImpliesNotified, NotificationsTrackFollows

-----------------------------------------------------------------------------
(***************************************************************************)
(* What a step does to the notifications, for all the parts.                 *)
(***************************************************************************)

\* Only a commit removes notifications, and only CreateNotif adds one.
LEMMA NotifsOnlyBy ==
    ASSUME NEW r \in Req, CallStep(r)
    PROVE  \/ notifs' = notifs
           \/ Commit(r) /\ notifs' = notifs \ written[r].doomed
           \/ CreateNotif(r) /\ notifs' = notifs \union {r}
BY DEF CallStep, Begin, Statement, DeadlockVictim, Fail, ReadFollow, CheckFollow,
       InsertFollow, DeleteFollow, BumpFollower, BumpFollowed, ClearNotifs, Commit,
       FindDuplicate, CreateNotif, tables

\* A call keeps its pair from the moment it begins, and met changes only then.
LEMMA PairsKept ==
    ASSUME NEW r \in Req, CallStep(r)
    PROVE  \/ Begin(r) /\ pc[r] = "idle" /\ met \subseteq met'
           \/ pc[r] \notin {"idle", "done"} /\ call' = call /\ met' = met
BY DEF CallStep, Begin, Statement, DeadlockVictim, Fail, ReadFollow, CheckFollow,
       InsertFollow, DeleteFollow, BumpFollower, BumpFollowed, ClearNotifs, Commit,
       FindDuplicate, CreateNotif, tables, Deadlocked, WaitsFor, InFlight, Final

\* A call that is in flight after a step was in flight before it or begins.
LEMMA InFlightStep ==
    ASSUME TypeOK, NEW r \in Req, CallStep(r)
    PROVE  InFlight' \subseteq InFlight \union {r}
BY OthersUnchanged DEF InFlight

LEMMA NotifsAreDoneStep ==
    ASSUME TypeOK, NotifsAreDone, NEW r \in Req, CallStep(r)
    PROVE  NotifsAreDone'
<1> SUFFICES ASSUME NEW n \in notifs' PROVE pc'[n] = "done"
  BY DEF NotifsAreDone
<1>1. CASE n = r /\ CreateNotif(r)
  BY <1>1 DEF CreateNotif, Goto, TypeOK
<1>2. CASE n \in notifs
  <2>1. n \in Req /\ pc[n] = "done"
    BY <1>2 DEF NotifsAreDone, TypeOK
  <2>2. n # r
    BY <2>1, PairsKept
  <2>3. QED
    BY <2>1, <2>2, OthersUnchanged
<1>3. QED
  BY <1>1, <1>2, NotifsOnlyBy

LEMMA DoomedOKStep ==
    ASSUME IInv, NInv, NEW r \in Req, CallStep(r)
    PROVE  DoomedOK'
<1> USE DEF DoomedOK
<1> SUFFICES ASSUME NEW q \in Req
             PROVE  /\ pc'[q] = "clear" => op'[q] = "unfollow"
                    /\ \A n \in written'[q].doomed :
                         /\ pc'[q] = "commit" /\ op'[q] = "unfollow"
                         /\ pc'[n] = "done" /\ call'[n] = call'[q]
  OBVIOUS
<1>1. TypeOK /\ CallOK /\ DoomedOK /\ NotifsAreDone
  BY DEF IInv, NInv
<1>2. ASSUME NEW n \in Req, pc[n] = "done"
      PROVE  n # r /\ pc'[n] = "done" /\ call'[n] = call[n]
  BY <1>1, <1>2, PairsKept, OthersUnchanged
<1>3. ASSUME NEW n \in written[q].doomed PROVE n \in Req
  BY <1>1 DEF TypeOK
<1>4. CASE q # r
  BY <1>1, <1>2, <1>3, <1>4, OthersUnchanged
<1>5. CASE q = r /\ ClearNotifs(r)
  <2>1. /\ written'[r].doomed = {n \in notifs : call[n] = call[r]}
        /\ pc'[r] = "commit" /\ op' = op /\ pc[r] = "clear" /\ call' = call
    BY <1>1, <1>5 DEF ClearNotifs, Goto, TypeOK, tables
  <2>2. \A n \in notifs : n \in Req /\ pc[n] = "done"
    BY <1>1 DEF NotifsAreDone, TypeOK
  <2>3. QED
    BY <1>1, <1>2, <1>5, <2>1, <2>2
<1>6. CASE q = r /\ (Commit(r) \/ DeadlockVictim(r) \/ Fail(r))
  <2>1. written'[r] = NothingWritten /\ pc'[r] \in {"notify", "done", "failed", "lost"}
    BY <1>1, <1>6 DEF Commit, DeadlockVictim, Fail, Goto, TypeOK
  <2>2. QED
    BY <1>6, <2>1 DEF NothingWritten
<1>7. CASE q = r /\ (BumpFollower(r) \/ BumpFollowed(r))
  <2>1. /\ written'[r].doomed = written[r].doomed
        /\ pc[r] \in {"bumpFollower", "bumpFollowed"}
        /\ op' = op
        /\ pc'[r] = "clear" => op[r] # "follow"
    BY <1>1, <1>7 DEF BumpFollower, BumpFollowed, Goto, TypeOK
  <2>2. pc[r] \in InTx => op[r] \in {"follow", "unfollow"}
    BY <1>1 DEF CallOK
  <2>3. QED
    BY <1>1, <1>7, <2>1, <2>2 DEF InTx
<1>8. CASE q = r /\ ~(ClearNotifs(r) \/ Commit(r) \/ DeadlockVictim(r) \/ Fail(r)
                        \/ BumpFollower(r) \/ BumpFollowed(r))
  <2>1. written' = written /\ pc[r] # "commit" /\ pc'[r] # "clear"
    BY <1>1, <1>8 DEF CallStep, Begin, Statement, ReadFollow, CheckFollow, InsertFollow,
       DeleteFollow, FindDuplicate, CreateNotif, Goto, TypeOK
  <2>2. QED
    BY <1>1, <1>8, <2>1
<1>9. QED
  BY <1>4, <1>5, <1>6, <1>7, <1>8

LEMMA MetWhenTwoStep ==
    ASSUME TypeOK, MetWhenTwo, NEW r \in Req, CallStep(r)
    PROVE  MetWhenTwo'
<1> USE DEF MetWhenTwo
<1> SUFFICES ASSUME NEW p \in InFlight', NEW q \in InFlight', p # q, call'[p] = call'[q]
             PROVE  call'[q] \in met'
  OBVIOUS
<1>1. InFlight \subseteq Req /\ InFlight' \subseteq InFlight \union {r}
  BY InFlightStep DEF InFlight
<1>2. CASE ~Begin(r)
  <2>1. pc[r] # "idle" /\ call' = call /\ met' = met
    BY <1>2, PairsKept
  <2>2. pc[r] \notin Final
    BY <1>2 DEF CallStep, Statement, ReadFollow, CheckFollow, InsertFollow, DeleteFollow,
       BumpFollower, BumpFollowed, ClearNotifs, Commit, FindDuplicate, CreateNotif,
       DeadlockVictim, Fail, Deadlocked, WaitsFor, InFlight, Final
  <2>3. r \in InFlight
    BY <2>1, <2>2 DEF InFlight
  <2>4. QED
    BY <1>1, <2>1, <2>3
<1>3. CASE Begin(r)
  <2>1. PICK e \in Asked :
          /\ call' = [call EXCEPT ![r] = e]
          /\ met' = met \union {x \in {e} : \E k \in InFlight : call[k] = x}
    BY <1>3 DEF Begin
  <2>2. call'[r] = e
    BY <2>1 DEF TypeOK
  <2>3. ASSUME NEW k \in InFlight', k # r
        PROVE  k \in InFlight /\ call'[k] = call[k]
    BY <1>1, <2>3, OthersUnchanged
  <2>4. CASE p = r \/ q = r
    BY <2>1, <2>2, <2>3, <2>4
  <2>5. CASE p # r /\ q # r
    BY <2>1, <2>3, <2>5
  <2>6. QED
    BY <2>4, <2>5
<1>4. QED
  BY <1>2, <1>3

LEMMA FollowedImpliesNotifiedStep ==
    ASSUME IInv, NInv, NEW r \in Req, CallStep(r)
    PROVE  FollowedImpliesNotified'
<1>1. /\ TypeOK /\ CallOK /\ RowStable /\ NotifsAreDone /\ DoomedOK
      /\ FollowedImpliesNotified
  BY DEF IInv, NInv
<1> SUFFICES ASSUME NEW e \in follows'
             PROVE  \/ \E n \in notifs' : call'[n] = e
                    \/ \E q \in Req : call'[q] = e /\ pc'[q] \in {"notify", "create", "lost"}
  BY DEF FollowedImpliesNotified
<1>2. ASSUME NEW n \in notifs, ~(Commit(r) /\ n \in written[r].doomed)
      PROVE  n \in notifs' /\ call'[n] = call[n]
  <2>1. n \in Req /\ pc[n] = "done"
    BY <1>1 DEF NotifsAreDone, TypeOK
  <2>2. n # r
    BY <2>1, PairsKept
  <2>3. QED
    BY <1>1, <1>2, <2>1, <2>2, NotifsOnlyBy, OthersUnchanged
<1>3. CASE e = call[r] /\ Commit(r)
  <2>1. op[r] = "follow" /\ pc'[r] = "notify" /\ call' = call
    BY <1>1, <1>3 DEF Commit, Goto, TypeOK
  <2>2. QED
    BY <1>3, <2>1
<1>4. CASE ~(e = call[r] /\ Commit(r))
  <2>1. e \in follows
    BY <1>4, OnlyCommitWrites DEF Commit
  <2>2. CASE \E n \in notifs : call[n] = e
    <3>1. PICK n \in notifs : call[n] = e
      BY <2>2
    <3>2. ~(Commit(r) /\ n \in written[r].doomed)
      BY <1>1, <1>4, <3>1 DEF DoomedOK
    <3>3. QED
      BY <1>2, <3>1, <3>2
  <2>3. CASE \E q \in Req : call[q] = e /\ pc[q] \in {"notify", "create", "lost"}
    <3>1. PICK q \in Req : call[q] = e /\ pc[q] \in {"notify", "create", "lost"}
      BY <2>3
    <3>2. CASE q # r
      BY <1>1, <3>1, <3>2, OthersUnchanged
    <3>3. CASE q = r /\ FindDuplicate(r)
      <4>1. /\ call' = call /\ notifs' = notifs
            /\ \/ pc'[r] = "create"
               \/ \E n \in notifs \ old : call[n] = call[r]
        BY <1>1, <3>3 DEF FindDuplicate, Goto, TypeOK, tables
      <4>2. QED
        BY <3>1, <3>3, <4>1
    <3>4. CASE q = r /\ CreateNotif(r)
      <4>1. call' = call /\ notifs' = notifs \union {r}
        BY <3>4 DEF CreateNotif
      <4>2. QED
        BY <3>1, <3>4, <4>1
    <3>5. CASE q = r /\ ~FindDuplicate(r) /\ ~CreateNotif(r)
      <4>1. call' = call /\ pc'[r] = "lost"
        BY <1>1, <3>1, <3>5 DEF CallStep, Begin, Statement, ReadFollow, CheckFollow,
           InsertFollow, DeleteFollow, BumpFollower, BumpFollowed, ClearNotifs, Commit,
           DeadlockVictim, Deadlocked, WaitsFor, Fail, InFlight, Final, Goto, TypeOK, tables
      <4>2. QED
        BY <3>1, <3>5, <4>1
    <3>6. QED
      BY <3>2, <3>3, <3>4, <3>5
  <2>4. QED
    BY <1>1, <2>1, <2>2, <2>3 DEF FollowedImpliesNotified
<1>5. QED
  BY <1>3, <1>4

\* Another call of the pair of a call in flight, in flight as well: the pair has met.
LEMMA AloneOrMet ==
    ASSUME MetWhenTwo, NEW q \in Req, NEW r \in Req, q # r, call[q] = call[r],
           call[r] \notin met, pc[r] \notin Final \union {"idle"}
    PROVE  pc[q] \in Final \union {"idle"}
BY DEF MetWhenTwo, InFlight

LEMMA UndisturbedStep ==
    ASSUME IInv, NInv, NEW r \in Req, CallStep(r)
    PROVE  Undisturbed'
<1>1. /\ TypeOK /\ CallOK /\ RowStable /\ NotifsAreDone /\ DoomedOK
      /\ MetWhenTwo /\ Undisturbed /\ NotificationsTrackFollows
  BY DEF IInv, NInv
<1> SUFFICES ASSUME NEW q \in Req, call'[q] \notin met'
             PROVE  /\ pc'[q] \in {"check", "insert"} => call'[q] \notin follows'
                    /\ pc'[q] \in {"notify", "create"} =>
                         call'[q] \in follows' /\ \A n \in notifs' : call'[n] # call'[q]
                    /\ pc'[q] = "commit" /\ op'[q] = "unfollow" =>
                         \A n \in notifs' : call'[n] = call'[q] => n \in written'[q].doomed
  BY DEF Undisturbed
<1>2. ASSUME NEW n \in notifs
      PROVE  n \in Req /\ n # r /\ call'[n] = call[n]
  <2>1. n \in Req /\ pc[n] = "done"
    BY <1>1 DEF NotifsAreDone, TypeOK
  <2>2. QED
    BY <1>1, <2>1, PairsKept, OthersUnchanged
<1>3. CASE q # r
  <2>1. /\ pc'[q] = pc[q] /\ call'[q] = call[q] /\ op'[q] = op[q] /\ written'[q] = written[q]
        /\ call[q] \notin met
    BY <1>1, <1>3, OthersUnchanged, PairsKept
  <2>2. CASE pc[q] \in Final \union {"idle"}
    BY <2>1, <2>2 DEF Final
  <2>3. CASE pc[q] \notin Final \union {"idle"} /\ call[r] = call[q] /\ ~Begin(r)
    <3>1. pc[r] \in Final \union {"idle"}
      BY <1>1, <1>3, <2>1, <2>3, AloneOrMet
    <3>2. FALSE
      BY <2>3, <3>1 DEF CallStep, Statement, ReadFollow, CheckFollow, InsertFollow,
         DeleteFollow, BumpFollower, BumpFollowed, ClearNotifs, Commit, FindDuplicate,
         CreateNotif, DeadlockVictim, Fail, Deadlocked, WaitsFor, InFlight, Final
    <3>3. QED
      BY <3>2
  <2>4. CASE pc[q] \notin Final \union {"idle"} /\ (call[r] # call[q] \/ Begin(r))
    <3>1. call[q] \in follows' <=> call[q] \in follows
      BY <2>4, OnlyCommitWrites, PairsKept DEF Commit, Begin
    <3>2. ASSUME NEW n \in notifs', call'[n] = call[q]
          PROVE  n \in notifs /\ call[n] = call[q]
      <4>1. CASE n \notin notifs
        <5>1. CreateNotif(r) /\ n = r
          BY <3>2, <4>1, NotifsOnlyBy
        <5>2. call' = call /\ ~Begin(r)
          BY <5>1 DEF CreateNotif, Begin
        <5>3. QED
          BY <2>4, <3>2, <5>1, <5>2
      <4>2. QED
        BY <1>2, <3>2, <4>1
    <3>3. QED
      BY <1>1, <2>1, <3>1, <3>2 DEF Undisturbed
  <2>5. QED
    BY <2>2, <2>3, <2>4
<1>4. CASE q = r /\ Begin(r)
  <2>1. pc'[r] \in {"read", "rejected"}
    BY <1>1, <1>4 DEF Begin, Goto, TypeOK
  <2>2. QED
    BY <1>4, <2>1
<1>5. CASE q = r /\ ~Begin(r)
  <2>1. call' = call /\ met' = met /\ call[r] \notin met
    BY <1>5, PairsKept
  <2>2. CASE ReadFollow(r) \/ CheckFollow(r)
    <3>1. /\ follows' = follows
          /\ pc'[r] \in {"check", "insert"} => call[r] \notin follows
          /\ pc'[r] \in {"check", "insert", "delete", "rejected"}
      BY <1>1, <2>2 DEF ReadFollow, CheckFollow, Goto, TypeOK, tables
    <3>2. QED
      BY <1>5, <2>1, <3>1
  <2>3. CASE Commit(r)
    <3>1. /\ op[r] = "follow" /\ pc'[r] = "notify" /\ follows' = follows \union {call[r]}
          \/ pc'[r] = "done"
      BY <1>1, <2>3 DEF Commit, Goto, TypeOK
    <3>2. op[r] = "follow" => call[r] \notin follows
      BY <1>1, <2>3 DEF RowStable, Commit, InTx
    <3>3. notifs' \subseteq notifs
      BY <2>3 DEF Commit
    <3>4. op[r] = "follow" => \A n \in notifs : call[n] # call[r]
      BY <1>1, <2>1, <3>2 DEF NotificationsTrackFollows
    <3>5. QED
      BY <1>5, <2>1, <3>1, <3>3, <3>4
  <2>4. CASE FindDuplicate(r)
    <3>1. /\ pc[r] = "notify" /\ notifs' = notifs /\ follows' = follows
          /\ pc'[r] \in {"done", "create"}
      BY <1>1, <2>4 DEF FindDuplicate, Goto, TypeOK, tables
    <3>2. QED
      BY <1>1, <1>5, <2>1, <3>1 DEF Undisturbed
  <2>5. CASE ClearNotifs(r)
    <3>1. /\ pc'[r] = "commit" /\ notifs' = notifs
          /\ written'[r].doomed = {n \in notifs : call[n] = call[r]}
      BY <1>1, <2>5 DEF ClearNotifs, Goto, TypeOK, tables
    <3>2. QED
      BY <1>5, <2>1, <3>1
  <2>6. CASE BumpFollowed(r)
    <3>1. pc'[r] = (IF op[r] = "follow" THEN "commit" ELSE "clear") /\ op' = op
      BY <1>1, <2>6 DEF BumpFollowed, Goto, TypeOK
    <3>2. QED
      BY <1>5, <3>1
  <2>7. CASE InsertFollow(r) \/ DeleteFollow(r) \/ BumpFollower(r) \/ CreateNotif(r)
               \/ DeadlockVictim(r) \/ Fail(r)
    <3>1. pc'[r] \notin {"check", "insert", "notify", "create", "commit"}
      BY <1>1, <2>7 DEF InsertFollow, DeleteFollow, BumpFollower, CreateNotif,
         DeadlockVictim, Fail, Goto, TypeOK
    <3>2. QED
      BY <1>5, <3>1
  <2>8. QED
    BY <1>5, <2>2, <2>3, <2>4, <2>5, <2>6, <2>7 DEF CallStep, Statement
<1>6. QED
  BY <1>3, <1>4, <1>5

LEMMA NotificationsTrackFollowsStep ==
    ASSUME IInv, NInv, NEW r \in Req, CallStep(r)
    PROVE  NotificationsTrackFollows'
<1>1. /\ TypeOK /\ NotifsAreDone /\ Undisturbed /\ MetWhenTwo /\ NotificationsTrackFollows
  BY DEF IInv, NInv
<1> SUFFICES ASSUME NEW n \in notifs', call'[n] \notin met'
             PROVE  /\ call'[n] \in follows'
                    /\ \A m \in notifs' : call'[m] = call'[n] => m = n
  BY DEF NotificationsTrackFollows
<1>2. ASSUME NEW k \in notifs
      PROVE  k \in Req /\ k # r /\ call'[k] = call[k]
  <2>1. k \in Req /\ pc[k] = "done"
    BY <1>1 DEF NotifsAreDone, TypeOK
  <2>2. QED
    BY <1>1, <2>1, PairsKept, OthersUnchanged
<1>3. met \subseteq met'
  BY PairsKept
<1>4. CASE CreateNotif(r)
  <2>1. /\ notifs' = notifs \union {r} /\ follows' = follows /\ call' = call /\ met' = met
        /\ pc[r] = "create"
    BY <1>4 DEF CreateNotif
  <2>2. call[r] \notin met => call[r] \in follows /\ \A k \in notifs : call[k] # call[r]
    BY <1>1, <2>1 DEF Undisturbed
  <2>3. QED
    BY <1>1, <2>1, <2>2 DEF NotificationsTrackFollows
<1>5. CASE Commit(r)
  <2>1. /\ notifs' = notifs \ written[r].doomed /\ call' = call /\ pc[r] = "commit"
        /\ \/ op[r] = "follow" /\ follows' = follows \union {call[r]}
           \/ op[r] # "follow" /\ follows' = follows \ {call[r]}
    BY <1>5 DEF Commit
  <2>2. op[r] \in {"follow", "unfollow"}
    BY <1>1, <2>1 DEF IInv, CallOK, InTx
  <2>3. n \in notifs /\ call[n] \notin met /\ call[n] \in follows
    BY <1>1, <1>3, <2>1 DEF NotificationsTrackFollows
  <2>4. op[r] = "unfollow" => call[n] # call[r]
    BY <1>1, <2>1, <2>3 DEF Undisturbed
  <2>5. QED
    BY <1>1, <2>1, <2>2, <2>3, <2>4 DEF NotificationsTrackFollows
<1>6. CASE ~CreateNotif(r) /\ ~Commit(r)
  <2>1. notifs' = notifs /\ follows' = follows
    BY <1>6, NotifsOnlyBy, OnlyCommitWrites
  <2>2. QED
    BY <1>1, <1>2, <1>3, <2>1 DEF NotificationsTrackFollows
<1>7. QED
  BY <1>4, <1>5, <1>6

LEMMA NInvStep == IInv /\ NInv /\ [Next]_vars => NInv'
<1>1. ASSUME IInv, NInv, NEW r \in Req, CallStep(r) PROVE NInv'
  BY <1>1, NotifsAreDoneStep, DoomedOKStep, MetWhenTwoStep, UndisturbedStep,
     FollowedImpliesNotifiedStep, NotificationsTrackFollowsStep DEF NInv, IInv
<1>2. ASSUME NInv, Age \/ UNCHANGED vars PROVE NInv'
  <2>1. UNCHANGED <<follows, notifs, met, pc, call, op, written>>
    BY <1>2 DEF Age, vars, tables
  <2>2. QED
    BY <1>2, <2>1 DEF NInv, NotifsAreDone, DoomedOK, MetWhenTwo, Undisturbed, InFlight,
       FollowedImpliesNotified, NotificationsTrackFollows
<1>3. QED
  BY <1>1, <1>2, NextSplit DEF Quiescent

LEMMA NotifInvariance == Spec => []NInv
<1>1. IInv /\ IInv' /\ NInv /\ [Next]_vars => NInv'
  BY NInvStep
<1>2. QED
  BY <1>1, InitNInv, Invariance, PTL DEF Spec

-----------------------------------------------------------------------------
(***************************************************************************)
(* The theorems.                                                            *)
(***************************************************************************)

\* Whoever is followed has been told, is about to be, or the call stopped between
\* its commit and its notification: for any users and any overlap of calls.
THEOREM FollowsAreTold == Spec => []FollowedImpliesNotified
<1>1. NInv => FollowedImpliesNotified
  BY DEF NInv
<1>2. QED
  BY <1>1, NotifInvariance, PTL

\* A pair of which no two calls have overlapped has one FOLLOW notification at most,
\* and none once the follow is gone, whatever the calls of other pairs do.
THEOREM NotificationsFollowTheRows == Spec => []NotificationsTrackFollows
<1>1. NInv => NotificationsTrackFollows
  BY DEF NInv
<1>2. QED
  BY <1>1, NotifInvariance, PTL
=============================================================================
