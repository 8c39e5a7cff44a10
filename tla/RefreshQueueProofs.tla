------------------------ MODULE RefreshQueueProofs ------------------------
(***************************************************************************)
(* Proofs about RefreshQueue, for any number of requests, any number of      *)
(* expiries, and with or without failures.                                   *)
(***************************************************************************)
EXTENDS RefreshQueue, TLAPS

RefreshPc == {"refreshing", "refreshOk", "refreshErr"}

\* A request is sent once before it is marked, and once more after it has
\* waited for a refresh.
SendsInv ==
    \A r \in Req :
        /\ sends[r] <= 2
        /\ r \notin retry => sends[r] <= 1
        /\ pc[r] = "new" => sends[r] = 0 /\ r \notin retry
        /\ pc[r] \in {"queued"} \union RefreshPc => sends[r] <= 1 /\ r \in retry

\* The inductive invariant.
IInv == TypeOK /\ SingleRefresh /\ NobodyStranded /\ SendsInv

LEMMA InitIInv == Init => IInv
<1> SUFFICES ASSUME Init PROVE IInv
  OBVIOUS
<1>1. TypeOK
  <2>1. expiries \in 0..MaxExpiries
    BY RefreshQueueAssumption DEF Init
  <2>2. SentTwiceAtMost
    BY DEF Init, SentTwiceAtMost
  <2>3. QED
    BY <2>1, <2>2 DEF Init, TypeOK
<1>2. SendsInv
  BY DEF Init, SendsInv, RefreshPc
<1>3. Refreshing = {} /\ {r \in Req : pc[r] = "queued"} = {}
  BY DEF Init, Refreshing
<1>4. SingleRefresh /\ NobodyStranded
  BY <1>3 DEF Init, SingleRefresh, NobodyStranded
<1>5. QED
  BY <1>1, <1>2, <1>4 DEF IInv

\* A turn or an answer of one request.
ReqStep(r) == Send(r) \/ Server(r) \/ Interceptor(r)

\* Turns that begin or end no refresh and put nobody into the queue.
Plain(r) ==
    Send(r) \/ Answer(r) \/ AnswerError(r) \/ OnOther(r) \/ OnFinal401(r)

\* Answers to a refresh.
RefreshAnswered(r) == AnswerRefresh(r) \/ AnswerRefreshError(r)

LEMMA StepKinds ==
    ASSUME NEW r \in Req, ReqStep(r)
    PROVE  \/ Plain(r) \/ RefreshAnswered(r) \/ OnQueue(r) \/ OnRefresh(r)
           \/ OnRefreshed(r) \/ OnRefreshFailed(r)
BY DEF ReqStep, Server, Interceptor, Plain, RefreshAnswered

LEMMA SendsStep ==
    ASSUME IInv, NEW r \in Req, ReqStep(r)
    PROVE  SendsInv'
<1> USE DEF IInv, TypeOK, Goto, SendsInv, RefreshPc
<1>1. CASE Send(r)
  BY <1>1 DEF Send, SendAll
<1>2. CASE Plain(r) /\ ~Send(r)
  BY <1>2 DEF Plain, Answer, AnswerError, OnOther, OnFinal401
<1>3. CASE RefreshAnswered(r)
  BY <1>3 DEF RefreshAnswered, AnswerRefresh, AnswerRefreshError
<1>4. CASE OnQueue(r)
  BY <1>4 DEF OnQueue
<1>5. CASE OnRefresh(r)
  BY <1>5 DEF OnRefresh
<1>6. CASE OnRefreshed(r)
  <2>1. \A q \in queue \union {r} : q \in Req /\ sends[q] <= 1 /\ q \in retry
    BY <1>6 DEF OnRefreshed, NobodyStranded
  <2>2. /\ retry' = retry
        /\ \A q \in queue \union {r} : sends'[q] = sends[q] + 1 /\ pc'[q] = "sent"
        /\ \A q \in Req \ (queue \union {r}) : sends'[q] = sends[q] /\ pc'[q] = pc[q]
    BY <1>6, <2>1 DEF OnRefreshed, SendAll
  <2>3. QED
    BY <2>1, <2>2
<1>7. CASE OnRefreshFailed(r)
  BY <1>7 DEF OnRefreshFailed
<1>8. QED
  BY <1>1, <1>2, <1>3, <1>4, <1>5, <1>6, <1>7, StepKinds

LEMMA TypeStep ==
    ASSUME IInv, NEW r \in Req, ReqStep(r)
    PROVE  TypeOK'
<1>0. SentTwiceAtMost'
  BY SendsStep DEF SendsInv, SentTwiceAtMost
<1> USE <1>0 DEF IInv, TypeOK, Waiting, Arrived, Settled, Goto, SendAll
<1>1. CASE Plain(r)
  <2>1. trouble' = TRUE \/ UNCHANGED trouble
    BY <1>1 DEF Plain, Send, Answer, AnswerError, OnOther, OnFinal401
  <2>2. trouble' \in BOOLEAN
    BY <2>1
  <2>3. CASE AnswerError(r)
    BY <2>2, <2>3 DEF AnswerError
  <2>4. CASE Send(r) \/ Answer(r) \/ OnOther(r) \/ OnFinal401(r)
    BY <2>4 DEF Send, Answer, OnOther, OnFinal401
  <2> QED BY <1>1, <2>3, <2>4 DEF Plain
<1>2. CASE RefreshAnswered(r)
  <2>1. CASE AnswerRefresh(r)
    BY <2>1 DEF AnswerRefresh
  <2>2. CASE AnswerRefreshError(r)
    <3>1. trouble' \in BOOLEAN
      BY <2>2 DEF AnswerRefreshError
    <3> QED BY <2>2, <3>1 DEF AnswerRefreshError
  <2> QED BY <1>2, <2>1, <2>2 DEF RefreshAnswered
<1>3. CASE OnQueue(r)
  BY <1>3 DEF OnQueue
<1>4. CASE OnRefresh(r)
  BY <1>4 DEF OnRefresh
<1>5. CASE OnRefreshed(r)
  <2>1. pc' \in [Req -> {"new"} \union Waiting \union Arrived \union Settled]
    BY <1>5 DEF OnRefreshed
  <2>2. sends' \in [Req -> Nat]
    BY <1>5 DEF OnRefreshed
  <2>3. carries' \subseteq Req
    BY <1>5 DEF OnRefreshed
  <2>4. /\ isRefreshing' = FALSE /\ queue' = {}
        /\ UNCHANGED <<retry, token, expiries, trouble>>
    BY <1>5 DEF OnRefreshed
  <2>5. QED
    BY <2>1, <2>2, <2>3, <2>4
<1>6. CASE OnRefreshFailed(r)
  BY <1>6 DEF OnRefreshFailed
<1>7. QED
  BY <1>1, <1>2, <1>3, <1>4, <1>5, <1>6, StepKinds

\* The set of refreshing requests and the queue change together.
LEMMA QueueStep ==
    ASSUME IInv, NEW r \in Req, ReqStep(r)
    PROVE  SingleRefresh' /\ NobodyStranded'
<1> USE DEF IInv, TypeOK, Goto
<1>1. CASE Plain(r)
  <2>1. /\ pc[r] \notin {"queued"} \union RefreshPc
        /\ pc'[r] \notin {"queued"} \union RefreshPc
        /\ \A q \in Req : q # r => pc'[q] = pc[q]
        /\ UNCHANGED <<isRefreshing, queue>>
    BY <1>1 DEF Plain, Send, SendAll, Answer, AnswerError, OnOther, OnFinal401, RefreshPc
  <2>2. QED
    BY <2>1 DEF SingleRefresh, NobodyStranded, Refreshing, RefreshPc
<1>2. CASE RefreshAnswered(r)
  <2>1. /\ pc[r] \in RefreshPc /\ pc'[r] \in RefreshPc
        /\ \A q \in Req : q # r => pc'[q] = pc[q]
        /\ UNCHANGED <<isRefreshing, queue>>
    BY <1>2 DEF RefreshAnswered, AnswerRefresh, AnswerRefreshError, RefreshPc
  <2>2. QED
    BY <2>1 DEF SingleRefresh, NobodyStranded, Refreshing, RefreshPc
<1>3. CASE OnQueue(r)
  <2>1. /\ pc[r] = "401" /\ pc'[r] = "queued" /\ queue' = queue \union {r}
        /\ \A q \in Req : q # r => pc'[q] = pc[q]
        /\ isRefreshing /\ isRefreshing' = isRefreshing
    BY <1>3 DEF OnQueue
  <2>2. Refreshing' = Refreshing
    BY <2>1 DEF Refreshing
  <2>3. QED
    BY <2>1, <2>2 DEF SingleRefresh, NobodyStranded
<1>4. CASE OnRefresh(r)
  <2>1. /\ pc[r] = "401" /\ pc'[r] = "refreshing" /\ queue' = queue
        /\ \A q \in Req : q # r => pc'[q] = pc[q]
        /\ ~isRefreshing /\ isRefreshing'
    BY <1>4 DEF OnRefresh
  <2>2. Refreshing = {} /\ Refreshing' = {r}
    BY <2>1 DEF Refreshing, SingleRefresh
  <2>3. QED
    BY <2>1, <2>2 DEF SingleRefresh, NobodyStranded
<1>5. CASE OnRefreshed(r) \/ OnRefreshFailed(r)
  <2>1. /\ r \in Refreshing
        /\ ~isRefreshing' /\ queue' = {}
        /\ \A q \in queue \union {r} : pc'[q] \in {"sent", "rejected"}
        /\ \A q \in Req \ (queue \union {r}) : pc'[q] = pc[q]
    BY <1>5 DEF OnRefreshed, OnRefreshFailed, SendAll, Refreshing
  <2>2. Refreshing' = {}
    BY <2>1 DEF SingleRefresh, Refreshing
  <2>3. {q \in Req : pc'[q] = "queued"} = {}
    BY <2>1 DEF NobodyStranded
  <2>4. QED
    BY <2>1, <2>2, <2>3 DEF SingleRefresh, NobodyStranded
<1>6. QED
  BY <1>1, <1>2, <1>3, <1>4, <1>5, StepKinds

LEMMA IInvStep == IInv /\ [Next]_vars => IInv'
<1>1. ASSUME IInv, NEW r \in Req, ReqStep(r)
      PROVE  IInv'
  BY <1>1, TypeStep, QueueStep, SendsStep DEF IInv
<1>2. ASSUME IInv, Expire
      PROVE  IInv'
  <2>1. /\ UNCHANGED <<pc, retry, sends, isRefreshing, queue, trouble>>
        /\ token' = FALSE /\ carries' = {}
        /\ expiries' = expiries + 1 /\ expiries < MaxExpiries
    BY <1>2 DEF Expire
  <2>2. expiries' \in 0..MaxExpiries
    BY <1>2, <2>1, RefreshQueueAssumption DEF IInv, TypeOK
  <2>3. TypeOK'
    BY <1>2, <2>1, <2>2 DEF IInv, TypeOK, SentTwiceAtMost
  <2>4. Refreshing' = Refreshing
    BY <2>1 DEF Refreshing
  <2>5. SingleRefresh' /\ NobodyStranded' /\ SendsInv'
    BY <1>2, <2>1, <2>4 DEF IInv, SingleRefresh, NobodyStranded, SendsInv
  <2>6. QED
    BY <2>3, <2>5 DEF IInv
<1>3. ASSUME IInv, UNCHANGED vars
      PROVE  IInv'
  BY <1>3 DEF IInv, vars, TypeOK, SentTwiceAtMost, SingleRefresh, NobodyStranded, SendsInv, Refreshing
<1>4. QED
  BY <1>1, <1>2, <1>3 DEF Next, ReqStep, Quiescent

LEMMA Invariance == Spec => []IInv
BY InitIInv, IInvStep, PTL DEF Spec

\* A page runs one refresh at a time, and isRefreshing is exact, whatever the
\* order in which its 401s arrive.
THEOREM OneRefreshAtATime == Spec => []SingleRefresh
<1>1. IInv => SingleRefresh
  BY DEF IInv
<1>2. QED
  BY <1>1, Invariance, PTL

\* A queued request always has a refresh to wait for.
THEOREM QueueHasARefresh == Spec => []NobodyStranded
<1>1. IInv => NobodyStranded
  BY DEF IInv
<1>2. QED
  BY <1>1, Invariance, PTL

\* No request goes on the wire a third time.
THEOREM NoRetryLoop == Spec => []SentTwiceAtMost
<1>1. IInv => SentTwiceAtMost
  BY DEF IInv, SendsInv, SentTwiceAtMost
<1>2. QED
  BY <1>1, Invariance, PTL

\* Every reachable state is well typed, and whoever is queued is marked.
THEOREM TypeCorrect == Spec => []TypeOK
<1>1. IInv => TypeOK
  BY DEF IInv
<1>2. QED
  BY <1>1, Invariance, PTL

-----------------------------------------------------------------------------
\* Why one expiry does not show: whoever has been sent again carries a valid
\* token until the next expiry, so no 401 can be final.
Smooth ==
    ~trouble /\ expiries <= 1 =>
        \A r \in Req :
            /\ pc[r] \notin {"err", "refreshErr", "rejected"}
            /\ pc[r] = "401" => r \notin retry \union Public
            /\ r \in retry /\ pc[r] = "sent" => r \in carries
            /\ pc[r] = "refreshOk" => token
            /\ expiries = 0 => /\ token
                               /\ r \notin retry
                               /\ pc[r] # "401"
                               /\ pc[r] = "sent" => r \in carries

LEMMA InitSmooth == Init => Smooth
BY DEF Init, Smooth

LEMMA SmoothStep ==
    ASSUME IInv, Smooth, NEW r \in Req, ReqStep(r)
    PROVE  Smooth'
<1> USE DEF IInv, TypeOK, Smooth, Goto
<1>0. expiries \in Nat /\ \A q \in Req : pc[q] \in RefreshPc => q \in retry
  BY RefreshQueueAssumption DEF SendsInv
<1>1. CASE Plain(r)
  <2>1. CASE Send(r)
    <3>1. /\ pc'[r] = "sent" /\ pc[r] = "new" /\ r \notin retry
          /\ \A q \in Req : q # r => pc'[q] = pc[q]
          /\ \A q \in Req : q # r => (q \in carries' <=> q \in carries)
          /\ token => r \in carries'
          /\ UNCHANGED <<retry, token, expiries, trouble>>
      BY <2>1 DEF Send, SendAll, SendsInv
    <3> QED BY <1>0, <3>1
  <2>2. CASE Answer(r)
    BY <1>0, <2>2 DEF Answer
  <2>3. CASE AnswerError(r)
    BY <2>3 DEF AnswerError
  <2>4. CASE OnOther(r) \/ OnFinal401(r)
    BY <1>0, <2>4 DEF OnOther, OnFinal401
  <2> QED BY <1>1, <2>1, <2>2, <2>3, <2>4 DEF Plain
<1>2. CASE AnswerRefresh(r)
  BY <1>0, <1>2 DEF AnswerRefresh
<1>3. CASE AnswerRefreshError(r)
  BY <1>3 DEF AnswerRefreshError
<1>4. CASE OnQueue(r)
  BY <1>0, <1>4 DEF OnQueue
<1>5. CASE OnRefresh(r)
  BY <1>0, <1>5 DEF OnRefresh
<1>6. CASE OnRefreshed(r)
  <2>1. /\ \A q \in Req : pc'[q] = IF q \in queue \union {r} THEN "sent" ELSE pc[q]
        /\ token => carries' = carries \union queue \union {r}
        /\ pc[r] = "refreshOk" /\ r \in retry
        /\ UNCHANGED <<retry, token, expiries, trouble>>
    BY <1>0, <1>6 DEF OnRefreshed, SendAll, RefreshPc
  <2> QED BY <1>0, <2>1
<1>7. CASE OnRefreshFailed(r)
  BY <1>7 DEF OnRefreshFailed
<1> QED
  BY <1>1, <1>2, <1>3, <1>4, <1>5, <1>6, <1>7, StepKinds DEF RefreshAnswered

\* Whatever the order of its requests, their 401s and the refresh: as long as
\* nothing fails, the page does not notice one expiry of its access token.
THEOREM AnExpiryIsInvisible == Spec => []OneExpiryIsInvisible
<1>1. IInv /\ Smooth /\ [Next]_vars => Smooth'
  <2> SUFFICES ASSUME IInv, Smooth, [Next]_vars PROVE Smooth'
    OBVIOUS
  <2>1. ASSUME NEW r \in Req, ReqStep(r) PROVE Smooth'
    BY <2>1, SmoothStep
  <2>2. CASE Expire
    <3>1. expiries \in Nat
      BY RefreshQueueAssumption DEF IInv, TypeOK
    <3>2. \A q \in Req : pc[q] = "refreshOk" => q \in retry
      BY DEF IInv, SendsInv, RefreshPc
    <3> QED BY <2>2, <3>1, <3>2 DEF Expire, Smooth
  <2>3. CASE UNCHANGED vars
    BY <2>3 DEF vars, Smooth
  <2> QED
    BY <2>1, <2>2, <2>3 DEF Next, ReqStep, Quiescent
<1>2. Smooth => OneExpiryIsInvisible
  BY DEF Smooth, OneExpiryIsInvisible
<1> QED
  BY <1>1, <1>2, InitSmooth, Invariance, PTL DEF Spec
=============================================================================
