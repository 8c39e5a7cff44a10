---------------------------- MODULE RefreshQueue ----------------------------
(***************************************************************************)
(* The response interceptor of threads-fe/src/libs/api/axios.ts: when the    *)
(* access token has expired, one request refreshes the session while the     *)
(* others queue behind it, and each is sent once more.  JavaScript runs one  *)
(* turn at a time: a turn of the interceptor, up to its await, is one step.  *)
(***************************************************************************)
EXTENDS Integers, FiniteSets

CONSTANTS Req,          \* the requests the page makes
          Public,       \* those to the login and register routes
          MaxExpiries   \* bound: how often the access token expires

ASSUME RefreshQueueAssumption ==
    /\ Public \subseteq Req
    /\ MaxExpiries \in Nat

VARIABLES pc,            \* where each request is
          retry,         \* the requests marked _retry
          sends,         \* ghost: how often each request was sent
          carries,       \* the requests on the wire with a valid access token
          isRefreshing,  \* the flag of the module
          queue,         \* the requests waiting for the refresh (sent again in
                         \* one turn, so their order does not show)
          token,         \* the cookie jar holds a valid access token
          expiries,      \* counts expiries, up to MaxExpiries
          trouble        \* ghost: the server or the network has failed

vars == <<pc, retry, sends, carries, isRefreshing, queue, token, expiries, trouble>>

\* 200/401/err: the response has arrived and the interceptor has not run yet;
\* refreshOk/refreshErr: likewise for the refresh this request made.
Waiting == {"sent", "queued", "refreshing"}
Arrived == {"200", "401", "err", "refreshOk", "refreshErr"}
Settled == {"resolved", "rejected"}

Init ==
    /\ pc = [r \in Req |-> "new"]
    /\ retry = {}
    /\ sends = [r \in Req |-> 0]
    /\ carries = {}
    /\ isRefreshing = FALSE
    /\ queue = {}
    /\ token = TRUE
    /\ expiries = 0
    /\ trouble = FALSE

\* The requests of R go on the wire with the cookies of this moment; the others
\* of the page stay where they are, r goes to l.
SendAll(R, r, l) ==
    /\ pc' = [q \in Req |-> IF q \in R THEN "sent" ELSE IF q = r THEN l ELSE pc[q]]
    /\ sends' = [q \in Req |-> IF q \in R THEN sends[q] + 1 ELSE sends[q]]
    /\ carries' = IF token THEN carries \union R ELSE carries \ R

Goto(r, l) == pc' = [pc EXCEPT ![r] = l]

\* The page calls instance(...).
Send(r) ==
    /\ pc[r] = "new"
    /\ SendAll({r}, r, "sent")
    /\ UNCHANGED <<retry, isRefreshing, queue, token, expiries, trouble>>

\* The server answers a request, the login routes whatever the token is.
Answer(r) ==
    /\ pc[r] = "sent"
    /\ Goto(r, IF r \in carries \union Public THEN "200" ELSE "401")
    /\ UNCHANGED <<retry, sends, carries, isRefreshing, queue, token, expiries, trouble>>

\* It fails some other way, or refuses the credentials of a login.
AnswerError(r) ==
    /\ pc[r] = "sent"
    /\ Goto(r, IF r \in Public THEN "401" ELSE "err")
    /\ trouble' = TRUE
    /\ UNCHANGED <<retry, sends, carries, isRefreshing, queue, token, expiries>>

\* The server exchanges the refresh token and sets the new cookies.
AnswerRefresh(r) ==
    /\ pc[r] = "refreshing"
    /\ Goto(r, "refreshOk")
    /\ token' = TRUE
    /\ UNCHANGED <<retry, sends, carries, isRefreshing, queue, expiries, trouble>>

AnswerRefreshError(r) ==
    /\ pc[r] = "refreshing"
    /\ Goto(r, "refreshErr")
    /\ trouble' = TRUE
    /\ UNCHANGED <<retry, sends, carries, isRefreshing, queue, token, expiries>>

-----------------------------------------------------------------------------
(***************************************************************************)
(* The interceptor.                                                         *)
(***************************************************************************)

\* Not a 401: the response or the error goes to the caller.
OnOther(r) ==
    /\ pc[r] \in {"200", "err"}
    /\ Goto(r, IF pc[r] = "200" THEN "resolved" ELSE "rejected")
    /\ UNCHANGED <<retry, sends, carries, isRefreshing, queue, token, expiries, trouble>>

\* A second 401 of the same request, or one of the login routes, is final.
OnFinal401(r) ==
    /\ pc[r] = "401"
    /\ r \in retry \union Public
    /\ Goto(r, "rejected")
    /\ UNCHANGED <<retry, sends, carries, isRefreshing, queue, token, expiries, trouble>>

\* Altered: no queue, whoever comes during a refresh is turned away.
OnQueue_Rejects(r) ==
    /\ pc[r] = "401"
    /\ r \notin retry \union Public
    /\ isRefreshing
    /\ Goto(r, "rejected")
    /\ UNCHANGED <<retry, sends, carries, isRefreshing, queue, token, expiries, trouble>>

\* Altered: the request that queues is not marked _retry.
OnQueue_Unmarked(r) ==
    /\ pc[r] = "401"
    /\ r \notin retry \union Public
    /\ isRefreshing
    /\ queue' = queue \union {r}
    /\ Goto(r, "queued")
    /\ UNCHANGED <<retry, sends, carries, isRefreshing, token, expiries, trouble>>

\* A refresh is running: wait for it.
OnQueue(r) ==
    /\ pc[r] = "401"
    /\ r \notin retry \union Public
    /\ isRefreshing
    /\ retry' = retry \union {r}
    /\ queue' = queue \union {r}
    /\ Goto(r, "queued")
    /\ UNCHANGED <<sends, carries, isRefreshing, token, expiries, trouble>>

\* Altered: the flag is set only when the refresh is back.
OnRefresh_Late(r) ==
    /\ pc[r] = "401"
    /\ r \notin retry \union Public
    /\ ~isRefreshing
    /\ retry' = retry \union {r}
    /\ Goto(r, "refreshing")
    /\ UNCHANGED <<sends, carries, isRefreshing, queue, token, expiries, trouble>>

\* Otherwise this request refreshes.
OnRefresh(r) ==
    /\ pc[r] = "401"
    /\ r \notin retry \union Public
    /\ ~isRefreshing
    /\ retry' = retry \union {r}
    /\ isRefreshing' = TRUE
    /\ Goto(r, "refreshing")
    /\ UNCHANGED <<sends, carries, queue, token, expiries, trouble>>

\* The refresh is back: the queue is sent again, then the request itself.
OnRefreshed(r) ==
    /\ pc[r] = "refreshOk"
    /\ isRefreshing' = FALSE
    /\ queue' = {}
    /\ SendAll(queue \union {r}, r, "sent")
    /\ UNCHANGED <<retry, token, expiries, trouble>>

\* Altered: the catch clears the flag and leaves the queue.
OnRefreshFailed_NoDrain(r) ==
    /\ pc[r] = "refreshErr"
    /\ isRefreshing' = FALSE
    /\ Goto(r, "rejected")
    /\ UNCHANGED <<retry, sends, carries, queue, token, expiries, trouble>>

\* The refresh failed: everyone who waited gets its error.
OnRefreshFailed(r) ==
    /\ pc[r] = "refreshErr"
    /\ isRefreshing' = FALSE
    /\ queue' = {}
    /\ pc' = [q \in Req |-> IF q \in queue \union {r} THEN "rejected" ELSE pc[q]]
    /\ UNCHANGED <<retry, sends, carries, token, expiries, trouble>>

\* The access token expires, also for the requests already on the wire.
Expire ==
    /\ expiries < MaxExpiries
    /\ expiries' = expiries + 1
    /\ token' = FALSE
    /\ carries' = {}
    /\ UNCHANGED <<pc, retry, sends, isRefreshing, queue, trouble>>

Interceptor(r) ==
    OnOther(r) \/ OnFinal401(r) \/ OnQueue(r) \/ OnRefresh(r)
      \/ OnRefreshed(r) \/ OnRefreshFailed(r)

Server(r) == Answer(r) \/ AnswerError(r) \/ AnswerRefresh(r) \/ AnswerRefreshError(r)

Quiescent == (\A r \in Req : pc[r] \in Settled) /\ UNCHANGED vars

Next == (\E r \in Req : Send(r) \/ Server(r) \/ Interceptor(r)) \/ Expire \/ Quiescent

Spec == Init /\ [][Next]_vars

\* Every request on the wire is answered in the end (axios rejects what the
\* network loses), and the event loop runs what has arrived.
FairSpec == Spec /\ \A r \in Req : WF_vars(Server(r)) /\ WF_vars(Interceptor(r))

-----------------------------------------------------------------------------
\* A request goes on the wire twice at most, however often the token expires.
SentTwiceAtMost == \A r \in Req : sends[r] <= 2

\* The type invariant.  The interceptor marks whatever it puts into the queue, so that
\* it sends no request a third time: there is no loop between 401 and refresh.
TypeOK ==
    /\ pc \in [Req -> {"new"} \union Waiting \union Arrived \union Settled]
    /\ retry \subseteq Req
    /\ sends \in [Req -> Nat]
    /\ carries \subseteq Req
    /\ isRefreshing \in BOOLEAN
    /\ queue \subseteq retry
    /\ token \in BOOLEAN
    /\ expiries \in 0..MaxExpiries
    /\ trouble \in BOOLEAN
    /\ SentTwiceAtMost

Refreshing == {r \in Req : pc[r] \in {"refreshing", "refreshOk", "refreshErr"}}

\* One refresh at a time in a page, and the flag says whether there is one: the
\* server accepts a refresh token once, so a second refresh would end the
\* session of the page.
SingleRefresh ==
    /\ \A q, r \in Refreshing : q = r
    /\ isRefreshing <=> Refreshing # {}

\* Nobody is left behind in the queue: whoever waits, waits for a refresh that
\* is under way and will drain the queue.
NobodyStranded ==
    /\ queue = {r \in Req : pc[r] = "queued"}
    /\ queue # {} => Refreshing # {}

\* While nothing fails, one expiry of the access token does not show: no
\* request of the page is rejected, also when its 401 arrives after somebody
\* else's refresh has come and gone.
OneExpiryIsInvisible ==
    ~trouble /\ expiries <= 1 => \A r \in Req : pc[r] # "rejected"

\* Every request that is sent is resolved or rejected.
EveryRequestSettles == \A r \in Req : (pc[r] # "new") ~> (pc[r] \in Settled)
=============================================================================
