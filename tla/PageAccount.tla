----------------------------- MODULE PageAccount -----------------------------
(***************************************************************************)
(* Who a page takes its user for: the query ["me"] and the calls of useAuth   *)
(* (threads-fe/src/hooks/useAuth.tsx), the routes that depend on it, and the  *)
(* sockets that SocketContext opens for that user (threads-fe/src/contexts,   *)
(* services/socket) at the realtime gateway (threads-be/src/realtime), over   *)
(* which the page hears that the profile has changed.                        *)
(*                                                                         *)
(* One page.  The browser's cookies are shared with its other tabs, and the   *)
(* profiles with other devices.  The three sockets of a page are opened and  *)
(* closed together; the realtime socket stands for them.                     *)
(***************************************************************************)
EXTENDS Naturals, FiniteSets

CONSTANTS User,
          Nobody,    \* no user: the query's null
          Unknown,   \* not known: the query has no data
          MaxInput   \* bound: what the user, other tabs and other devices do, in all

ASSUME PageAccountAssumption ==
    /\ Nobody \notin User /\ Unknown \notin User /\ Nobody # Unknown
    /\ MaxInput \in Nat

VARIABLES cookie,       \* whose session the browser's cookies are
          stored,       \* the profiles in the database
          at,           \* what is shown to a user: someone's profile, or another page
          me, fetch,    \* the query ["me"]: what it has, and its fetch in flight
          call,         \* the call of a form, or the sign-out, that is in flight
          sock, joined, \* the realtime socket, and joinedProfileRef
          news,         \* the profile:updated events on their way to the page
          hearing,      \* a handler of one waits for the queries of profiles
          missed,       \* ghost: something has changed that the page is not told of
          switched,     \* ghost: the user of the page has changed without a sign-out
          inputs        \* bound

query == <<me, fetch>>
socket == <<sock, joined, news, switched>>
accountVars == <<cookie, stored, at, me, fetch, call, sock, joined, news, hearing,
                 missed, switched, inputs>>

Page == User \union {"home"}

\* "bio" stands for what a save always writes (bio, interests, isPrivate), "link"
\* for what it writes unless it is empty (link, linkTitle).
Field == {"bio", "link"}
Empty == 0
Value == {Empty, 1}
Profile == [Field -> Value]
Blank == [f \in Field |-> Empty]

SignedIn == me.user \in User
NoFetch == [stage |-> "none", as |-> Nobody, copy |-> Blank]
NoCall == [kind |-> "none", user |-> Nobody]
NoSock == [as |-> Nobody, up |-> FALSE, rooms |-> {}]
Input == inputs < MaxInput /\ inputs' = inputs + 1

Ask(who) == [stage |-> "asked", as |-> who, copy |-> Blank]

\* invalidateQueries(["me"]): a fetch in flight is replaced, unless it is the first.
Again(who) == IF me.user = Unknown /\ fetch # NoFetch THEN fetch ELSE Ask(who)

\* ProtectedRoute, PublicRoute: a form is shown when there is no user, and none is
\* being looked for.
FormShown == ~SignedIn /\ ~(me.user = Unknown /\ fetch # NoFetch)

-----------------------------------------------------------------------------
(***************************************************************************)
(* The sockets follow the user that the page shows.                          *)
(***************************************************************************)
\* Whether WsJwtGuard lets a room:join pass depends on the token that the socket
\* was opened with, and its age.
Rooms(r, u) == {r, r \union {u}}

\* No user any more: the sockets are closed.
Close == sock' = NoSock /\ joined' = Nobody /\ news' = {} /\ switched' = FALSE

\* The first user: they are opened.
Open(u) ==
    /\ sock' = [as |-> u, up |-> FALSE, rooms |-> {}]
    /\ joined' = Nobody
    /\ UNCHANGED <<news, switched>>

\* Another user: they are kept as they are, and join the room of the new profile.
\* The room:leave for the old one has no handler at the gateway.
Keep(u) ==
    /\ IF sock.up THEN /\ \E r \in Rooms(sock.rooms, u) : sock' = [sock EXCEPT !.rooms = r]
                       /\ joined' = u
                  ELSE joined' = Nobody /\ UNCHANGED sock
    /\ switched' = TRUE
    /\ UNCHANGED news

\* Altered: without a user the refs keep their sockets.
Sockets_Kept(u) ==
    \/ u = me.user /\ UNCHANGED socket
    \/ u # me.user /\ u \notin User /\ joined' = Nobody /\ UNCHANGED <<sock, news, switched>>
    \/ u # me.user /\ u \in User /\ IF sock = NoSock THEN Open(u) ELSE Keep(u)

\* The effects of SocketProvider when userId is u.
Sockets(u) ==
    \/ u = me.user /\ UNCHANGED socket
    \/ u # me.user /\ u \notin User /\ Close
    \/ u # me.user /\ u \in User /\ IF sock = NoSock THEN Open(u) ELSE Keep(u)

\* The socket connects, again and again.  The gateway puts it into the rooms of the user
\* of its handshake, and of the profile of its handshake, which is the same; the
\* provider joins the room of the page's user if it has not done so before.
Connect ==
    /\ sock # NoSock /\ ~sock.up
    /\ \E r \in IF joined = me.user THEN {{sock.as}} ELSE Rooms({sock.as}, me.user) :
         sock' = [sock EXCEPT !.up = TRUE, !.rooms = r]
    /\ joined' = me.user
    /\ UNCHANGED <<cookie, stored, at, query, call, news, hearing, missed, switched, inputs>>

\* The connection breaks, and what is on its way is lost.
Drop ==
    /\ sock.up /\ Input
    /\ sock' = [sock EXCEPT !.up = FALSE, !.rooms = {}]
    /\ news' = {}
    /\ missed' = (missed \/ news # {})
    /\ UNCHANGED <<cookie, stored, at, query, call, joined, hearing, switched>>

\* updateProfile has stored u's profile and emits it.  (The followers of u hear of it as
\* well, in their own rooms, and their pages fetch the profile they show.)
Heard(u) == sock.up /\ u \in sock.rooms
Emit(u) == news' = IF Heard(u) THEN news \union {u} ELSE news

\* useProfileRealtime listens while a profile is shown, whoever's (Profile, EditProfile).
\* The handler awaits the queries of profiles before it turns to ["me"].
Hear(u) ==
    /\ u \in news /\ news' = news \ {u}
    /\ LET own == at \in User /\ u = me.user
       IN  /\ hearing' = (hearing \/ own)
           /\ missed' = (missed \/ (~own /\ u = cookie))
    /\ UNCHANGED <<cookie, stored, at, query, call, sock, joined, switched, inputs>>

HearOut ==
    /\ hearing /\ hearing' = FALSE
    /\ fetch' = Again(cookie)
    /\ UNCHANGED <<cookie, stored, at, me, call, socket, missed, inputs>>

-----------------------------------------------------------------------------
(***************************************************************************)
(* The query ["me"].  A request goes out with the cookies of its time.       *)
(***************************************************************************)
Read ==
    /\ fetch.stage = "asked"
    /\ fetch' = [fetch EXCEPT !.stage = "read",
                              !.copy = IF fetch.as = Nobody THEN Blank ELSE stored[fetch.as]]
    /\ missed' = (missed /\ fetch.as # cookie)
    /\ UNCHANGED <<cookie, stored, at, me, call, socket, hearing, inputs>>

Arrive ==
    /\ fetch.stage = "read"
    /\ me' = [user |-> fetch.as, copy |-> fetch.copy]
    /\ fetch' = NoFetch
    /\ Sockets(fetch.as)
    /\ UNCHANGED <<cookie, stored, at, call, hearing, missed, inputs>>

\* Anything but a 401: the query keeps what it has.
FetchFails ==
    /\ fetch # NoFetch /\ Input
    /\ fetch' = NoFetch
    /\ missed' = TRUE
    /\ UNCHANGED <<cookie, stored, at, me, call, socket, hearing>>

\* Another page is mounted; what is five minutes old is fetched again.
Visit ==
    /\ SignedIn /\ Input
    /\ at' \in Page \ {at}
    /\ \/ UNCHANGED fetch
       \/ fetch = NoFetch /\ fetch' = Ask(cookie)
    /\ UNCHANGED <<cookie, stored, me, call, socket, hearing, missed>>

-----------------------------------------------------------------------------
(***************************************************************************)
(* The forms and the sign-out.                                              *)
(***************************************************************************)
Login(u) ==
    /\ FormShown /\ call = NoCall /\ Input
    /\ call' = [kind |-> "login", user |-> u]
    /\ UNCHANGED <<cookie, stored, at, query, socket, hearing, missed>>

Submit(k) ==
    /\ FormShown /\ call = NoCall /\ Input
    /\ call' = [kind |-> k, user |-> Nobody]
    /\ UNCHANGED <<cookie, stored, at, query, socket, hearing, missed>>

\* They leave the cookies as they are.
Register == Submit("signup")
Forgot == Submit("forgot")
ResetPassword == Submit("reset")

SignOut ==
    /\ SignedIn /\ call = NoCall /\ Input
    /\ call' = [kind |-> "logout", user |-> Nobody]
    /\ UNCHANGED <<cookie, stored, at, query, socket, hearing, missed>>

LoginDone ==
    /\ call.kind = "login" /\ call' = NoCall
    /\ cookie' = call.user
    /\ fetch' = Again(call.user)
    /\ UNCHANGED <<stored, at, me, socket, hearing, missed, inputs>>

SubmitDone ==
    /\ call.kind \in {"signup", "forgot", "reset"} /\ call' = NoCall
    /\ fetch' = Again(cookie)
    /\ UNCHANGED <<cookie, stored, at, me, socket, hearing, missed, inputs>>

\* The server ends the session of the cookies, if there is one, and clears them; the
\* page has no user.  A fetch in flight is not cancelled.
SignOutDone ==
    /\ call.kind = "logout" /\ call' = NoCall
    /\ cookie \in User /\ cookie' = Nobody
    /\ me' = [user |-> Nobody, copy |-> Blank]
    /\ Sockets(Nobody)
    /\ missed' = (fetch.as # Nobody)
    /\ UNCHANGED <<stored, at, fetch, hearing, inputs>>

\* Refused, or the answer is lost, and its cookies with it.
CallFails ==
    /\ call # NoCall /\ call' = NoCall
    /\ UNCHANGED <<cookie, stored, at, query, socket, hearing, missed, inputs>>

\* The page starts afresh: a reload, or the way back from Google.
Start(who) ==
    /\ cookie' = who
    /\ me' = [user |-> Unknown, copy |-> Blank]
    /\ fetch' = Ask(who)
    /\ call' = NoCall
    /\ Close
    /\ hearing' = FALSE /\ missed' = FALSE
    /\ UNCHANGED <<stored, at>>

Reload == Input /\ Start(cookie)
LoginWithGoogle(u) == FormShown /\ Input /\ Start(u)

\* Another tab signs in or out, or the session ends.
OtherTab ==
    /\ Input
    /\ cookie' \in (User \union {Nobody}) \ {cookie}
    /\ missed' = TRUE
    /\ UNCHANGED <<stored, at, query, call, socket, hearing>>

\* Another device changes a profile.
OtherDevice(u) ==
    /\ Input
    /\ \E f \in Field, v \in Value :
         /\ v # stored[u][f]
         /\ stored' = [stored EXCEPT ![u][f] = v]
    /\ Emit(u)
    /\ missed' = (missed \/ (u = cookie /\ ~Heard(u)))
    /\ UNCHANGED <<cookie, at, query, call, sock, joined, switched, hearing>>

AccountInit ==
    /\ cookie \in User \union {Nobody}
    /\ stored = [u \in User |-> [f \in Field |-> 1]]
    /\ at \in Page
    /\ me = [user |-> Unknown, copy |-> Blank] /\ fetch = Ask(cookie)
    /\ call = NoCall
    /\ sock = NoSock /\ joined = Nobody
    /\ news = {} /\ hearing = FALSE
    /\ missed = FALSE /\ switched = FALSE
    /\ inputs = 0

AtRest == fetch = NoFetch /\ call = NoCall /\ news = {} /\ ~hearing
=============================================================================
