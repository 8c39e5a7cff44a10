-------------------------- MODULE NotificationPush --------------------------
(***************************************************************************)
(* How a stored notification reaches the page: NotificationsGateway, which   *)
(* remembers one socket per user in each process, NotificationsService,      *)
(* which emits through it, and useNotifications in the page, which keeps a   *)
(* list and a badge of its own.  One user; its tabs may connect to any       *)
(* process (PM2 runs one per core, with the Redis adapter between them).     *)
(***************************************************************************)
EXTENDS Integers, Sequences, FiniteSets

CONSTANTS Server,     \* the processes
          Tab,        \* the user's open pages
          Conn,       \* socket ids, each used once
          Req,        \* events handled by the service, each used once; a
                      \* notification is named by the event that creates it
          Limit       \* how many notifications a page fetches (take: 20)

ASSUME NotificationPushAssumption == Limit \in Nat \ {0}

NoConn == "none"
ASSUME NoConnAssumption == NoConn \notin Conn \union Server

VARIABLES home,       \* the process of each socket, NoConn before it connects
          up,         \* sockets the server has seen connect and not disconnect
          socket,     \* the socket of each tab, as the tab sees it
          inbox,      \* events emitted to a socket and not handled by its tab
          registry,   \* connectedUsers of each process, for this user
          log,        \* the notifications created, in order
          withdrawn,  \* those deleted since
          read,       \* those with isRead in the database
          pc, op,     \* each event's next step, and what it is about
          got,        \* what its last query returned
          page,       \* notifications and unreadCount of each tab
          overlapped, \* ghost: did the last socket of a process find another there?
          calm, quiet \* ghosts: the tabs whose list, and whose badge, must agree

sockets == <<home, up, socket>>
rowsOfUser == <<log, withdrawn, read>>
ghosts == <<overlapped, calm, quiet>>
vars == <<sockets, inbox, registry, rowsOfUser, pc, op, got, page, ghosts>>

Entry(n, r) == [id |-> n, isRead |-> r]
NothingRead == [list |-> <<>>, total |-> 0]
NoOp == [kind |-> "none"]
Kinds == {"send", "get", "mark", "markAll"}
Running == {"create", "push", "query", "initial", "update", "count", "badge"}

Created == {log[i] : i \in 1..Len(log)}
Stored == Created \ withdrawn
Unread == Stored \ read

\* The places in the log of what is stored, how many of them come after one, and
\* some of them in the order in which a query returns them: newest first.
Rows == {i \in 1..Len(log) : log[i] \in Stored}
Newer(i) == Cardinality({j \in Rows : j > i})
NewestFirst(rows) ==
    {ns \in [1..Cardinality(rows) -> rows] : \A i, j \in DOMAIN ns : i < j => ns[i] > ns[j]}

InFlight == {r \in Req : pc[r] \in Running}

\* The events that bear on a tab: all but what other tabs ask for.
Concerning(t) == {r \in InFlight : op[r].kind = "get" => op[r].tab = t}

\* A tab is attached while both ends of its socket are there.
Attached == {t \in Tab : socket[t] \in up}

Init ==
    /\ home = [c \in Conn |-> NoConn]
    /\ up = {}
    /\ socket = [t \in Tab |-> NoConn]
    /\ inbox = [c \in Conn |-> <<>>]
    /\ registry = [s \in Server |-> NoConn]
    /\ log = <<>> /\ withdrawn = {} /\ read = {}
    /\ pc = [r \in Req |-> "idle"]
    /\ op = [r \in Req |-> NoOp]
    /\ got = [r \in Req |-> NothingRead]
    /\ page = [t \in Tab |-> [list |-> <<>>, count |-> 0]]
    /\ overlapped = [s \in Server |-> FALSE]
    /\ calm = [t \in Tab |-> TRUE] /\ quiet = calm

-----------------------------------------------------------------------------
(***************************************************************************)
(* The gateway.                                                             *)
(***************************************************************************)

\* emitToUserById: to the one socket this process remembers, if any.  What is
\* emitted to a socket whose tab has left is lost.
Emit(s, m) ==
    inbox' = [c \in Conn |->
                IF c = registry[s] /\ \E t \in Tab : socket[t] = c
                  THEN Append(inbox[c], m) ELSE inbox[c]]

\* An event of kind k about n, from tab t if from any, reaches the service in process s.
Handle(r, k, s, t, n) ==
    /\ pc[r] = "idle"
    /\ op' = [op EXCEPT ![r] = [kind |-> k, at |-> s, tab |-> t, note |-> n]]
    /\ pc' = [pc EXCEPT ![r] = CASE k = "send" -> "create"
                                 [] k = "get" -> "query"
                                 [] OTHER -> "update"]

\* What the ghosts make of an event that begins.  A fetch that meets nothing else in
\* flight makes all of its tab agree.  Notifications may overlap with each other, but
\* for the badge.  A mark may not overlap with anything, meets a page that has handled
\* all there was, and is told to no other tab.
FetchBegins(t) ==
    /\ calm' = [calm EXCEPT ![t] = Concerning(t) = {}]
    /\ quiet' = [quiet EXCEPT ![t] = Concerning(t) = {}]

SendBegins ==
    /\ calm' = [t \in Tab |-> calm[t] /\ \A r \in Concerning(t) : op[r].kind = "send"]
    /\ quiet' = [t \in Tab |-> quiet[t] /\ Concerning(t) = {}]

MarkBegins(t) ==
    LET alone(u) == u = t /\ Concerning(u) = {} /\ inbox[socket[u]] = <<>>
    IN  /\ calm' = [u \in Tab |-> calm[u] /\ alone(u)]
        /\ quiet' = [u \in Tab |-> quiet[u] /\ alone(u)]

\* And of what it emits: a notification or a badge must reach the tab, an answer the
\* tab that has asked, and no other.
Reached(r) == {t \in Tab : registry[op[r].at] = socket[t]}
NoteGoesOut(r) ==
    /\ calm' = [t \in Tab |-> calm[t] /\ t \in Reached(r)]
    /\ quiet' = [t \in Tab |-> quiet[t] /\ t \in Reached(r)]
AnswerGoesOut(r) ==
    /\ calm' = [t \in Tab |-> calm[t] /\ (t \in Reached(r) <=> t = op[r].tab)]
    /\ quiet' = [t \in Tab |-> quiet[t] /\ (t \in Reached(r) <=> t = op[r].tab)]
BadgeGoesOut(r) ==
    /\ quiet' = [t \in Tab |-> quiet[t] /\ t \in Reached(r)]
    /\ UNCHANGED calm

\* Altered: only the first socket of all is entered.
Connect_FirstOnly(t, c, s, r) ==
    /\ socket[t] = NoConn
    /\ home[c] = NoConn
    /\ home' = [home EXCEPT ![c] = s]
    /\ up' = up \union {c}
    /\ socket' = [socket EXCEPT ![t] = c]
    /\ registry' = [registry EXCEPT ![s] = IF \A d \in Conn : home[d] = NoConn THEN c ELSE @]
    /\ Handle(r, "get", s, t, NoConn)
    /\ overlapped' = [overlapped EXCEPT ![s] = \E d \in up : home[d] = s]
    /\ FetchBegins(t)
    /\ UNCHANGED <<inbox, rowsOfUser, got, page>>

\* handleConnection overwrites the entry; the page asks for its notifications.
Connect(t, c, s, r) ==
    /\ socket[t] = NoConn
    /\ home[c] = NoConn
    /\ home' = [home EXCEPT ![c] = s]
    /\ up' = up \union {c}
    /\ socket' = [socket EXCEPT ![t] = c]
    /\ registry' = [registry EXCEPT ![s] = c]
    /\ Handle(r, "get", s, t, NoConn)
    /\ overlapped' = [overlapped EXCEPT ![s] = \E d \in up : home[d] = s]
    /\ FetchBegins(t)
    /\ UNCHANGED <<inbox, rowsOfUser, got, page>>

\* The tab loses its connection, or is closed: the server does not know yet.
Leave(t) ==
    /\ socket[t] # NoConn
    /\ socket' = [socket EXCEPT ![t] = NoConn]
    /\ inbox' = [inbox EXCEPT ![socket[t]] = <<>>]
    /\ UNCHANGED <<home, up, registry, rowsOfUser, pc, op, got, page, ghosts>>

Detach(cs) ==
    /\ up' = up \ cs
    /\ socket' = [t \in Tab |-> IF socket[t] \in cs THEN NoConn ELSE socket[t]]
    /\ inbox' = [c \in Conn |-> IF c \in cs THEN <<>> ELSE inbox[c]]

\* Altered: the entry survives the socket.
Disconnect_KeepsEntry(c) ==
    /\ c \in up
    /\ Detach({c})
    /\ UNCHANGED <<home, registry, rowsOfUser, pc, op, got, page, ghosts>>

\* The server sees the disconnection (at once, or after a ping timeout):
\* handleDisconnect deletes the user's entry, whichever socket it holds.
Disconnect(c) ==
    /\ c \in up
    /\ Detach({c})
    /\ registry' = [registry EXCEPT ![home[c]] = NoConn]
    /\ UNCHANGED <<home, rowsOfUser, pc, op, got, page, ghosts>>

\* A process restarts: its map, its sockets and the events it handles are gone.
Restart(s) ==
    /\ Detach({c \in up : home[c] = s})
    /\ registry' = [registry EXCEPT ![s] = NoConn]
    /\ LET lost == {r \in InFlight : op[r].at = s}
       IN  /\ pc' = [r \in Req |-> IF r \in lost THEN "done" ELSE pc[r]]
           /\ op' = [r \in Req |-> IF r \in lost THEN NoOp ELSE op[r]]
           /\ got' = [r \in Req |-> IF r \in lost THEN NothingRead ELSE got[r]]
           /\ calm' = [t \in Tab |-> calm[t] /\ \A r \in lost : pc[r] # "push"]
           /\ quiet' = [t \in Tab |-> quiet[t] /\ \A r \in lost : pc[r] # "push"]
    /\ UNCHANGED <<home, rowsOfUser, page, overlapped>>

-----------------------------------------------------------------------------
(***************************************************************************)
(* The events: a like, repost or follow notifies the user; the page mounts a *)
(* view that fetches, or marks one or all notifications read.  The page      *)
(* changes its own list and badge at once.                                   *)
(***************************************************************************)
SendNotification(r, s) ==
    /\ Handle(r, "send", s, NoConn, NoConn)
    /\ SendBegins
    /\ UNCHANGED <<sockets, inbox, registry, rowsOfUser, got, page, overlapped>>

GetNotifications(t, r) ==
    /\ t \in Attached
    /\ Handle(r, "get", home[socket[t]], t, NoConn)
    /\ FetchBegins(t)
    /\ UNCHANGED <<sockets, inbox, registry, rowsOfUser, got, page, overlapped>>

MarkLocally(t, ns, count) ==
    page' = [page EXCEPT ![t] =
               [list |-> [i \in DOMAIN @.list |->
                            IF @.list[i].id \in ns THEN Entry(@.list[i].id, TRUE) ELSE @.list[i]],
                count |-> count]]

\* Without a connection the page changes and the server is not told.
Tell(t, r, k, n) ==
    \/ /\ t \in Attached
       /\ Handle(r, k, home[socket[t]], t, n)
       /\ MarkBegins(t)
    \/ t \notin Attached /\ UNCHANGED <<pc, op, calm, quiet>>

\* Activity marks what it shows as unread.
MarkAsRead(t, n, r) ==
    /\ \E i \in DOMAIN page[t].list : page[t].list[i] = Entry(n, FALSE)
    /\ MarkLocally(t, {n}, IF page[t].count > 0 THEN page[t].count - 1 ELSE 0)
    /\ Tell(t, r, "mark", n)
    /\ UNCHANGED <<sockets, inbox, registry, rowsOfUser, got, overlapped>>

MarkAllRead(t, r) ==
    /\ MarkLocally(t, Created, 0)
    /\ Tell(t, r, "markAll", NoConn)
    /\ UNCHANGED <<sockets, inbox, registry, rowsOfUser, got, overlapped>>

-----------------------------------------------------------------------------
(***************************************************************************)
(* The service: each step is one query, or the turn that follows it.         *)
(***************************************************************************)
Goto(r, l) == pc' = [pc EXCEPT ![r] = l]

\* The event is over; what it knew is forgotten.
Finish(r) ==
    /\ Goto(r, "done")
    /\ op' = [op EXCEPT ![r] = NoOp]
    /\ got' = [got EXCEPT ![r] = NothingRead]

Create(r) ==
    /\ pc[r] = "create"
    /\ log' = Append(log, r)
    /\ Goto(r, "push")
    /\ UNCHANGED <<sockets, inbox, registry, withdrawn, read, op, got, page, ghosts>>

\* isUserConnected, then the emit and the query of the badge.
Push(r) ==
    /\ pc[r] = "push"
    /\ IF registry[op[r].at] = NoConn
         THEN Finish(r) /\ UNCHANGED inbox
         ELSE /\ Goto(r, "count")
              /\ Emit(op[r].at, [type |-> "new", note |-> r])
              /\ UNCHANGED <<op, got>>
    /\ NoteGoesOut(r)
    /\ UNCHANGED <<sockets, registry, rowsOfUser, page, overlapped>>

\* Altered: oldest first, then cut at the limit.
Query_Oldest(r) ==
    /\ pc[r] = "query"
    /\ \E ns \in NewestFirst({i \in Rows : Cardinality({j \in Rows : j < i}) < Limit}) :
         got' = [got EXCEPT ![r].list = [i \in DOMAIN ns |-> Entry(log[ns[i]], log[ns[i]] \in read)]]
    /\ Goto(r, "initial")
    /\ UNCHANGED <<sockets, inbox, registry, rowsOfUser, op, page, ghosts>>

\* getNotifications: newest first, at most Limit of them.
Query(r) ==
    /\ pc[r] = "query"
    /\ \E ns \in NewestFirst({i \in Rows : Newer(i) < Limit}) :
         got' = [got EXCEPT ![r].list = [i \in DOMAIN ns |-> Entry(log[ns[i]], log[ns[i]] \in read)]]
    /\ Goto(r, "initial")
    /\ UNCHANGED <<sockets, inbox, registry, rowsOfUser, op, page, ghosts>>

\* The answer goes to the socket of the entry, not to the one that asked.
Initial(r) ==
    /\ pc[r] = "initial"
    /\ Emit(op[r].at, [type |-> "initial", list |-> got[r].list])
    /\ AnswerGoesOut(r)
    /\ Finish(r)
    /\ UNCHANGED <<sockets, registry, rowsOfUser, page, overlapped>>

\* updateMany; handleMarkAllRead answers 0 without counting.
Update(r) ==
    /\ pc[r] = "update"
    /\ IF op[r].kind = "mark"
         THEN /\ read' = read \union ({op[r].note} \intersect Stored)
              /\ Goto(r, "count") /\ UNCHANGED got
         ELSE /\ read' = read \union Stored
              /\ got' = [got EXCEPT ![r].total = 0]
              /\ Goto(r, "badge")
    /\ UNCHANGED <<sockets, inbox, registry, log, withdrawn, op, page, ghosts>>

Count(r) ==
    /\ pc[r] = "count"
    /\ got' = [got EXCEPT ![r].total = Cardinality(Unread)]
    /\ Goto(r, "badge")
    /\ UNCHANGED <<sockets, inbox, registry, rowsOfUser, op, page, ghosts>>

Badge(r) ==
    /\ pc[r] = "badge"
    /\ Emit(op[r].at, [type |-> "count", count |-> got[r].total])
    /\ BadgeGoesOut(r)
    /\ Finish(r)
    /\ UNCHANGED <<sockets, registry, rowsOfUser, page, overlapped>>

\* Undoing the reaction or the follow deletes its notification; no page is told.
Withdraw(n) ==
    /\ n \in Stored
    /\ withdrawn' = withdrawn \union {n}
    /\ UNCHANGED <<sockets, inbox, registry, log, read, pc, op, got, page, ghosts>>

-----------------------------------------------------------------------------
\* handleInitial, handleNew, handleUnreadCount in the tab.
Shown(p, m) ==
    CASE m.type = "initial" ->
           [list |-> m.list,
            count |-> Cardinality({i \in DOMAIN m.list : ~m.list[i].isRead})]
      [] m.type = "new" ->
           [list |-> <<Entry(m.note, FALSE)>> \o p.list, count |-> p.count + 1]
      [] m.type = "count" -> [p EXCEPT !.count = m.count]

Receive(t) ==
    /\ socket[t] # NoConn
    /\ inbox[socket[t]] # <<>>
    /\ page' = [page EXCEPT ![t] = Shown(@, Head(inbox[socket[t]]))]
    /\ inbox' = [inbox EXCEPT ![socket[t]] = Tail(@)]
    /\ UNCHANGED <<sockets, registry, rowsOfUser, pc, op, got, ghosts>>

Step(r) ==
    \/ Create(r) \/ Push(r) \/ Query(r) \/ Initial(r)
    \/ Update(r) \/ Count(r) \/ Badge(r)

Next ==
    \/ \E t \in Tab : Leave(t) \/ Receive(t)
    \/ \E c \in Conn : Disconnect(c)
    \/ \E s \in Server : Restart(s)
    \/ \E r \in Req :
         \/ Step(r)
         \/ \E s \in Server : SendNotification(r, s)
         \/ \E t \in Tab, c \in Conn, s \in Server : Connect(t, c, s, r)
         \/ \E t \in Tab :
              \/ GetNotifications(t, r) \/ MarkAllRead(t, r)
              \/ \E n \in Created : MarkAsRead(t, n, r)
    \/ \E n \in Created : Withdraw(n)

Spec == Init /\ [][Next]_vars

-----------------------------------------------------------------------------
\* An entry of connectedUsers never outlives its socket: whatever connects and
\* disconnects in which order, a process emits to a socket it holds, or not at
\* all.
RegistryIsLive ==
    \A s \in Server : registry[s] # NoConn => registry[s] \in up /\ home[registry[s]] = s

\* "Real-time emit if user connected" (notifications.service.ts): the turn that
\* follows the creation of a notification emits it to a socket of the user if
\* there is one.
EmitsIfConnected ==
    [][\A r \in Req :
         Push(r) /\ Attached # {} =>
             \E t \in Attached : inbox'[socket[t]] # inbox[socket[t]]]_vars

\* What is true of that: a tab is told of what its own process handles, through losses of
\* its socket, restarts and whatever happens in other processes, as long as no socket
\* of the user has connected to that process beside another one (which leaves the entry
\* to the newer, and to nobody once one of them goes).
EmitsWhereConnected ==
    [][\A r \in Req : Push(r) =>
         \A t \in Attached :
             home[socket[t]] = op[r].at /\ ~overlapped[op[r].at] =>
                 inbox'[socket[t]] # inbox[socket[t]]]_vars

\* A tab at rest: attached, nothing on its way to it.
AtRest(t) == t \in Attached /\ Concerning(t) = {} /\ inbox[socket[t]] = <<>>

\* The stored notifications among the Limit last created.
Recent == {n \in Stored : \E i \in 1..Len(log) : log[i] = n /\ i + Limit > Len(log)}

\* A tab at rest shows what is stored, with any number of tabs and processes: since a
\* fetch of its own that met no other event, and until something is emitted past it,
\* its list has each recent notification once, marked as it is stored, also while
\* notifications overlap; and if nothing has overlapped, its badge counts at least the
\* recent unread ones and at most all there are or were (no event tells the page of
\* those withdrawn).  One fetch repairs what crossed answers and other tabs left behind.
PageAgrees ==
    \A t \in Tab : AtRest(t) =>
        LET list == page[t].list
        IN  /\ calm[t] =>
                 /\ \A i, j \in DOMAIN list : list[i].id = list[j].id => i = j
                 /\ \A n \in Recent : \E i \in DOMAIN list : list[i].id = n
                 /\ \A i \in DOMAIN list :
                       list[i].id \in Stored => (list[i].isRead <=> list[i].id \in read)
            /\ quiet[t] =>
                 /\ Cardinality(Recent \ read) <= page[t].count
                 /\ page[t].count <= Cardinality(Unread) + Cardinality(withdrawn)
=============================================================================
