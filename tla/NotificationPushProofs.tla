----------------------- MODULE NotificationPushProofs -----------------------
(***************************************************************************)
(* RegistryIsLive, EmitsWhereConnected and PageAgrees for any number of      *)
(* processes, tabs, sockets and events.                                     *)
(***************************************************************************)
EXTENDS NotificationPush, FiniteSetTheorems, TLAPS

RegistryInv ==
    /\ home \in [Conn -> Server \union {NoConn}]
    /\ registry \in [Server -> Conn \union {NoConn}]
    /\ up \subseteq Conn
    /\ RegistryIsLive

\* Only what connects, disconnects or restarts touches the sockets and the map.
Registering == <<home, up, registry>>

LEMMA RegistryInit == Init => RegistryInv
BY DEF Init, RegistryInv, RegistryIsLive

\* A disconnect may remove the entry of another socket, never leave its own.
LEMMA DisconnectKeeps ==
    ASSUME RegistryInv, NEW c \in Conn, Disconnect(c)
    PROVE  RegistryInv'
<1> USE DEF Disconnect, Detach
<1>1. /\ home' = home /\ up' = up \ {c}
      /\ registry' = [registry EXCEPT ![home[c]] = NoConn]
  OBVIOUS
<1>2. registry' \in [Server -> Conn \union {NoConn}]
  BY <1>1 DEF RegistryInv
<1>3. RegistryIsLive'
  <2> SUFFICES ASSUME NEW s \in Server, registry'[s] # NoConn
               PROVE  registry'[s] \in up' /\ home'[registry'[s]] = s
    BY DEF RegistryIsLive
  <2>1. s # home[c] /\ registry'[s] = registry[s]
    BY <1>1 DEF RegistryInv
  <2>2. registry[s] \in up /\ home[registry[s]] = s
    BY <2>1 DEF RegistryInv, RegistryIsLive
  <2> QED BY <1>1, <2>1, <2>2
<1> QED BY <1>1, <1>2, <1>3 DEF RegistryInv

LEMMA ConnectKeeps ==
    ASSUME RegistryInv, NEW t \in Tab, NEW c \in Conn, NEW s \in Server, NEW r \in Req,
           Connect(t, c, s, r)
    PROVE  RegistryInv'
<1>1. /\ home[c] = NoConn
      /\ home' = [home EXCEPT ![c] = s]
      /\ up' = up \union {c}
      /\ registry' = [registry EXCEPT ![s] = c]
  BY DEF Connect
<1>2. /\ home' \in [Conn -> Server \union {NoConn}]
      /\ registry' \in [Server -> Conn \union {NoConn}]
      /\ up' \subseteq Conn
  BY <1>1 DEF RegistryInv
<1>3. RegistryIsLive'
  <2> SUFFICES ASSUME NEW p \in Server, registry'[p] # NoConn
               PROVE  registry'[p] \in up' /\ home'[registry'[p]] = p
    BY DEF RegistryIsLive
  <2>1. CASE p = s
    BY <2>1, <1>1 DEF RegistryInv
  <2>2. CASE p # s
    <3>1. registry'[p] = registry[p]
      BY <2>2, <1>1 DEF RegistryInv
    <3>2. registry[p] \in up /\ home[registry[p]] = p /\ registry[p] \in Conn
      BY <3>1 DEF RegistryInv, RegistryIsLive
    <3>3. registry[p] # c
      BY <3>2, <1>1, NoConnAssumption
    <3> QED BY <1>1, <3>1, <3>2, <3>3 DEF RegistryInv
  <2> QED BY <2>1, <2>2
<1> QED BY <1>2, <1>3 DEF RegistryInv

LEMMA RestartKeeps ==
    ASSUME RegistryInv, NEW s \in Server, Restart(s)
    PROVE  RegistryInv'
<1>1. /\ home' = home /\ up' = up \ {c \in up : home[c] = s}
      /\ registry' = [registry EXCEPT ![s] = NoConn]
  BY DEF Restart, Detach
<1> QED BY <1>1 DEF RegistryInv, RegistryIsLive

LEMMA OthersKeep ==
    ASSUME RegistryInv, UNCHANGED Registering
    PROVE  RegistryInv'
BY DEF RegistryInv, RegistryIsLive, Registering

LEMMA StepRegisters ==
    ASSUME NEW r \in Req, Step(r)
    PROVE  UNCHANGED Registering
<1> USE DEF Registering, sockets
<1>1. CASE Create(r)   BY <1>1 DEF Create
<1>2. CASE Push(r)     BY <1>2 DEF Push
<1>3. CASE Query(r)    BY <1>3 DEF Query
<1>4. CASE Initial(r)  BY <1>4 DEF Initial
<1>5. CASE Update(r)   BY <1>5 DEF Update
<1>6. CASE Count(r)    BY <1>6 DEF Count
<1>7. CASE Badge(r)    BY <1>7 DEF Badge
<1> QED BY <1>1, <1>2, <1>3, <1>4, <1>5, <1>6, <1>7 DEF Step

LEMMA RegistryStep == RegistryInv /\ [Next]_vars => RegistryInv'
<1> SUFFICES ASSUME RegistryInv, [Next]_vars PROVE RegistryInv'
  OBVIOUS
<1>1. CASE UNCHANGED vars
  BY <1>1, OthersKeep DEF vars, sockets, Registering
<1>2. ASSUME NEW t \in Tab, Leave(t) \/ Receive(t) PROVE RegistryInv'
  BY <1>2, OthersKeep DEF Leave, Receive, sockets, Registering
<1>3. ASSUME NEW c \in Conn, Disconnect(c) PROVE RegistryInv'
  BY <1>3, DisconnectKeeps
<1>4. ASSUME NEW s \in Server, Restart(s) PROVE RegistryInv'
  BY <1>4, RestartKeeps
<1>5. ASSUME NEW r \in Req, Step(r) PROVE RegistryInv'
  BY <1>5, StepRegisters, OthersKeep
<1>6. ASSUME NEW r \in Req, NEW s \in Server, SendNotification(r, s) PROVE RegistryInv'
  BY <1>6, OthersKeep DEF SendNotification, sockets, Registering
<1>7. ASSUME NEW r \in Req, NEW t \in Tab, NEW c \in Conn, NEW s \in Server,
             Connect(t, c, s, r)
      PROVE  RegistryInv'
  BY <1>7, ConnectKeeps
<1>8. ASSUME NEW r \in Req, NEW t \in Tab, GetNotifications(t, r) PROVE RegistryInv'
  BY <1>8, OthersKeep DEF GetNotifications, sockets, Registering
<1>9. ASSUME NEW r \in Req, NEW t \in Tab, MarkAllRead(t, r) PROVE RegistryInv'
  BY <1>9, OthersKeep DEF MarkAllRead, sockets, Registering
<1>10. ASSUME NEW r \in Req, NEW t \in Tab, NEW n \in Created, MarkAsRead(t, n, r)
       PROVE  RegistryInv'
  BY <1>10, OthersKeep DEF MarkAsRead, sockets, Registering
<1>11. ASSUME NEW n \in Created, Withdraw(n) PROVE RegistryInv'
  BY <1>11, OthersKeep DEF Withdraw, sockets, Registering
<1> QED
  BY <1>1, <1>2, <1>3, <1>4, <1>5, <1>6, <1>7, <1>8, <1>9, <1>10, <1>11 DEF Next

\* handleConnection and handleDisconnect keep connectedUsers free of sockets
\* that are gone.
THEOREM RegistryAlwaysLive == Spec => []RegistryIsLive
<1>1. RegistryInv => RegistryIsLive
  BY DEF RegistryInv
<1> QED BY RegistryInit, RegistryStep, <1>1, PTL DEF Spec

-----------------------------------------------------------------------------
(***************************************************************************)
(* What a page shows, with the messages on their way to it: a queue is      *)
(* read from its last answer on, and each notification that follows adds    *)
(* itself to what that answer listed.                                       *)
(***************************************************************************)
EntryRow == [id : Req, isRead : BOOLEAN]
Message ==
    [type : {"initial"}, list : Seq(EntryRow)] \union [type : {"new"}, note : Req]
      \union [type : {"count"}, count : Nat]
Seen == [list : Seq(EntryRow), count : Nat]

\* What the page is compared with: the notifications stored, the recent ones,
\* those announced to it, and those it marks ahead of the database.
Ahead ==
    read \union {n \in Req : \E r \in Req :
                               /\ pc[r] = "update"
                               /\ op[r].kind = "markAll" \/ op[r].note = n}
Announced == {n \in Created : pc[n] # "push"}
World == [recent |-> Recent, stored |-> Stored, ahead |-> Ahead, announced |-> Announced]

ListedIn(list) == {list[i].id : i \in DOMAIN list}
UnreadIn(list) == Cardinality({i \in DOMAIN list : ~list[i].isRead})

\* list, with the notes still on their way to it, shows what w knows.
Shows(list, notes, w) ==
    /\ \A i, j \in DOMAIN list : list[i].id = list[j].id => i = j
    /\ notes \intersect ListedIn(list) = {}
    /\ ListedIn(list) \union notes \subseteq w.announced
    /\ w.recent \intersect w.announced \subseteq ListedIn(list) \union notes
    /\ \A i \in DOMAIN list : list[i].id \in w.stored => (list[i].isRead <=> list[i].id \in w.ahead)
    /\ notes \intersect w.stored \intersect w.ahead = {}

\* What a list shows of v it shows of w as well.
Still(v, w) ==
    /\ w.announced = v.announced
    /\ w.recent \intersect w.announced \subseteq v.recent
    /\ w.stored \intersect w.announced \subseteq v.stored
    /\ \A n \in w.stored \intersect w.announced : n \in w.ahead <=> n \in v.ahead

\* Counting from the k-th message on, an answer (the page's own list if k = 0),
\* the notifications that follow it, and no later answer.
News(q, k) == {i \in DOMAIN q : i > k /\ q[i].type = "new"}
Notes(q, k) == {q[i].note : i \in News(q, k)}
From(q, k) ==
    /\ k # 0 => q[k].type = "initial"
    /\ \A i \in DOMAIN q : i > k => q[i].type # "initial"
    /\ \A i, j \in News(q, k) : q[i].note = q[j].note => i = j
Base(list, q, k) == IF k = 0 THEN list ELSE q[k].list

PageShows(list, q, w) ==
    \E k \in 0..Len(q) : From(q, k) /\ Shows(Base(list, q, k), Notes(q, k), w)

LEMMA ShowsStill ==
    ASSUME NEW list, NEW notes, NEW v, NEW w, Shows(list, notes, v), Still(v, w)
    PROVE  Shows(list, notes, w)
<1>1. \A i \in DOMAIN list : list[i].id \in ListedIn(list)
  BY DEF ListedIn
<1> QED BY <1>1 DEF Shows, Still

LEMMA PageShowsStill ==
    ASSUME NEW list, NEW q, NEW v, NEW w, PageShows(list, q, v), Still(v, w)
    PROVE  PageShows(list, q, w)
BY ShowsStill DEF PageShows

\* A notification nobody has seen or marked, once it is on its way.
LEMMA ShowsMore ==
    ASSUME NEW list, NEW notes, NEW v, NEW w, NEW n, Shows(list, notes, v),
           n \notin v.announced, n \notin v.ahead,
           w.recent = v.recent, w.stored = v.stored, w.ahead = v.ahead,
           w.announced = v.announced \union {n}
    PROVE  Shows(list, notes \union {n}, w)
BY DEF Shows

\* A message put in the queue after those that count.
LEMMA Appended ==
    ASSUME NEW q \in Seq(Message), NEW k \in 0..Len(q), NEW m \in Message, From(q, k),
           m.type # "initial", m.type = "new" => m.note \notin Notes(q, k)
    PROVE  /\ From(Append(q, m), k)
           /\ \A list : Base(list, Append(q, m), k) = Base(list, q, k)
           /\ Notes(Append(q, m), k)
                = IF m.type = "new" THEN Notes(q, k) \union {m.note} ELSE Notes(q, k)
<1> DEFINE p == Append(q, m)
<1>1. /\ p \in Seq(Message) /\ Len(p) = Len(q) + 1 /\ p[Len(q) + 1] = m
      /\ \A i \in DOMAIN q : p[i] = q[i]
      /\ DOMAIN q = 1..Len(q) /\ DOMAIN p = 1..(Len(q) + 1) /\ Len(q) \in Nat
  OBVIOUS
<1> HIDE DEF p
<1>2. News(p, k) = IF m.type = "new" THEN News(q, k) \union {Len(q) + 1} ELSE News(q, k)
  BY <1>1 DEF News
<1>3. \A i \in News(q, k) : p[i] = q[i] /\ q[i].note \in Notes(q, k)
  BY <1>1 DEF News, Notes
<1>4. From(p, k)
  <2>1. k # 0 => p[k].type = "initial"
    BY <1>1 DEF From
  <2>2. \A i \in DOMAIN p : i > k => p[i].type # "initial"
    BY <1>1 DEF From
  <2>3. \A i, j \in News(p, k) : p[i].note = p[j].note => i = j
    BY <1>1, <1>2, <1>3 DEF From
  <2> QED BY <2>1, <2>2, <2>3 DEF From
<1>5. Notes(p, k) = IF m.type = "new" THEN Notes(q, k) \union {m.note} ELSE Notes(q, k)
  BY <1>1, <1>2, <1>3 DEF Notes
<1>6. \A list : Base(list, p, k) = Base(list, q, k)
  BY <1>1 DEF Base
<1> QED BY <1>4, <1>5, <1>6 DEF p

\* The first message of the queue handled.
LEMMA Received ==
    ASSUME NEW q \in Seq(Message), q # <<>>, NEW p \in Seen, NEW w,
           PageShows(p.list, q, w)
    PROVE  PageShows(Shown(p, Head(q)).list, Tail(q), w)
<1>1. PICK k \in 0..Len(q) : From(q, k) /\ Shows(Base(p.list, q, k), Notes(q, k), w)
  BY DEF PageShows
<1> DEFINE m == Head(q)
           u == Tail(q)
<1>2. /\ m \in Message /\ m = q[1] /\ Len(q) \in Nat /\ Len(q) > 0
      /\ u \in Seq(Message) /\ Len(u) = Len(q) - 1
      /\ DOMAIN u = 1..(Len(q) - 1) /\ DOMAIN q = 1..Len(q)
      /\ \A i \in 1..(Len(q) - 1) : u[i] = q[i + 1]
  OBVIOUS
<1> HIDE DEF m, u
<1>3. CASE k > 0
  <2>1. News(u, k - 1) = {i \in 1..(Len(q) - 1) : i + 1 \in News(q, k)}
    BY <1>2, <1>3 DEF News
  <2>2. \A i \in News(q, k) : i - 1 \in News(u, k - 1) /\ u[i - 1] = q[i]
    <3> TAKE i \in News(q, k)
    <3>1. i \in 1..Len(q) /\ i > k /\ q[i].type = "new"
      BY <1>2 DEF News
    <3>2. i - 1 \in 1..(Len(q) - 1) /\ i - 1 > k - 1 /\ (i - 1) + 1 = i
      BY <3>1, <1>3, <1>2
    <3>3. u[i - 1] = q[i]
      BY <3>2, <1>2
    <3> QED BY <3>1, <3>2, <3>3, <1>2 DEF News
  <2>3. \A i \in News(u, k - 1) : i + 1 \in News(q, k) /\ u[i] = q[i + 1]
    BY <2>1, <1>2
  <2>4. Notes(u, k - 1) = Notes(q, k)
    <3>1. ASSUME NEW n \in Notes(u, k - 1) PROVE n \in Notes(q, k)
      <4>1. PICK i \in News(u, k - 1) : n = u[i].note
        BY DEF Notes
      <4> QED BY <4>1, <2>3 DEF Notes
    <3>2. ASSUME NEW n \in Notes(q, k) PROVE n \in Notes(u, k - 1)
      <4>1. PICK i \in News(q, k) : n = q[i].note
        BY DEF Notes
      <4> QED BY <4>1, <2>2 DEF Notes
    <3> QED BY <3>1, <3>2
  <2>5. From(u, k - 1)
    <3>1. k - 1 # 0 => u[k - 1].type = "initial"
      <4> HAVE k - 1 # 0
      <4>1. k - 1 \in 1..(Len(q) - 1) /\ (k - 1) + 1 = k
        BY <1>2, <1>3
      <4>2. u[k - 1] = q[k]
        BY <4>1, <1>2
      <4> QED BY <4>2, <1>1, <1>3 DEF From
    <3>2. \A i \in DOMAIN u : i > k - 1 => u[i].type # "initial"
      <4> TAKE i \in DOMAIN u
      <4> HAVE i > k - 1
      <4>1. i + 1 \in DOMAIN q /\ i + 1 > k /\ u[i] = q[i + 1]
        BY <1>2, <1>3
      <4> QED BY <4>1, <1>1 DEF From
    <3>3. \A i, j \in News(u, k - 1) : u[i].note = u[j].note => i = j
      <4> TAKE i, j \in News(u, k - 1)
      <4> HAVE u[i].note = u[j].note
      <4>1. i + 1 = j + 1
        BY <2>3, <1>1 DEF From
      <4>2. i \in Int /\ j \in Int
        BY <2>1
      <4> QED BY <4>1, <4>2
    <3> QED BY <3>1, <3>2, <3>3 DEF From
  <2>6. Base(Shown(p, m).list, u, k - 1) = Base(p.list, q, k)
    <3>1. CASE k = 1
      <4>1. m.type = "initial" /\ m = q[k]
        BY <3>1, <1>1, <1>2 DEF From
      <4>2. Shown(p, m).list = m.list
        BY <4>1 DEF Shown
      <4> QED BY <3>1, <4>1, <4>2 DEF Base
    <3>2. CASE k # 1
      <4>1. k - 1 \in 1..(Len(q) - 1) /\ (k - 1) + 1 = k
        BY <1>2, <1>3, <3>2
      <4>2. u[k - 1] = q[k]
        BY <4>1, <1>2
      <4> QED BY <4>1, <4>2, <3>2, <1>3 DEF Base
    <3> QED BY <3>1, <3>2
  <2>7. k - 1 \in 0..Len(u)
    BY <1>2, <1>3
  <2> QED BY <2>4, <2>5, <2>6, <2>7, <1>1 DEF PageShows, m, u
<1>4. CASE k = 0
  <2>1. m.type # "initial"
    BY <1>1, <1>2, <1>4 DEF From
  <2>11. \A i \in DOMAIN u : u[i].type # "initial"
    <3> TAKE i \in DOMAIN u
    <3>1. i + 1 \in DOMAIN q /\ i + 1 > 0 /\ u[i] = q[i + 1]
      BY <1>2
    <3> QED BY <3>1, <1>1, <1>4 DEF From
  <2>2. News(u, 0) = {i \in 1..(Len(q) - 1) : i + 1 \in News(q, 0)}
    BY <1>2 DEF News
  <2>3. \A i \in News(u, 0) : i + 1 \in News(q, 0) /\ u[i] = q[i + 1] /\ i \in Int /\ i > 0
    BY <2>2, <1>2
  <2>4. \A i, j \in News(u, 0) : u[i].note = u[j].note => i = j
    <3> TAKE i, j \in News(u, 0)
    <3> HAVE u[i].note = u[j].note
    <3>1. i + 1 = j + 1
      BY <2>3, <1>1, <1>4 DEF From
    <3> QED BY <3>1, <2>3
  <2>5. From(u, 0)
    BY <2>11, <2>4 DEF From
  <2>6. Shows(p.list, Notes(q, 0), w)
    BY <1>1, <1>4 DEF Base
  <2>7. \A i \in News(q, 0) : i = 1 \/ (i - 1 \in News(u, 0) /\ u[i - 1] = q[i])
    <3> TAKE i \in News(q, 0)
    <3>1. i \in 1..Len(q) /\ q[i].type = "new"
      BY <1>2 DEF News
    <3>2. CASE i # 1
      <4>1. i - 1 \in 1..(Len(q) - 1) /\ (i - 1) + 1 = i
        BY <3>1, <3>2, <1>2
      <4>2. u[i - 1] = q[i]
        BY <4>1, <1>2
      <4> QED BY <4>1, <4>2, <3>1, <1>2 DEF News
    <3> QED BY <3>2
  <2>8. CASE m.type = "count"
    <3>1. 1 \notin News(q, 0)
      BY <2>8, <1>2 DEF News
    <3>2. Notes(u, 0) = Notes(q, 0)
      BY <3>1, <2>3, <2>7 DEF Notes
    <3>3. Shown(p, m).list = p.list
      BY <2>8 DEF Shown, Seen
    <3>4. 0 \in 0..Len(u) /\ Base(Shown(p, m).list, u, 0) = p.list
      BY <1>2, <3>3 DEF Base
    <3> QED BY <3>2, <3>4, <2>5, <2>6 DEF PageShows, m, u
  <2>9. CASE m.type = "new"
    <3>1. 1 \in News(q, 0) /\ m = q[1]
      BY <2>9, <1>2 DEF News
    <3>2. Notes(q, 0) = Notes(u, 0) \union {m.note}
      BY <3>1, <2>3, <2>7 DEF Notes
    <3>3. m.note \notin Notes(u, 0)
      <4> SUFFICES ASSUME NEW i \in News(u, 0), u[i].note = m.note PROVE FALSE
        BY DEF Notes
      <4>1. i + 1 = 1
        BY <2>3, <3>1, <1>1, <1>4 DEF From
      <4> QED BY <4>1, <2>3
    <3> DEFINE new == <<Entry(m.note, FALSE)>> \o p.list
    <3>4. /\ DOMAIN new = 1..(Len(p.list) + 1) /\ new[1] = Entry(m.note, FALSE)
          /\ \A i \in 2..(Len(p.list) + 1) : new[i] = p.list[i - 1] /\ i - 1 \in DOMAIN p.list
          /\ \A i \in DOMAIN p.list : new[i + 1] = p.list[i] /\ i + 1 \in DOMAIN new
      <4> DEFINE e == Entry(m.note, FALSE)
      <4>1. e \in EntryRow
        BY <1>2, <2>9 DEF Entry, EntryRow, Message
      <4>2. p.list \in Seq(EntryRow)
        BY DEF Seen
      <4> HIDE DEF e
      <4>3. /\ DOMAIN (<<e>> \o p.list) = 1..(Len(p.list) + 1) /\ (<<e>> \o p.list)[1] = e
            /\ \A i \in 2..(Len(p.list) + 1) : (<<e>> \o p.list)[i] = p.list[i - 1]
        BY <4>1, <4>2
      <4>4. DOMAIN p.list = 1..Len(p.list) /\ Len(p.list) \in Nat
        BY <4>2
      <4>5. \A i \in DOMAIN p.list : i + 1 \in 2..(Len(p.list) + 1) /\ (i + 1) - 1 = i
        BY <4>4
      <4> QED BY <4>3, <4>4, <4>5 DEF e
    <3> HIDE DEF new
    <3>5. Shown(p, m).list = new
      BY <2>9 DEF Shown, new
    <3>6. ListedIn(new) = ListedIn(p.list) \union {m.note}
      <4>1. new[1].id = m.note /\ 1 \in DOMAIN new
        BY <3>4 DEF Entry
      <4>2. \A i \in DOMAIN new : i = 1 \/ new[i].id \in ListedIn(p.list)
        BY <3>4 DEF ListedIn
      <4>3. \A i \in DOMAIN p.list : p.list[i].id \in ListedIn(new)
        BY <3>4 DEF ListedIn
      <4> QED BY <4>1, <4>2, <4>3 DEF ListedIn
    <3>7. Shows(new, Notes(u, 0), w)
      <4>1. \A i, j \in DOMAIN new : new[i].id = new[j].id => i = j
        <5>1. \A i \in DOMAIN new : i # 1 => new[i].id # m.note
          <6> TAKE i \in DOMAIN new
          <6> HAVE i # 1
          <6>1. new[i].id \in ListedIn(p.list)
            BY <3>4 DEF ListedIn
          <6>2. m.note \in Notes(q, 0)
            BY <3>2
          <6> QED BY <6>1, <6>2, <2>6 DEF Shows
        <5>2. new[1].id = m.note
          BY <3>4 DEF Entry
        <5>3. ASSUME NEW i \in DOMAIN new, NEW j \in DOMAIN new, i # 1, j # 1, new[i].id = new[j].id
              PROVE  i = j
          <6>1. /\ i \in 2..(Len(p.list) + 1) /\ j \in 2..(Len(p.list) + 1)
                /\ i \in Int /\ j \in Int
            BY <5>3, <3>4
          <6>2. /\ i - 1 \in DOMAIN p.list /\ p.list[i - 1] = new[i]
                /\ j - 1 \in DOMAIN p.list /\ p.list[j - 1] = new[j]
            BY <6>1, <3>4
          <6>3. i - 1 = j - 1
            BY <6>2, <5>3, <2>6 DEF Shows
          <6> QED BY <6>1, <6>3
        <5> QED BY <5>1, <5>2, <5>3
      <4>2. Notes(u, 0) \intersect ListedIn(new) = {}
        BY <3>2, <3>3, <3>6, <2>6 DEF Shows
      <4>3. ListedIn(new) \union Notes(u, 0) = ListedIn(p.list) \union Notes(q, 0)
        BY <3>2, <3>6
      <4>4. \A i \in DOMAIN new : new[i].id \in w.stored => (new[i].isRead <=> new[i].id \in w.ahead)
        <5>1. m.note \in w.stored => m.note \notin w.ahead
          BY <3>2, <2>6 DEF Shows
        <5>2. new[1].id \in w.stored => (new[1].isRead <=> new[1].id \in w.ahead)
          BY <5>1, <3>4 DEF Entry
        <5>3. \A i \in DOMAIN p.list :
                 p.list[i].id \in w.stored => (p.list[i].isRead <=> p.list[i].id \in w.ahead)
          BY <2>6 DEF Shows
        <5>4. \A i \in DOMAIN new : i # 1 => i \in 2..(Len(p.list) + 1)
          BY <3>4
        <5> QED BY <5>2, <5>3, <5>4, <3>4
      <4> QED BY <4>1, <4>2, <4>3, <4>4, <3>2, <2>6 DEF Shows
    <3>8. 0 \in 0..Len(u) /\ Base(Shown(p, m).list, u, 0) = new
      BY <1>2, <3>5 DEF Base
    <3> QED BY <3>7, <3>8, <2>5 DEF PageShows, m, u
  <2> QED BY <2>1, <2>8, <2>9, <1>2 DEF Message
<1> QED BY <1>3, <1>4, <1>2

OpType ==
    [kind : Kinds, at : Server, tab : Tab \union {NoConn}, note : Req \union {NoConn}]

PushTypes ==
    /\ socket \in [Tab -> Conn \union {NoConn}]
    /\ inbox \in [Conn -> Seq(Message)]
    /\ log \in Seq(Req)
    /\ pc \in [Req -> Running \union {"idle", "done"}]
    /\ op \in [Req -> OpType \union {NoOp}]
    /\ got \in [Req -> [list : Seq(EntryRow), total : Nat]]
    /\ page \in [Tab -> Seen]
    /\ overlapped \in [Server -> BOOLEAN]
    /\ calm \in [Tab -> BOOLEAN] /\ quiet \in [Tab -> BOOLEAN]
    /\ \A c \in up : c \in Conn /\ home[c] \in Server
    /\ \A r \in InFlight : op[r] \in OpType

\* The log holds a notification once, and only those whose event got that far.
LogInv ==
    /\ withdrawn \subseteq Created /\ read \subseteq Created
    /\ \A i, j \in DOMAIN log : log[i] = log[j] => i = j
    /\ \A n \in Created : pc[n] \notin {"idle", "create"}
    /\ \A r \in Req : pc[r] = "push" => r \in Created

\* What the badge may say.
Least == Cardinality(Recent \ read)
Most == Cardinality(Unread) + Cardinality(withdrawn)

\* What the badge will be once the queue is handled.
CountSettles(n, q, counts) ==
    IF q = <<>> THEN n \in counts
    ELSE \/ q[Len(q)].type = "initial" /\ UnreadIn(q[Len(q)].list) \in counts
         \/ q[Len(q)].type = "count" /\ q[Len(q)].count \in counts

-----------------------------------------------------------------------------
LEMMA EmptySeq ==
    \A q \in Seq(Message) : Len(q) \in Nat /\ (Len(q) = 0 <=> q = <<>>)
OBVIOUS

LEMMA CountReceived ==
    ASSUME NEW q \in Seq(Message), q # <<>>, NEW p \in Seen, NEW counts,
           CountSettles(p.count, q, counts)
    PROVE  CountSettles(Shown(p, Head(q)).count, Tail(q), counts)
<1> DEFINE u == Tail(q)
<1>1. /\ Len(q) \in Nat /\ Len(q) > 0 /\ Head(q) = q[1]
      /\ u \in Seq(Message) /\ Len(u) = Len(q) - 1
      /\ \A i \in 1..(Len(q) - 1) : u[i] = q[i + 1]
  OBVIOUS
<1> HIDE DEF u
<1>2. CASE Len(q) = 1
  <2>1. u = <<>>
    BY <1>1, <1>2, EmptySeq
  <2>2. CASE Head(q).type = "initial"
    <3>1. Shown(p, Head(q)).count = UnreadIn(Head(q).list)
      BY <2>2 DEF Shown, UnreadIn
    <3> QED BY <1>1, <1>2, <2>1, <2>2, <3>1 DEF CountSettles, u
  <2>3. CASE Head(q).type = "count"
    <3>1. Shown(p, Head(q)).count = Head(q).count
      BY <2>3 DEF Shown, Seen
    <3> QED BY <1>1, <1>2, <2>1, <2>3, <3>1 DEF CountSettles, u
  <2> QED BY <1>1, <1>2, <2>2, <2>3 DEF CountSettles, u
<1>3. CASE Len(q) # 1
  <2>1. /\ u # <<>>
        /\ Len(q) - 1 \in 1..(Len(q) - 1) /\ (Len(q) - 1) + 1 = Len(q)
    <3>1. Len(q) - 1 > 0
      BY <1>1, <1>3
    <3> QED BY <1>1, <3>1, EmptySeq
  <2>2. u[Len(u)] = q[Len(q)]
    BY <1>1, <2>1
  <2> QED BY <2>1, <2>2 DEF CountSettles, u
<1> QED BY <1>2, <1>3

\* An answer makes the page forget what it showed and what it was told before.
LEMMA Answered ==
    ASSUME NEW q \in Seq(Message), NEW m \in Message, m.type = "initial", NEW w,
           Shows(m.list, {}, w), NEW list
    PROVE  PageShows(list, Append(q, m), w)
<1> DEFINE p == Append(q, m)
<1>1. /\ p \in Seq(Message) /\ Len(p) = Len(q) + 1 /\ p[Len(q) + 1] = m
      /\ DOMAIN p = 1..(Len(q) + 1) /\ Len(q) \in Nat
  OBVIOUS
<1> HIDE DEF p
<1>2. News(p, Len(p)) = {}
  BY <1>1 DEF News
<1>3. Notes(p, Len(p)) = {}
  BY <1>2 DEF Notes
<1>4. From(p, Len(p))
  BY <1>1, <1>2 DEF From
<1>5. Base(list, p, Len(p)) = m.list
  BY <1>1 DEF Base
<1>6. Len(p) \in 0..Len(p)
  BY <1>1
<1> QED BY <1>3, <1>4, <1>5, <1>6 DEF PageShows, p

\* An empty queue leaves the page's own list.
LEMMA NothingQueued ==
    ASSUME NEW list, NEW w
    PROVE  PageShows(list, <<>>, w) <=> Shows(list, {}, w)
<1>1. Len(<<>>) = 0 /\ DOMAIN <<>> = {}
  OBVIOUS
<1>2. News(<<>>, 0) = {}
  BY <1>1 DEF News
<1>3. Notes(<<>>, 0) = {}
  BY <1>2 DEF Notes
<1>4. From(<<>>, 0)
  BY <1>1, <1>2 DEF From
<1>5. \A k \in 0..Len(<<>>) : k = 0
  BY <1>1
<1>6. Base(list, <<>>, 0) = list
  BY DEF Base
<1>7. 0 \in 0..Len(<<>>)
  BY <1>1
<1> QED BY <1>3, <1>4, <1>5, <1>6, <1>7 DEF PageShows

-----------------------------------------------------------------------------
LEMMA FiniteLog ==
    ASSUME log \in Seq(Req)
    PROVE  IsFiniteSet(Created)
<1>1. Len(log) \in Nat /\ log \in [1..Len(log) -> Created]
  BY DEF Created
<1>2. log \in Surjection(1..Len(log), Created)
  BY <1>1 DEF Surjection, Created
<1>3. IsFiniteSet(1..Len(log))
  BY <1>1, FS_Interval
<1> QED BY <1>2, <1>3, FS_Surjection

LEMMA FiniteParts ==
    ASSUME log \in Seq(Req), withdrawn \subseteq Created
    PROVE  /\ IsFiniteSet(Unread) /\ Cardinality(Unread) \in Nat
           /\ IsFiniteSet(withdrawn) /\ Cardinality(withdrawn) \in Nat
           /\ IsFiniteSet(Recent \ read) /\ Least \in Nat /\ Most \in Nat
           /\ Least <= Cardinality(Unread)
<1>1. IsFiniteSet(Created)
  BY FiniteLog
<1>2. IsFiniteSet(Unread) /\ IsFiniteSet(withdrawn)
  BY <1>1, FS_Subset DEF Unread, Stored
<1>3. Recent \ read \in SUBSET Unread
  BY DEF Recent, Unread
<1>4. IsFiniteSet(Recent \ read) /\ Cardinality(Recent \ read) <= Cardinality(Unread)
  BY <1>2, <1>3, FS_Subset
<1>5. /\ Cardinality(Unread) \in Nat /\ Cardinality(withdrawn) \in Nat
      /\ Cardinality(Recent \ read) \in Nat
  BY <1>2, <1>4, FS_CardinalityType
<1> QED BY <1>2, <1>4, <1>5 DEF Least, Most

\* A falling enumeration of a finite set of places meets each of them once.
LEMMA Enumerates ==
    ASSUME NEW rows, rows \subseteq Nat, IsFiniteSet(rows), NEW ns \in NewestFirst(rows)
    PROVE  /\ ns \in [1..Cardinality(rows) -> rows]
           /\ \A i, j \in DOMAIN ns : ns[i] = ns[j] => i = j
           /\ \A x \in rows : \E i \in DOMAIN ns : ns[i] = x
<1> DEFINE c == Cardinality(rows)
<1>1. /\ ns \in [1..c -> rows] /\ DOMAIN ns = 1..c
      /\ \A i, j \in DOMAIN ns : i < j => ns[i] > ns[j]
  BY DEF NewestFirst
<1>2. c \in Nat
  BY FS_CardinalityType
<1> HIDE DEF c
<1>3. \A i, j \in DOMAIN ns : ns[i] = ns[j] => i = j
  <2> TAKE i, j \in DOMAIN ns
  <2>1. i \in Int /\ j \in Int /\ ns[i] \in Int /\ ns[j] \in Int
    <3>1. i \in 1..c /\ j \in 1..c
      BY <1>1
    <3>2. ns[i] \in rows /\ ns[j] \in rows
      BY <1>1
    <3>3. ns[i] \in Nat /\ ns[j] \in Nat
      BY <3>2
    <3>4. i \in Int /\ j \in Int
      BY <3>1, <1>2
    <3> QED BY <3>3, <3>4
  <2>2. i < j => ns[i] > ns[j]
    BY <1>1
  <2>3. j < i => ns[j] > ns[i]
    BY <1>1
  <2> QED BY <2>1, <2>2, <2>3
<1>4. ns \in Injection(1..c, rows)
  BY <1>1, <1>3 DEF Injection, IsInjective
<1>5. Cardinality(1..c) = c
  BY <1>2, FS_Interval
<1>6. ns \in Surjection(1..c, rows)
  BY <1>4, <1>5, FS_Injection DEF c
<1>7. \A x \in rows : \E i \in DOMAIN ns : ns[i] = x
  BY <1>6, <1>1 DEF Surjection
<1> QED BY <1>1, <1>3, <1>7 DEF c

LEMMA EntryType ==
    \A n \in Req, b \in BOOLEAN : Entry(n, b) \in EntryRow
BY DEF Entry, EntryRow

\* A query answers rows of the table, whatever else goes on.
LEMMA QueryRows ==
    ASSUME log \in Seq(Req), NEW ns \in NewestFirst({i \in Rows : Newer(i) < Limit})
    PROVE  [i \in DOMAIN ns |-> Entry(log[ns[i]], log[ns[i]] \in read)] \in Seq(EntryRow)
<1> DEFINE rows == {i \in Rows : Newer(i) < Limit}
           list == [i \in DOMAIN ns |-> Entry(log[ns[i]], log[ns[i]] \in read)]
<1>1. /\ Len(log) \in Nat /\ rows \in SUBSET (1..Len(log))
      /\ \A i \in rows : log[i] \in Req
  BY DEF Rows
<1>2. IsFiniteSet(rows)
  <2>1. 1 \in Int /\ Len(log) \in Int
    BY <1>1
  <2>2. IsFiniteSet(1..Len(log))
    BY <2>1, FS_Interval
  <2> QED BY <1>1, <2>2, FS_Subset
<1>3. Cardinality(rows) \in Nat
  BY <1>2, FS_CardinalityType
<1>4. ns \in [1..Cardinality(rows) -> rows]
  BY DEF NewestFirst
<1> HIDE DEF rows
<1>5. \A i \in 1..Cardinality(rows) : list[i] \in EntryRow
  <2> TAKE i \in 1..Cardinality(rows)
  <2>1. log[ns[i]] \in Req
    BY <1>1, <1>4
  <2>2. list[i] = Entry(log[ns[i]], log[ns[i]] \in read)
    BY <1>4
  <2>3. (log[ns[i]] \in read) \in BOOLEAN
    OBVIOUS
  <2> HIDE DEF list
  <2> QED BY <2>1, <2>2, <2>3, EntryType
<1>6. list \in [1..Cardinality(rows) -> EntryRow]
  BY <1>4, <1>5
<1> HIDE DEF list
<1>7. list \in Seq(EntryRow)
  BY <1>3, <1>6
<1> QED BY <1>7 DEF list

\* What a query answers when no other event is between its own steps.
LEMMA QueryAnswers ==
    ASSUME log \in Seq(Req), LogInv,
           \A r \in Req : pc[r] \notin {"push", "update"},
           NEW ns \in NewestFirst({i \in Rows : Newer(i) < Limit}),
           NEW list, list = [i \in DOMAIN ns |-> Entry(log[ns[i]], log[ns[i]] \in read)]
    PROVE  /\ list \in Seq(EntryRow)
           /\ Shows(list, {}, World)
           /\ UnreadIn(list) \in Least..Most
<1> DEFINE rows == {i \in Rows : Newer(i) < Limit}
<1>1. Len(log) \in Nat /\ DOMAIN log = 1..Len(log) /\ rows \in SUBSET (1..Len(log))
      /\ rows \subseteq Nat /\ \A i \in rows : log[i] \in Stored
  BY DEF Rows
<1>2. IsFiniteSet(1..Len(log)) /\ IsFiniteSet(rows)
  <2>1. 1 \in Int /\ Len(log) \in Int
    BY <1>1
  <2>2. IsFiniteSet(1..Len(log))
    BY <2>1, FS_Interval
  <2> QED BY <1>1, <2>2, FS_Subset
<1>3. Cardinality(rows) \in Nat
  BY <1>2, FS_CardinalityType
<1>4. /\ ns \in [1..Cardinality(rows) -> rows]
      /\ \A i, j \in DOMAIN ns : ns[i] = ns[j] => i = j
      /\ \A x \in rows : \E i \in DOMAIN ns : ns[i] = x
  BY <1>1, <1>2, Enumerates
<1>5. \A n \in Recent : \E x \in rows : log[x] = n
  <2> TAKE n \in Recent
  <2>1. PICK x \in 1..Len(log) : log[x] = n /\ x + Limit > Len(log)
    BY DEF Recent
  <2>2. n \in Stored /\ x \in Rows
    BY <2>1 DEF Recent, Rows
  <2>3. {j \in Rows : j > x} \in SUBSET ((x + 1)..Len(log))
    BY <1>1 DEF Rows
  <2>4. IsFiniteSet((x + 1)..Len(log)) /\ Cardinality((x + 1)..Len(log)) <= Len(log) - x
    <3>1. x + 1 \in Int /\ Len(log) \in Int /\ x \in Int /\ x <= Len(log)
      BY <1>1
    <3>2. /\ IsFiniteSet((x + 1)..Len(log))
          /\ Cardinality((x + 1)..Len(log))
               = IF x + 1 > Len(log) THEN 0 ELSE Len(log) - (x + 1) + 1
      BY <3>1, FS_Interval
    <3> QED BY <3>1, <3>2
  <2>5. /\ IsFiniteSet({j \in Rows : j > x})
        /\ Cardinality({j \in Rows : j > x}) <= Cardinality((x + 1)..Len(log))
    BY <2>3, <2>4, FS_Subset
  <2>6. /\ Cardinality({j \in Rows : j > x}) \in Nat
        /\ Cardinality((x + 1)..Len(log)) \in Nat
    BY <2>4, <2>5, FS_CardinalityType
  <2>7. Newer(x) < Limit
    BY <2>1, <2>4, <2>5, <2>6, <1>1, NotificationPushAssumption DEF Newer
  <2> QED BY <2>1, <2>2, <2>7
<1> HIDE DEF rows
<1>6. /\ DOMAIN list = 1..Cardinality(rows) /\ DOMAIN ns = 1..Cardinality(rows)
      /\ \A i \in DOMAIN list : /\ list[i].id = log[ns[i]]
                                /\ list[i].isRead <=> log[ns[i]] \in read
                                /\ ns[i] \in rows /\ log[ns[i]] \in Stored
  BY <1>1, <1>4 DEF Entry
<1>7. list \in Seq(EntryRow)
  BY QueryRows
<1>8. /\ World.announced = Created /\ World.recent = Recent /\ World.stored = Stored
      /\ World.ahead = read
  <2>1. \A n \in Created : n \in Req
    BY <1>1 DEF Created
  <2>2. Announced = Created
    BY <2>1 DEF Announced
  <2>3. Ahead = read
    BY DEF Ahead
  <2> QED BY <2>2, <2>3 DEF World
<1>9. \A i, j \in DOMAIN list : list[i].id = list[j].id => i = j
  <2> TAKE i, j \in DOMAIN list
  <2> HAVE list[i].id = list[j].id
  <2>1. ns[i] = ns[j]
    <3>1. ns[i] \in DOMAIN log /\ ns[j] \in DOMAIN log
      BY <1>6, <1>1
    <3> QED BY <3>1, <1>6 DEF LogInv
  <2> QED BY <2>1, <1>4, <1>6
<1>10. ListedIn(list) \subseteq Stored /\ Recent \subseteq ListedIn(list)
  <2>1. \A n \in Recent : \E i \in DOMAIN list : list[i].id = n
    <3> TAKE n \in Recent
    <3>1. PICK x \in rows : log[x] = n
      BY <1>5
    <3>2. PICK i \in DOMAIN ns : ns[i] = x
      BY <1>4
    <3> QED BY <3>1, <3>2, <1>6
  <2> QED BY <2>1, <1>6 DEF ListedIn
<1>11. Shows(list, {}, World)
  BY <1>6, <1>8, <1>9, <1>10 DEF Shows, Stored
<1>12. UnreadIn(list) \in Least..Most
  <2> DEFINE U == {i \in DOMAIN list : ~list[i].isRead}
             f == [i \in U |-> list[i].id]
             V == {list[i].id : i \in U}
  <2>1. U \in SUBSET (1..Cardinality(rows)) /\ IsFiniteSet(1..Cardinality(rows))
    BY <1>3, <1>6, FS_Interval
  <2>2. IsFiniteSet(U)
    BY <2>1, FS_Subset
  <2>3. f \in Surjection(U, V)
    BY DEF Surjection
  <2>4. f \in Injection(U, V)
    BY <1>9 DEF Injection, IsInjective
  <2>5. IsFiniteSet(V) /\ Cardinality(V) = Cardinality(U)
    BY <2>2, <2>3, <2>4, FS_Surjection
  <2>6. V \in SUBSET Unread
    BY <1>6 DEF Unread
  <2>7. Recent \ read \in SUBSET V
    <3> SUFFICES ASSUME NEW n \in Recent \ read PROVE n \in V
      OBVIOUS
    <3>1. PICK i \in DOMAIN list : list[i].id = n
      BY <1>10 DEF ListedIn
    <3> QED BY <3>1, <1>6
  <2>8. /\ IsFiniteSet(Unread) /\ Cardinality(Unread) \in Nat
        /\ Cardinality(withdrawn) \in Nat /\ Least \in Nat
    BY FiniteParts DEF LogInv
  <2>9. Cardinality(V) <= Cardinality(Unread)
    BY <2>6, <2>8, FS_Subset
  <2>10. Cardinality(Recent \ read) <= Cardinality(V)
    BY <2>5, <2>7, FS_Subset
  <2>11. Cardinality(V) \in Nat
    BY <2>5, FS_CardinalityType
  <2>12. UnreadIn(list) = Cardinality(V)
    BY <2>5 DEF UnreadIn
  <2> HIDE DEF V, U, f
  <2> QED BY <2>8, <2>9, <2>10, <2>11, <2>12 DEF Least, Most
<1> QED BY <1>7, <1>11, <1>12

-----------------------------------------------------------------------------
(***************************************************************************)
(* The types of the state.                                                  *)
(***************************************************************************)
LEMMA HandleTypes ==
    ASSUME PushTypes, NEW r \in Req, NEW k \in Kinds, NEW s \in Server,
           NEW t \in Tab \union {NoConn}, NEW n \in Req \union {NoConn}, Handle(r, k, s, t, n)
    PROVE  /\ pc' \in [Req -> Running \union {"idle", "done"}]
           /\ op' \in [Req -> OpType \union {NoOp}]
           /\ \A x \in InFlight' : op'[x] \in OpType
<1>1. [kind |-> k, at |-> s, tab |-> t, note |-> n] \in OpType
  BY DEF OpType
<1>2. op' \in [Req -> OpType \union {NoOp}] /\ op'[r] \in OpType
  BY <1>1 DEF Handle, PushTypes
<1>3. pc' \in [Req -> Running \union {"idle", "done"}]
  BY DEF Handle, PushTypes, Running, Kinds
<1>4. \A x \in Req : x # r => pc'[x] = pc[x] /\ op'[x] = op[x]
  BY DEF Handle, PushTypes
<1>5. \A x \in InFlight' : op'[x] \in OpType
  BY <1>2, <1>4 DEF PushTypes, InFlight
<1> QED BY <1>2, <1>3, <1>5

LEMMA EmitTypes ==
    ASSUME PushTypes, NEW s, NEW m \in Message, Emit(s, m)
    PROVE  inbox' \in [Conn -> Seq(Message)]
<1>1. \A c \in Conn : Append(inbox[c], m) \in Seq(Message) /\ inbox[c] \in Seq(Message)
  BY DEF PushTypes
<1> QED BY <1>1 DEF Emit

LEMMA NothingReadType == NothingRead \in [list : Seq(EntryRow), total : Nat]
BY DEF NothingRead

LEMMA FinishTypes ==
    ASSUME PushTypes, NEW r \in Req, Finish(r)
    PROVE  /\ pc' \in [Req -> Running \union {"idle", "done"}]
           /\ op' \in [Req -> OpType \union {NoOp}]
           /\ got' \in [Req -> [list : Seq(EntryRow), total : Nat]]
           /\ \A x \in InFlight' : op'[x] \in OpType
<1>1. pc' \in [Req -> Running \union {"idle", "done"}] /\ op' \in [Req -> OpType \union {NoOp}]
  BY DEF PushTypes, Finish, Goto
<1>2. got' \in [Req -> [list : Seq(EntryRow), total : Nat]]
  BY NothingReadType DEF PushTypes, Finish
<1>3. \A x \in InFlight' : x # r /\ x \in InFlight /\ op'[x] = op[x]
  BY DEF PushTypes, Finish, Goto, InFlight, Running
<1> QED BY <1>1, <1>2, <1>3 DEF PushTypes

LEMMA GotoTypes ==
    ASSUME PushTypes, NEW r \in Req, NEW l \in Running, pc[r] \in Running, Goto(r, l), op' = op
    PROVE  /\ pc' \in [Req -> Running \union {"idle", "done"}]
           /\ op' \in [Req -> OpType \union {NoOp}]
           /\ \A x \in InFlight' : op'[x] \in OpType
<1>1. \A x \in InFlight' : x \in InFlight
  BY DEF PushTypes, Goto, InFlight
<1> QED BY <1>1 DEF PushTypes, Goto

LEMMA DetachTypes ==
    ASSUME PushTypes, NEW cs, Detach(cs)
    PROVE  /\ socket' \in [Tab -> Conn \union {NoConn}]
           /\ inbox' \in [Conn -> Seq(Message)]
           /\ up' \subseteq up
<1>1. \A c \in Conn : inbox[c] \in Seq(Message)
  BY DEF PushTypes
<1>2. <<>> \in Seq(Message)
  OBVIOUS
<1> QED BY <1>1, <1>2 DEF PushTypes, Detach

LEMMA MarkTypes ==
    ASSUME PushTypes, NEW t \in Tab, NEW ns, NEW count \in Nat, MarkLocally(t, ns, count)
    PROVE  /\ page' \in [Tab -> Seen]
           /\ \A u \in Tab : u # t => page'[u] = page[u]
           /\ page'[t].count = count
           /\ page'[t].list \in Seq(EntryRow) /\ Len(page'[t].list) = Len(page[t].list)
           /\ \A i \in DOMAIN page[t].list :
                 /\ page'[t].list[i].id = page[t].list[i].id
                 /\ page'[t].list[i].isRead <=> page[t].list[i].isRead \/ page[t].list[i].id \in ns
<1> DEFINE old == page[t].list
           new == [i \in DOMAIN old |-> IF old[i].id \in ns THEN Entry(old[i].id, TRUE) ELSE old[i]]
<1>1. old \in Seq(EntryRow) /\ page[t] \in Seen
  BY DEF PushTypes, Seen
<1>2. DOMAIN old = 1..Len(old) /\ Len(old) \in Nat /\ \A i \in DOMAIN old : old[i] \in EntryRow
  BY <1>1
<1>3. page' = [page EXCEPT ![t] = [list |-> new, count |-> count]]
  BY DEF MarkLocally
<1> HIDE DEF old
<1>4. \A i \in 1..Len(old) : new[i] \in EntryRow
  BY <1>2 DEF Entry, EntryRow
<1>5. /\ \A i \in DOMAIN old : new[i].id = old[i].id
      /\ \A i \in DOMAIN old : new[i].isRead <=> old[i].isRead \/ old[i].id \in ns
  BY <1>2 DEF Entry, EntryRow
<1>6. new \in [1..Len(old) -> EntryRow]
  BY <1>2, <1>4
<1> HIDE DEF new
<1>7. new \in Seq(EntryRow) /\ Len(new) = Len(old)
  BY <1>2, <1>6
<1>8. page'[t] = [list |-> new, count |-> count]
  BY <1>3 DEF PushTypes
<1>9. page' \in [Tab -> Seen]
  BY <1>3, <1>7 DEF PushTypes, Seen
<1>10. \A u \in Tab : u # t => page'[u] = page[u]
  BY <1>3 DEF PushTypes
<1> QED BY <1>5, <1>7, <1>8, <1>9, <1>10 DEF old

LEMMA ShownType ==
    ASSUME NEW p \in Seen, NEW m \in Message
    PROVE  Shown(p, m) \in Seen
<1>1. CASE m.type = "initial"
  <2>1. m.list \in Seq(EntryRow)
    BY <1>1 DEF Message
  <2>2. Len(m.list) \in Nat /\ DOMAIN m.list = 1..Len(m.list)
    BY <2>1
  <2>3. IsFiniteSet(1..Len(m.list))
    <3>1. 1 \in Int /\ Len(m.list) \in Int
      BY <2>2
    <3> QED BY <3>1, FS_Interval
  <2> DEFINE U == {i \in DOMAIN m.list : ~m.list[i].isRead}
  <2>4. U \in SUBSET (1..Len(m.list))
    BY <2>2
  <2>5. IsFiniteSet(U)
    BY <2>3, <2>4, FS_Subset
  <2>6. Cardinality(U) \in Nat
    BY <2>5, FS_CardinalityType
  <2>7. Shown(p, m) = [list |-> m.list, count |-> Cardinality(U)]
    BY <1>1 DEF Shown
  <2> HIDE DEF U
  <2> QED BY <2>1, <2>6, <2>7 DEF Seen
<1>2. CASE m.type = "new"
  <2> DEFINE e == Entry(m.note, FALSE)
  <2>1. e \in EntryRow
    BY <1>2 DEF Message, Entry, EntryRow
  <2>2. p.list \in Seq(EntryRow) /\ p.count \in Nat
    BY DEF Seen
  <2>3. Shown(p, m) = [list |-> <<e>> \o p.list, count |-> p.count + 1]
    BY <1>2 DEF Shown
  <2> HIDE DEF e
  <2>4. <<e>> \o p.list \in Seq(EntryRow)
    BY <2>1, <2>2
  <2> QED BY <2>2, <2>3, <2>4 DEF Seen
<1>3. CASE m.type = "count"
  BY <1>3 DEF Message, Shown, Seen
<1> QED BY <1>1, <1>2, <1>3 DEF Message

LEMMA MessageTypes ==
    /\ \A r \in Req : [type |-> "new", note |-> r] \in Message
    /\ \A list \in Seq(EntryRow) : [type |-> "initial", list |-> list] \in Message
    /\ \A n \in Nat : [type |-> "count", count |-> n] \in Message
BY DEF Message

LEMMA CreatedInReq ==
    ASSUME log \in Seq(Req)
    PROVE  Created \subseteq Req
<1>1. \A i \in 1..Len(log) : log[i] \in Req
  OBVIOUS
<1> QED BY <1>1 DEF Created

LEMMA GhostTypes ==
    ASSUME PushTypes, NEW t \in Tab, NEW r \in Req,
           \/ UNCHANGED <<calm, quiet>>
           \/ FetchBegins(t) \/ SendBegins \/ MarkBegins(t)
           \/ NoteGoesOut(r) \/ AnswerGoesOut(r) \/ BadgeGoesOut(r)
    PROVE  calm' \in [Tab -> BOOLEAN] /\ quiet' \in [Tab -> BOOLEAN]
<1>1. CASE UNCHANGED <<calm, quiet>>
  BY <1>1 DEF PushTypes
<1>2. CASE FetchBegins(t)
  BY <1>2 DEF PushTypes, FetchBegins
<1>3. CASE SendBegins
  BY <1>3 DEF PushTypes, SendBegins
<1>4. CASE MarkBegins(t)
  BY <1>4 DEF PushTypes, MarkBegins
<1>5. CASE NoteGoesOut(r)
  BY <1>5 DEF PushTypes, NoteGoesOut
<1>6. CASE AnswerGoesOut(r)
  BY <1>6 DEF PushTypes, AnswerGoesOut
<1>7. CASE BadgeGoesOut(r)
  BY <1>7 DEF PushTypes, BadgeGoesOut
<1> QED BY <1>1, <1>2, <1>3, <1>4, <1>5, <1>6, <1>7

LEMMA TellTypes ==
    ASSUME PushTypes, NEW t \in Tab, NEW r \in Req, NEW k \in Kinds,
           NEW n \in Req \union {NoConn}, Tell(t, r, k, n)
    PROVE  /\ pc' \in [Req -> Running \union {"idle", "done"}]
           /\ op' \in [Req -> OpType \union {NoOp}]
           /\ calm' \in [Tab -> BOOLEAN] /\ quiet' \in [Tab -> BOOLEAN]
           /\ \A x \in InFlight' : op'[x] \in OpType
<1>1. CASE t \in Attached /\ Handle(r, k, home[socket[t]], t, n) /\ MarkBegins(t)
  <2>1. home[socket[t]] \in Server
    BY <1>1 DEF Attached, PushTypes
  <2>2. calm' \in [Tab -> BOOLEAN] /\ quiet' \in [Tab -> BOOLEAN]
    BY <1>1, GhostTypes
  <2> QED BY <1>1, <2>1, <2>2, HandleTypes
<1>2. CASE t \notin Attached /\ UNCHANGED <<pc, op, calm, quiet>>
  <2>1. InFlight' = InFlight
    BY <1>2 DEF InFlight
  <2> QED BY <1>2, <2>1 DEF PushTypes
<1> QED BY <1>1, <1>2 DEF Tell

LEMMA StepTypes ==
    ASSUME PushTypes, RegistryInv, LogInv, NEW r \in Req, Step(r)
    PROVE  PushTypes'
<1>1. CASE Create(r)
  <2>1. pc[r] \in Running /\ "push" \in Running /\ Goto(r, "push") /\ op' = op
    BY <1>1 DEF Create, Running
  <2>2. log' \in Seq(Req)
    BY <1>1 DEF Create, PushTypes
  <2> QED BY <1>1, <2>1, <2>2, GotoTypes DEF Create, PushTypes, sockets, ghosts
<1>0. ASSUME NoteGoesOut(r) \/ AnswerGoesOut(r) \/ BadgeGoesOut(r)
      PROVE  calm' \in [Tab -> BOOLEAN] /\ quiet' \in [Tab -> BOOLEAN]
  BY <1>0 DEF NoteGoesOut, AnswerGoesOut, BadgeGoesOut, PushTypes
<1>2. CASE Push(r)
  <2>1. CASE registry[op[r].at] = NoConn
    BY <1>2, <2>1, <1>0, FinishTypes DEF Push, PushTypes, sockets, rowsOfUser, ghosts
  <2>2. CASE registry[op[r].at] # NoConn
    <3>1. pc[r] \in Running /\ "count" \in Running /\ Goto(r, "count") /\ op' = op
      BY <1>2, <2>2 DEF Push, Running
    <3>2. inbox' \in [Conn -> Seq(Message)]
      BY <1>2, <2>2, EmitTypes, MessageTypes DEF Push
    <3> QED BY <1>2, <2>2, <3>1, <3>2, <1>0, GotoTypes DEF Push, PushTypes, sockets, rowsOfUser, ghosts
  <2> QED BY <2>1, <2>2
<1>3. CASE Query(r)
  <2>1. pc[r] \in Running /\ "initial" \in Running /\ Goto(r, "initial") /\ op' = op
    BY <1>3 DEF Query, Running
  <2>2. PICK ns \in NewestFirst({i \in Rows : Newer(i) < Limit}) :
          got' = [got EXCEPT ![r].list = [i \in DOMAIN ns |-> Entry(log[ns[i]], log[ns[i]] \in read)]]
    BY <1>3 DEF Query
  <2> DEFINE list == [i \in DOMAIN ns |-> Entry(log[ns[i]], log[ns[i]] \in read)]
  <2>3. list \in Seq(EntryRow)
    BY QueryRows DEF PushTypes
  <2>4. got' = [got EXCEPT ![r].list = list]
    BY <2>2
  <2> HIDE DEF list
  <2>5. got' \in [Req -> [list : Seq(EntryRow), total : Nat]]
    BY <2>3, <2>4 DEF PushTypes
  <2> QED BY <1>3, <2>1, <2>5, GotoTypes DEF Query, PushTypes, sockets, rowsOfUser, ghosts
<1>4. CASE Initial(r)
  <2>1. got[r].list \in Seq(EntryRow)
    BY DEF PushTypes
  <2>2. inbox' \in [Conn -> Seq(Message)]
    BY <1>4, <2>1, EmitTypes, MessageTypes DEF Initial
  <2> QED BY <1>4, <2>2, <1>0, FinishTypes DEF Initial, PushTypes, sockets, rowsOfUser, ghosts
<1>5. CASE Update(r)
  <2>1. \E l \in Running : Goto(r, l)
    BY <1>5 DEF Update, Running
  <2>2. pc[r] \in Running /\ op' = op
    BY <1>5 DEF Update, Running
  <2>3. got' \in [Req -> [list : Seq(EntryRow), total : Nat]]
    <3>1. CASE op[r].kind = "mark"
      BY <1>5, <3>1 DEF Update, PushTypes
    <3>2. CASE op[r].kind # "mark"
      <4>1. got' = [got EXCEPT ![r].total = 0]
        BY <1>5, <3>2 DEF Update
      <4> QED BY <4>1 DEF PushTypes
    <3> QED BY <3>1, <3>2
  <2>4. /\ pc' \in [Req -> Running \union {"idle", "done"}]
        /\ op' \in [Req -> OpType \union {NoOp}]
        /\ \A x \in InFlight' : op'[x] \in OpType
    BY <2>1, <2>2, GotoTypes
  <2> QED BY <1>5, <2>3, <2>4 DEF Update, PushTypes, sockets, ghosts
<1>6. CASE Count(r)
  <2>1. pc[r] \in Running /\ "badge" \in Running /\ Goto(r, "badge") /\ op' = op
    BY <1>6 DEF Count, Running
  <2>2. Cardinality(Unread) \in Nat
    BY FiniteParts DEF PushTypes, LogInv
  <2>3. got' \in [Req -> [list : Seq(EntryRow), total : Nat]]
    BY <1>6, <2>2 DEF Count, PushTypes
  <2> QED BY <1>6, <2>1, <2>3, GotoTypes DEF Count, PushTypes, sockets, rowsOfUser, ghosts
<1>7. CASE Badge(r)
  <2>1. got[r].total \in Nat
    BY DEF PushTypes
  <2>2. inbox' \in [Conn -> Seq(Message)]
    BY <1>7, <2>1, EmitTypes, MessageTypes DEF Badge
  <2> QED BY <1>7, <2>2, <1>0, FinishTypes DEF Badge, PushTypes, sockets, rowsOfUser, ghosts
<1> QED BY <1>1, <1>2, <1>3, <1>4, <1>5, <1>6, <1>7 DEF Step

LEMMA TypesStep ==
    ASSUME PushTypes, RegistryInv, LogInv, [Next]_vars
    PROVE  PushTypes'
<1>1. CASE UNCHANGED vars
  <2>1. InFlight' = InFlight
    BY <1>1 DEF vars, InFlight
  <2> QED BY <1>1, <2>1 DEF vars, sockets, rowsOfUser, ghosts, PushTypes
<1>2. ASSUME NEW t \in Tab, Leave(t) PROVE PushTypes'
  <2>1. socket' \in [Tab -> Conn \union {NoConn}]
    BY <1>2 DEF Leave, PushTypes
  <2>2. inbox' \in [Conn -> Seq(Message)]
    <3>1. <<>> \in Seq(Message)
      OBVIOUS
    <3> QED BY <1>2, <3>1 DEF Leave, PushTypes
  <2>3. InFlight' = InFlight
    BY <1>2 DEF Leave, InFlight
  <2> QED BY <1>2, <2>1, <2>2, <2>3 DEF Leave, PushTypes, rowsOfUser, ghosts
<1>3. ASSUME NEW t \in Tab, Receive(t) PROVE PushTypes'
  <2> DEFINE q == inbox[socket[t]]
  <2>1. q \in Seq(Message) /\ q # <<>> /\ page[t] \in Seen
    BY <1>3 DEF Receive, PushTypes
  <2>2. /\ page' = [page EXCEPT ![t] = Shown(@, Head(q))]
        /\ inbox' = [inbox EXCEPT ![socket[t]] = Tail(@)]
    BY <1>3 DEF Receive
  <2>3. Head(q) \in Message /\ Tail(q) \in Seq(Message)
    BY <2>1
  <2>4. Shown(page[t], Head(q)) \in Seen
    BY <2>1, <2>3, ShownType
  <2>5. page' \in [Tab -> Seen]
    BY <2>2, <2>4 DEF PushTypes
  <2>6. inbox' \in [Conn -> Seq(Message)]
    BY <2>2, <2>3 DEF PushTypes
  <2>7. InFlight' = InFlight
    BY <1>3 DEF Receive, InFlight
  <2> QED BY <1>3, <2>5, <2>6, <2>7 DEF Receive, PushTypes, sockets, rowsOfUser, ghosts
<1>4. ASSUME NEW c \in Conn, Disconnect(c) PROVE PushTypes'
  <2>1. InFlight' = InFlight
    BY <1>4 DEF Disconnect, InFlight
  <2> QED BY <1>4, <2>1, DetachTypes DEF Disconnect, PushTypes, rowsOfUser, ghosts
<1>5. ASSUME NEW s \in Server, Restart(s) PROVE PushTypes'
  <2> DEFINE lost == {r \in InFlight : op[r].at = s}
  <2>1. /\ pc' = [r \in Req |-> IF r \in lost THEN "done" ELSE pc[r]]
        /\ op' = [r \in Req |-> IF r \in lost THEN NoOp ELSE op[r]]
        /\ got' = [r \in Req |-> IF r \in lost THEN NothingRead ELSE got[r]]
    BY <1>5 DEF Restart
  <2>2. /\ socket' \in [Tab -> Conn \union {NoConn}]
        /\ inbox' \in [Conn -> Seq(Message)]
        /\ up' \subseteq up
    BY <1>5, DetachTypes DEF Restart
  <2> HIDE DEF lost
  <2>3. pc' \in [Req -> Running \union {"idle", "done"}] /\ op' \in [Req -> OpType \union {NoOp}]
    BY <2>1 DEF PushTypes
  <2>4. got' \in [Req -> [list : Seq(EntryRow), total : Nat]]
    BY <2>1, NothingReadType DEF PushTypes
  <2>5. \A x \in InFlight' : x \notin lost /\ x \in InFlight /\ op'[x] = op[x]
    BY <2>1 DEF InFlight, Running
  <2>6. calm' \in [Tab -> BOOLEAN] /\ quiet' \in [Tab -> BOOLEAN]
    BY <1>5 DEF Restart
  <2> QED BY <1>5, <2>2, <2>3, <2>4, <2>5, <2>6 DEF Restart, PushTypes, rowsOfUser
<1>6. ASSUME NEW r \in Req, Step(r) PROVE PushTypes'
  BY <1>6, StepTypes
<1>7. ASSUME NEW r \in Req, NEW s \in Server, SendNotification(r, s) PROVE PushTypes'
  <2>1. "send" \in Kinds /\ calm' \in [Tab -> BOOLEAN] /\ quiet' \in [Tab -> BOOLEAN]
    BY <1>7 DEF SendNotification, SendBegins, Kinds
  <2>2. /\ pc' \in [Req -> Running \union {"idle", "done"}]
        /\ op' \in [Req -> OpType \union {NoOp}]
        /\ \A x \in InFlight' : op'[x] \in OpType
    BY <1>7, <2>1, HandleTypes DEF SendNotification
  <2> QED BY <1>7, <2>1, <2>2 DEF SendNotification, PushTypes, sockets, rowsOfUser
<1>8. ASSUME NEW r \in Req, NEW t \in Tab, NEW c \in Conn, NEW s \in Server, Connect(t, c, s, r)
      PROVE  PushTypes'
  <2>1. "get" \in Kinds /\ calm' \in [Tab -> BOOLEAN] /\ quiet' \in [Tab -> BOOLEAN]
    BY <1>8, GhostTypes DEF Connect, Kinds
  <2>2. /\ pc' \in [Req -> Running \union {"idle", "done"}]
        /\ op' \in [Req -> OpType \union {NoOp}]
        /\ \A x \in InFlight' : op'[x] \in OpType
    BY <1>8, <2>1, HandleTypes DEF Connect
  <2>3. socket' \in [Tab -> Conn \union {NoConn}]
    BY <1>8 DEF Connect, PushTypes
  <2>4. \A d \in up' : d \in Conn /\ home'[d] \in Server
    BY <1>8 DEF Connect, PushTypes, RegistryInv
  <2>5. overlapped' \in [Server -> BOOLEAN]
    BY <1>8 DEF Connect, PushTypes
  <2> QED BY <1>8, <2>1, <2>2, <2>3, <2>4, <2>5 DEF Connect, PushTypes, rowsOfUser
<1>9. ASSUME NEW r \in Req, NEW t \in Tab, GetNotifications(t, r) PROVE PushTypes'
  <2>1. "get" \in Kinds /\ home[socket[t]] \in Server
    BY <1>9 DEF GetNotifications, Kinds, PushTypes, Attached
  <2>3. calm' \in [Tab -> BOOLEAN] /\ quiet' \in [Tab -> BOOLEAN]
    BY <1>9, GhostTypes DEF GetNotifications
  <2>2. /\ pc' \in [Req -> Running \union {"idle", "done"}]
        /\ op' \in [Req -> OpType \union {NoOp}]
        /\ \A x \in InFlight' : op'[x] \in OpType
    BY <1>9, <2>1, HandleTypes DEF GetNotifications
  <2> QED BY <1>9, <2>1, <2>2, <2>3 DEF GetNotifications, PushTypes, sockets, rowsOfUser
<1>10. ASSUME NEW r \in Req, NEW t \in Tab, MarkAllRead(t, r) PROVE PushTypes'
  <2>1. "markAll" \in Kinds /\ 0 \in Nat
    BY DEF Kinds
  <2>2. page' \in [Tab -> Seen]
    BY <1>10, <2>1, MarkTypes DEF MarkAllRead
  <2>3. /\ pc' \in [Req -> Running \union {"idle", "done"}]
        /\ op' \in [Req -> OpType \union {NoOp}]
        /\ calm' \in [Tab -> BOOLEAN] /\ quiet' \in [Tab -> BOOLEAN]
        /\ \A x \in InFlight' : op'[x] \in OpType
    BY <1>10, <2>1, TellTypes DEF MarkAllRead
  <2> QED BY <1>10, <2>2, <2>3 DEF MarkAllRead, PushTypes, sockets, rowsOfUser
<1>11. ASSUME NEW r \in Req, NEW t \in Tab, NEW n \in Created, MarkAsRead(t, n, r) PROVE PushTypes'
  <2> DEFINE count == IF page[t].count > 0 THEN page[t].count - 1 ELSE 0
  <2>1. "mark" \in Kinds /\ count \in Nat
    <3>1. page[t].count \in Nat
      BY DEF PushTypes, Seen
    <3> QED BY <3>1 DEF Kinds
  <2>2. MarkLocally(t, {n}, count) /\ Tell(t, r, "mark", n)
    BY <1>11 DEF MarkAsRead
  <2>3. n \in Req
    BY CreatedInReq DEF PushTypes
  <2> HIDE DEF count
  <2>4. page' \in [Tab -> Seen]
    BY <2>1, <2>2, MarkTypes
  <2>5. /\ pc' \in [Req -> Running \union {"idle", "done"}]
        /\ op' \in [Req -> OpType \union {NoOp}]
        /\ calm' \in [Tab -> BOOLEAN] /\ quiet' \in [Tab -> BOOLEAN]
        /\ \A x \in InFlight' : op'[x] \in OpType
    BY <2>1, <2>2, <2>3, TellTypes
  <2> QED BY <1>11, <2>4, <2>5 DEF MarkAsRead, PushTypes, sockets, rowsOfUser
<1>12. ASSUME NEW n \in Created, Withdraw(n) PROVE PushTypes'
  <2>1. InFlight' = InFlight
    BY <1>12 DEF Withdraw, InFlight
  <2> QED BY <1>12, <2>1 DEF Withdraw, PushTypes, sockets, ghosts
<1> QED
  BY <1>1, <1>2, <1>3, <1>4, <1>5, <1>6, <1>7, <1>8, <1>9, <1>10, <1>11, <1>12 DEF Next

-----------------------------------------------------------------------------
(***************************************************************************)
(* The sockets, the log and what the events are about.                      *)
(***************************************************************************)
\* A process whose last socket met no other holds no socket but the one entered.
SocketInv ==
    /\ \A t \in Tab : socket[t] # NoConn => socket[t] \in up
    /\ \A t, u \in Tab : socket[t] = socket[u] /\ socket[t] # NoConn => t = u
    /\ \A c \in up : ~overlapped[home[c]] => registry[home[c]] = c

\* What an event is about, by what it does next.
KindInv ==
    \A r \in Req :
        /\ pc[r] \in {"create", "push"} => op[r].kind = "send"
        /\ pc[r] \in {"query", "initial"} => op[r].kind = "get"
        /\ pc[r] = "update" => op[r].kind \in {"mark", "markAll"}
        /\ pc[r] \in {"count", "badge"} => op[r].kind # "get"

LEMMA DetachSockets ==
    ASSUME PushTypes, SocketInv, NEW cs, Detach(cs)
    PROVE  /\ \A t \in Tab : socket'[t] # NoConn => socket'[t] = socket[t] /\ socket[t] \in up'
           /\ \A c \in up' : c \in up /\ c \notin cs
BY DEF PushTypes, SocketInv, Detach

LEMMA SocketsStep ==
    ASSUME PushTypes, RegistryInv, SocketInv, [Next]_vars
    PROVE  SocketInv'
<1>1. CASE UNCHANGED <<sockets, registry, overlapped>>
  BY <1>1 DEF sockets, SocketInv
<1>2. ASSUME NEW t \in Tab, Leave(t) PROVE SocketInv'
  BY <1>2 DEF Leave, SocketInv, PushTypes, ghosts
<1>3. ASSUME NEW c \in Conn, Disconnect(c) PROVE SocketInv'
  <2>1. /\ up' = up \ {c} /\ UNCHANGED <<home, overlapped>> /\ c \in up
        /\ registry' = [registry EXCEPT ![home[c]] = NoConn]
    BY <1>3 DEF Disconnect, Detach, ghosts
  <2>2. ASSUME NEW d \in up', ~overlapped'[home'[d]] PROVE registry'[home'[d]] = d
    <3>1. d \in up /\ d # c /\ registry[home[d]] = d /\ home[d] \in Server
      BY <2>1, <2>2 DEF SocketInv, PushTypes
    <3>2. home[d] # home[c]
      BY <3>1, <2>1, <2>2 DEF SocketInv
    <3> QED BY <3>1, <3>2, <2>1 DEF RegistryInv
  <2> QED BY <1>3, <2>2, DetachSockets DEF Disconnect, SocketInv
<1>4. ASSUME NEW s \in Server, Restart(s) PROVE SocketInv'
  <2>1. /\ up' = up \ {c \in up : home[c] = s} /\ UNCHANGED <<home, overlapped>>
        /\ registry' = [registry EXCEPT ![s] = NoConn]
    BY <1>4 DEF Restart, Detach
  <2>2. \A d \in up' : ~overlapped'[home'[d]] => registry'[home'[d]] = d
    BY <2>1 DEF SocketInv, PushTypes, RegistryInv
  <2> QED BY <1>4, <2>2, DetachSockets DEF Restart, SocketInv
<1>5. ASSUME NEW r \in Req, NEW t \in Tab, NEW c \in Conn, NEW s \in Server, Connect(t, c, s, r)
      PROVE  SocketInv'
  <2>1. /\ home[c] = NoConn /\ home' = [home EXCEPT ![c] = s]
        /\ up' = up \union {c} /\ socket' = [socket EXCEPT ![t] = c]
        /\ registry' = [registry EXCEPT ![s] = c]
        /\ overlapped' = [overlapped EXCEPT ![s] = \E d \in up : home[d] = s]
    BY <1>5 DEF Connect
  <2>2. c \notin up /\ \A u \in Tab : socket[u] # c
    BY <2>1, NoConnAssumption DEF PushTypes, SocketInv
  <2>3. \A u \in Tab : socket'[u] = IF u = t THEN c ELSE socket[u]
    BY <2>1 DEF PushTypes
  <2>4. ASSUME NEW d \in up', ~overlapped'[home'[d]] PROVE registry'[home'[d]] = d
    <3>1. CASE d = c
      BY <3>1, <2>1 DEF RegistryInv
    <3>2. CASE d # c
      <4>1. d \in up /\ home'[d] = home[d] /\ home[d] \in Server /\ d \in Conn
        BY <3>2, <2>1, <2>4 DEF RegistryInv, PushTypes
      <4>2. home[d] # s
        BY <4>1, <2>1, <2>4 DEF PushTypes
      <4> QED BY <4>1, <4>2, <2>1, <2>4 DEF SocketInv, PushTypes, RegistryInv
    <3> QED BY <3>1, <3>2
  <2> QED BY <2>1, <2>2, <2>3, <2>4 DEF SocketInv
<1>6. ASSUME NEW t \in Tab, Receive(t) PROVE SocketInv'
  BY <1>6, <1>1 DEF Receive, ghosts
<1>7. ASSUME NEW r \in Req, Step(r) PROVE SocketInv'
  BY <1>7, <1>1 DEF Step, Create, Push, Query, Initial, Update, Count, Badge, ghosts
<1>8. ASSUME NEW r \in Req, NEW s \in Server, SendNotification(r, s) PROVE SocketInv'
  BY <1>8, <1>1 DEF SendNotification
<1>9. ASSUME NEW r \in Req, NEW t \in Tab,
             GetNotifications(t, r) \/ MarkAllRead(t, r) \/ \E n \in Created : MarkAsRead(t, n, r)
      PROVE  SocketInv'
  BY <1>9, <1>1 DEF GetNotifications, MarkAllRead, MarkAsRead
<1>10. ASSUME NEW n \in Created, Withdraw(n) PROVE SocketInv'
  BY <1>10, <1>1 DEF Withdraw, ghosts
<1> QED
  BY <1>1, <1>2, <1>3, <1>4, <1>5, <1>6, <1>7, <1>8, <1>9, <1>10 DEF Next, vars, ghosts

LEMMA Handled ==
    ASSUME PushTypes, NEW r \in Req, NEW k, NEW s, NEW t, NEW n, Handle(r, k, s, t, n)
    PROVE  /\ pc[r] = "idle"
           /\ pc'[r] = CASE k = "send" -> "create" [] k = "get" -> "query" [] OTHER -> "update"
           /\ op'[r] = [kind |-> k, at |-> s, tab |-> t, note |-> n]
           /\ \A x \in Req : x # r => pc'[x] = pc[x] /\ op'[x] = op[x]
BY DEF PushTypes, Handle

\* What an event keeps that enters the service, and one that leaves it or goes on.
LEMMA HandleKeeps ==
    ASSUME PushTypes, LogInv, KindInv, NEW r \in Req, NEW k \in Kinds, NEW s, NEW t, NEW n,
           Handle(r, k, s, t, n), UNCHANGED rowsOfUser
    PROVE  LogInv' /\ KindInv'
<1>1. /\ pc[r] = "idle"
      /\ pc'[r] \in {"create", "query", "update"}
      /\ pc'[r] = "create" => k = "send"
      /\ pc'[r] = "query" => k = "get"
      /\ pc'[r] = "update" => k \in {"mark", "markAll"}
      /\ op'[r].kind = k
      /\ \A x \in Req : x # r => pc'[x] = pc[x] /\ op'[x] = op[x]
  <2>1. /\ pc[r] = "idle"
        /\ pc'[r] = CASE k = "send" -> "create" [] k = "get" -> "query" [] OTHER -> "update"
        /\ op'[r] = [kind |-> k, at |-> s, tab |-> t, note |-> n]
        /\ \A x \in Req : x # r => pc'[x] = pc[x] /\ op'[x] = op[x]
    BY Handled
  <2>2. op'[r].kind = k
    BY <2>1
  <2>3. k \in {"send", "get", "mark", "markAll"}
    BY DEF Kinds
  <2> QED BY <2>1, <2>2, <2>3
<1>2. Created' = Created /\ withdrawn' = withdrawn /\ read' = read /\ log' = log
  BY DEF rowsOfUser, Created
<1>3. \A x \in Created : x \in Req
  BY CreatedInReq DEF PushTypes
<1>4. LogInv'
  BY <1>1, <1>2, <1>3 DEF LogInv
<1>5. KindInv'
  BY <1>1 DEF KindInv
<1> QED BY <1>4, <1>5

LEMMA GoesOnKeeps ==
    ASSUME PushTypes, LogInv, KindInv, NEW r \in Req, pc[r] \notin {"idle", "create"},
           NEW l \in {"initial", "count", "badge", "done"}, Goto(r, l),
           l # "done" => op'[r] = op[r], l = "initial" => pc[r] = "query",
           l \in {"count", "badge"} => pc[r] \in {"push", "update", "count"},
           \A x \in Req : x # r => op'[x] = op[x], UNCHANGED <<log, withdrawn>>,
           read' \subseteq Created
    PROVE  LogInv' /\ KindInv'
<1>1. pc'[r] = l /\ \A x \in Req : x # r => pc'[x] = pc[x]
  BY DEF Goto, PushTypes
<1>2. Created' = Created
  BY DEF Created
<1>3. \A x \in Created : x \in Req
  BY CreatedInReq DEF PushTypes
<1>4. LogInv'
  BY <1>1, <1>2, <1>3 DEF LogInv
<1>5. KindInv'
  BY <1>1 DEF KindInv
<1> QED BY <1>4, <1>5

\* A notification enters the log at its end.
LEMMA Logged ==
    ASSUME PushTypes, LogInv, NEW r \in Req, Create(r)
    PROVE  /\ r \notin Created
           /\ Created' = Created \union {r}
           /\ Len(log') = Len(log) + 1 /\ log'[Len(log) + 1] = r /\ Len(log) \in Nat
           /\ \A i \in 1..Len(log) : log'[i] = log[i]
           /\ pc'[r] = "push" /\ \A x \in Req : x # r => pc'[x] = pc[x]
<1>1. pc[r] = "create" /\ log' = Append(log, r) /\ log \in Seq(Req)
  BY DEF Create, PushTypes
<1>2. /\ Len(log') = Len(log) + 1 /\ log'[Len(log) + 1] = r /\ Len(log) \in Nat
      /\ \A i \in 1..Len(log) : log'[i] = log[i]
  BY <1>1
<1>3. Created' = Created \union {r}
  <2>1. \A i \in 1..(Len(log) + 1) : i = Len(log) + 1 \/ i \in 1..Len(log)
    BY <1>2
  <2>2. Len(log) + 1 \in 1..(Len(log) + 1) /\ \A i \in 1..Len(log) : i \in 1..(Len(log) + 1)
    BY <1>2
  <2> QED BY <1>2, <2>1, <2>2 DEF Created
<1>4. r \notin Created
  BY <1>1 DEF LogInv
<1> QED BY <1>2, <1>3, <1>4 DEF Create, Goto, PushTypes

LEMMA LogStep ==
    ASSUME PushTypes, LogInv, KindInv, [Next]_vars
    PROVE  LogInv' /\ KindInv'
<1>1. CASE UNCHANGED <<rowsOfUser, pc, op>>
  <2>1. Created' = Created
    BY <1>1 DEF rowsOfUser, Created
  <2> QED BY <1>1, <2>1 DEF rowsOfUser, LogInv, KindInv
<1>2. ASSUME NEW t \in Tab, Leave(t) \/ Receive(t) PROVE LogInv' /\ KindInv'
  BY <1>2, <1>1 DEF Leave, Receive
<1>3. ASSUME NEW c \in Conn, Disconnect(c) PROVE LogInv' /\ KindInv'
  BY <1>3, <1>1 DEF Disconnect
<1>4. ASSUME NEW s \in Server, Restart(s) PROVE LogInv' /\ KindInv'
  <2>1. \A x \in Req : \/ pc'[x] = pc[x] /\ op'[x] = op[x]
                       \/ pc'[x] = "done"
    BY <1>4 DEF Restart
  <2>2. log' = log /\ withdrawn' = withdrawn /\ read' = read /\ Created' = Created
    BY <1>4 DEF Restart, rowsOfUser, Created
  <2>3. \A x \in Created : x \in Req
    BY CreatedInReq DEF PushTypes
  <2>4. LogInv'
    BY <2>1, <2>2, <2>3 DEF LogInv
  <2>5. KindInv'
    BY <2>1 DEF KindInv
  <2> QED BY <2>4, <2>5
<1>5. ASSUME NEW r \in Req, Create(r) PROVE LogInv' /\ KindInv'
  <2>1. /\ r \notin Created /\ Created' = Created \union {r}
        /\ Len(log') = Len(log) + 1 /\ log'[Len(log) + 1] = r /\ Len(log) \in Nat
        /\ \A i \in 1..Len(log) : log'[i] = log[i]
        /\ pc'[r] = "push" /\ \A x \in Req : x # r => pc'[x] = pc[x]
    BY <1>5, Logged
  <2>2. \A i, j \in DOMAIN log' : log'[i] = log'[j] => i = j
    <3> TAKE i, j \in DOMAIN log'
    <3>1. DOMAIN log = 1..Len(log) /\ DOMAIN log' = 1..(Len(log) + 1)
      BY <1>5 DEF Create, PushTypes
    <3>2. \A x \in DOMAIN log' : x = Len(log) + 1 \/ (x \in DOMAIN log /\ log'[x] \in Created)
      BY <3>1, <2>1 DEF Created
    <3> QED BY <3>1, <3>2, <2>1 DEF LogInv
  <2>3. op' = op /\ read' = read /\ withdrawn' = withdrawn /\ pc[r] = "create"
    BY <1>5 DEF Create
  <2>4. \A x \in Created : x \in Req
    BY CreatedInReq DEF PushTypes
  <2>5. LogInv'
    BY <2>1, <2>2, <2>3, <2>4 DEF LogInv
  <2>6. KindInv'
    BY <2>1, <2>3 DEF KindInv
  <2> QED BY <2>5, <2>6
<1>6. ASSUME NEW r \in Req, Push(r) \/ Query(r) \/ Initial(r) \/ Update(r) \/ Count(r) \/ Badge(r)
      PROVE  LogInv' /\ KindInv'
  <2>1. pc[r] \notin {"idle", "create"}
    BY <1>6 DEF Push, Query, Initial, Update, Count, Badge
  <2>2. PICK l \in {"initial", "count", "badge", "done"} :
          /\ Goto(r, l)
          /\ l # "done" => op'[r] = op[r]
          /\ l = "initial" => pc[r] = "query"
          /\ l \in {"count", "badge"} => pc[r] \in {"push", "update", "count"}
    <3>1. CASE Push(r)    BY <3>1 DEF Push, Finish
    <3>2. CASE Query(r)   BY <3>2 DEF Query
    <3>3. CASE Initial(r) BY <3>3 DEF Initial, Finish
    <3>4. CASE Update(r)  BY <3>4 DEF Update
    <3>5. CASE Count(r)   BY <3>5 DEF Count
    <3>6. CASE Badge(r)   BY <3>6 DEF Badge, Finish
    <3> QED BY <1>6, <3>1, <3>2, <3>3, <3>4, <3>5, <3>6
  <2>3. \A x \in Req : x # r => op'[x] = op[x]
    BY <1>6 DEF Push, Query, Initial, Update, Count, Badge, Finish, PushTypes
  <2>4. UNCHANGED <<log, withdrawn>>
    BY <1>6 DEF Push, Query, Initial, Update, Count, Badge, rowsOfUser
  <2>5. read' \subseteq Created
    BY <1>6 DEF Push, Query, Initial, Update, Count, Badge, rowsOfUser, LogInv, Stored
  <2> QED BY <2>1, <2>2, <2>3, <2>4, <2>5, GoesOnKeeps
<1>7. ASSUME NEW r \in Req, NEW k \in Kinds, NEW s, NEW t, NEW n, Handle(r, k, s, t, n), UNCHANGED rowsOfUser
      PROVE  LogInv' /\ KindInv'
  BY <1>7, HandleKeeps
<1>8. "send" \in Kinds /\ "get" \in Kinds /\ "mark" \in Kinds /\ "markAll" \in Kinds
  BY DEF Kinds
<1>9. ASSUME NEW r \in Req, NEW s \in Server, SendNotification(r, s) PROVE LogInv' /\ KindInv'
  BY <1>9, <1>7, <1>8 DEF SendNotification
<1>10. ASSUME NEW r \in Req, NEW t \in Tab, NEW c \in Conn, NEW s \in Server, Connect(t, c, s, r)
       PROVE  LogInv' /\ KindInv'
  BY <1>10, <1>7, <1>8 DEF Connect
<1>11. ASSUME NEW r \in Req, NEW t \in Tab, GetNotifications(t, r) PROVE LogInv' /\ KindInv'
  BY <1>11, <1>7, <1>8 DEF GetNotifications
<1>12. ASSUME NEW r \in Req, NEW t \in Tab, NEW k \in Kinds, NEW n, Tell(t, r, k, n), UNCHANGED rowsOfUser
       PROVE  LogInv' /\ KindInv'
  BY <1>12, <1>7, <1>1 DEF Tell
<1>13. ASSUME NEW r \in Req, NEW t \in Tab, MarkAllRead(t, r) PROVE LogInv' /\ KindInv'
  BY <1>13, <1>12, <1>8 DEF MarkAllRead
<1>14. ASSUME NEW r \in Req, NEW t \in Tab, NEW n \in Created, MarkAsRead(t, n, r)
       PROVE  LogInv' /\ KindInv'
  BY <1>14, <1>12, <1>8 DEF MarkAsRead
<1>15. ASSUME NEW n \in Created, Withdraw(n) PROVE LogInv' /\ KindInv'
  <2>1. Created' = Created
    BY <1>15 DEF Withdraw, Created
  <2> QED BY <1>15, <2>1 DEF Withdraw, LogInv, KindInv
<1> QED
  BY <1>1, <1>2, <1>3, <1>4, <1>5, <1>6, <1>9, <1>10, <1>11, <1>13, <1>14, <1>15
     DEF Next, Step, vars

-----------------------------------------------------------------------------
(***************************************************************************)
(* What each tab may rely on.  While only notifications overlap, its list,   *)
(* with the messages on their way to it, shows the database but for what its *)
(* own event in flight is about to tell it; while nothing overlaps, the last *)
(* message on its way, or its badge, counts what is unread.                  *)
(***************************************************************************)
Fetching(u) == \E r \in Concerning(u) : op[r].kind = "get"

CalmTab(u) ==
    /\ \A r, x \in Concerning(u) : r = x \/ (op[r].kind = "send" /\ op[x].kind = "send")
    /\ \A r \in Concerning(u) :
          /\ pc[r] = "push" => r \notin read
          /\ pc[r] = "initial" => Shows(got[r].list, {}, World)
          /\ op[r].kind \in {"mark", "markAll"} => op[r].tab = u
          /\ u \in Attached /\ op[r].kind # "send" => op[r].at = home[socket[u]]
    /\ u \in Attached => Fetching(u) \/ PageShows(page[u].list, inbox[socket[u]], World)

QuietTab(u) ==
    /\ \A r, x \in Concerning(u) : r = x
    /\ \A r \in Concerning(u) :
          /\ pc[r] = "initial" => UnreadIn(got[r].list) \in Least..Most
          /\ pc[r] = "badge" => got[r].total \in Least..Most
          /\ u \in Attached /\ pc[r] \in {"count", "badge"} => op[r].at = home[socket[u]]
    /\ u \in Attached /\ (\A r \in Concerning(u) : pc[r] = "create") =>
          CountSettles(page[u].count, inbox[socket[u]], Least..Most)

TabInv(u) ==
    /\ calm[u] => CalmTab(u)
    /\ quiet[u] => calm[u] /\ QuietTab(u)

PushInv ==
    /\ PushTypes /\ RegistryInv /\ SocketInv /\ LogInv /\ KindInv
    /\ \A u \in Tab : TabInv(u)

-----------------------------------------------------------------------------
LEMMA RowsSame ==
    ASSUME UNCHANGED rowsOfUser
    PROVE  /\ Created' = Created /\ Stored' = Stored /\ Recent' = Recent /\ Unread' = Unread
           /\ Least' = Least /\ Most' = Most
<1>1. log' = log /\ withdrawn' = withdrawn /\ read' = read
  BY DEF rowsOfUser
<1>2. Created' = Created
  BY <1>1 DEF Created
<1>3. Stored' = Stored
  BY <1>1, <1>2 DEF Stored
<1>4. Recent' = Recent /\ Unread' = Unread
  BY <1>1, <1>3 DEF Recent, Unread
<1> QED BY <1>1, <1>2, <1>3, <1>4 DEF Least, Most

LEMMA AheadSame ==
    ASSUME read' = read,
           \A x \in Req : /\ pc'[x] = "update" <=> pc[x] = "update"
                          /\ pc[x] = "update" => op'[x] = op[x]
    PROVE  Ahead' = Ahead
BY DEF Ahead

LEMMA WorldSame ==
    ASSUME PushTypes, UNCHANGED rowsOfUser,
           \A x \in Req : /\ pc'[x] = "push" <=> pc[x] = "push"
                          /\ pc'[x] = "update" <=> pc[x] = "update"
                          /\ pc[x] = "update" => op'[x] = op[x]
    PROVE  World' = World
<1>1. Created' = Created /\ Stored' = Stored /\ Recent' = Recent /\ read' = read
  BY RowsSame DEF rowsOfUser
<1>2. Ahead' = Ahead
  BY <1>1, AheadSame
<1>3. \A x \in Created : x \in Req
  BY CreatedInReq DEF PushTypes
<1>4. Announced' = Announced
  BY <1>1, <1>3 DEF Announced
<1> QED BY <1>1, <1>2, <1>4 DEF World

\* What is announced or marked concerns every tab.
LEMMA ConcernsAll ==
    ASSUME KindInv, NEW u \in Tab, NEW x \in Req, pc[x] \in {"create", "push", "update"}
    PROVE  x \in Concerning(u) /\ op[x].kind # "get"
BY DEF KindInv, Concerning, InFlight, Running

\* So the world is the same for a tab as long as what concerns it is.
LEMMA SameConcerns ==
    ASSUME PushTypes, KindInv, KindInv', UNCHANGED rowsOfUser, NEW u \in Tab,
           Concerning(u)' = Concerning(u),
           \A x \in Concerning(u) : pc'[x] = pc[x] /\ op'[x] = op[x]
    PROVE  World' = World
<1>1. \A x \in Req : pc[x] \in {"push", "update"} => x \in Concerning(u)
  BY ConcernsAll
<1>2. \A x \in Req : pc'[x] \in {"push", "update"} => x \in Concerning(u)'
  BY DEF KindInv, Concerning, InFlight, Running
<1> QED BY <1>1, <1>2, WorldSame

LEMMA AttachedSocket ==
    ASSUME PushTypes, NEW u \in Attached
    PROVE  u \in Tab /\ socket[u] \in up /\ socket[u] \in Conn /\ socket[u] # NoConn
BY NoConnAssumption DEF Attached, PushTypes

\* What reaches an attached tab.
LEMMA Emitted ==
    ASSUME PushTypes, NEW u \in Attached, NEW s, NEW m, Emit(s, m)
    PROVE  /\ inbox[socket[u]] \in Seq(Message)
           /\ inbox'[socket[u]] = IF registry[s] = socket[u] THEN Append(inbox[socket[u]], m)
                                                             ELSE inbox[socket[u]]
<1>1. u \in Tab /\ socket[u] \in Conn
  BY AttachedSocket
<1> QED BY <1>1 DEF Emit, PushTypes

\* How the events that concern a tab change: one begins, one goes on, one is over.
LEMMA Begins ==
    ASSUME PushTypes, NEW r \in Req, NEW k \in Kinds, NEW s, NEW t, NEW n,
           Handle(r, k, s, t, n), NEW u \in Tab
    PROVE  /\ pc[r] = "idle" /\ op'[r].kind = k /\ op'[r].at = s /\ op'[r].tab = t
           /\ op'[r].note = n
           /\ pc'[r] \in {"create", "query", "update"}
           /\ (pc'[r] = "create" <=> k = "send") /\ (pc'[r] = "query" <=> k = "get")
           /\ r \notin Concerning(u)
           /\ \A x \in Req : x # r => pc'[x] = pc[x] /\ op'[x] = op[x]
           /\ Concerning(u)' = IF k = "get" => t = u THEN Concerning(u) \union {r}
                                                     ELSE Concerning(u)
<1>1. /\ pc[r] = "idle"
      /\ pc'[r] = CASE k = "send" -> "create" [] k = "get" -> "query" [] OTHER -> "update"
      /\ op'[r] = [kind |-> k, at |-> s, tab |-> t, note |-> n]
      /\ \A x \in Req : x # r => pc'[x] = pc[x] /\ op'[x] = op[x]
  BY Handled
<1>2. op'[r].kind = k /\ op'[r].at = s /\ op'[r].tab = t /\ op'[r].note = n
  BY <1>1
<1>3. /\ pc'[r] \in {"create", "query", "update"}
      /\ (pc'[r] = "create" <=> k = "send") /\ (pc'[r] = "query" <=> k = "get")
  BY <1>1 DEF Kinds
<1>4. InFlight' = InFlight \union {r} /\ r \notin InFlight
  BY <1>1, <1>3 DEF InFlight, Running
<1>5. Concerning(u)' = IF k = "get" => t = u THEN Concerning(u) \union {r} ELSE Concerning(u)
  <2>1. \A x \in InFlight : x # r /\ x \in Req
    BY <1>4 DEF InFlight
  <2> QED BY <1>1, <1>2, <1>4, <2>1 DEF Concerning
<1> QED BY <1>1, <1>2, <1>3, <1>4, <1>5 DEF Concerning

LEMMA GoesOn ==
    ASSUME PushTypes, NEW r \in Req, NEW l \in Running, pc[r] \in Running, Goto(r, l), op' = op,
           NEW u \in Tab
    PROVE  /\ pc'[r] = l /\ \A x \in Req : x # r => pc'[x] = pc[x]
           /\ Concerning(u)' = Concerning(u)
<1>1. pc'[r] = l /\ \A x \in Req : x # r => pc'[x] = pc[x]
  BY DEF Goto, PushTypes
<1>2. InFlight' = InFlight
  BY <1>1 DEF InFlight
<1> QED BY <1>1, <1>2 DEF Concerning

LEMMA Ends ==
    ASSUME PushTypes, NEW r \in Req, pc[r] \in Running, Finish(r), NEW u \in Tab
    PROVE  /\ pc'[r] = "done"
           /\ \A x \in Req : x # r => pc'[x] = pc[x] /\ op'[x] = op[x] /\ got'[x] = got[x]
           /\ Concerning(u)' = Concerning(u) \ {r}
<1>1. /\ pc'[r] = "done"
      /\ \A x \in Req : x # r => pc'[x] = pc[x] /\ op'[x] = op[x] /\ got'[x] = got[x]
  BY DEF Finish, Goto, PushTypes
<1>2. InFlight' = InFlight \ {r}
  BY <1>1 DEF InFlight, Running
<1>3. \A x \in InFlight : x \in Req
  BY DEF InFlight
<1> QED BY <1>1, <1>2, <1>3 DEF Concerning

LEMMA ConcerningReq ==
    \A u \in Tab : \A x \in Concerning(u) : x \in Req /\ x \in InFlight /\ pc[x] \in Running
BY DEF Concerning, InFlight

\* Nothing the tab shows, waits for or is concerned by changes.
LEMMA Unconcerned ==
    ASSUME PushInv, KindInv', NEW u \in Tab, UNCHANGED rowsOfUser,
           Concerning(u)' = Concerning(u),
           \A x \in Concerning(u) : pc'[x] = pc[x] /\ op'[x] = op[x] /\ got'[x] = got[x],
           calm'[u] => calm[u], quiet'[u] => quiet[u] /\ calm'[u],
           u \in Attached' => /\ u \in Attached /\ socket'[u] = socket[u]
                              /\ home'[socket[u]] = home[socket[u]]
                              /\ inbox'[socket[u]] = inbox[socket[u]] /\ page'[u] = page[u]
    PROVE  TabInv(u)'
<1>1. World' = World /\ Least' = Least /\ Most' = Most /\ read' = read
  BY SameConcerns, RowsSame DEF PushInv, rowsOfUser
<1>2. TabInv(u)
  BY DEF PushInv
<1>3. Fetching(u)' <=> Fetching(u)
  BY DEF Fetching
<1>4. ASSUME calm'[u] PROVE CalmTab(u)'
  <2>1. CalmTab(u)
    BY <1>2, <1>4 DEF TabInv
  <2>2. ASSUME NEW r \in Concerning(u)'
        PROVE  /\ pc'[r] = "push" => r \notin read'
               /\ pc'[r] = "initial" => Shows(got'[r].list, {}, World')
               /\ op'[r].kind \in {"mark", "markAll"} => op'[r].tab = u
               /\ u \in Attached' /\ op'[r].kind # "send" => op'[r].at = home'[socket'[u]]
    <3>1. r \in Concerning(u) /\ pc'[r] = pc[r] /\ op'[r] = op[r] /\ got'[r] = got[r]
      BY <2>2
    <3> QED BY <3>1, <2>1, <1>1 DEF CalmTab
  <2>3. u \in Attached' => Fetching(u)' \/ PageShows(page'[u].list, inbox'[socket'[u]], World')
    BY <2>1, <1>1, <1>3 DEF CalmTab
  <2>4. \A r, x \in Concerning(u)' : r = x \/ (op'[r].kind = "send" /\ op'[x].kind = "send")
    BY <2>1 DEF CalmTab
  <2> QED BY <2>2, <2>3, <2>4 DEF CalmTab
<1>5. ASSUME quiet'[u] PROVE calm'[u] /\ QuietTab(u)'
  <2>1. QuietTab(u) /\ calm'[u]
    BY <1>2, <1>5 DEF TabInv
  <2>2. ASSUME NEW r \in Concerning(u)'
        PROVE  /\ pc'[r] = "initial" => UnreadIn(got'[r].list) \in Least'..Most'
               /\ pc'[r] = "badge" => got'[r].total \in Least'..Most'
               /\ u \in Attached' /\ pc'[r] \in {"count", "badge"} => op'[r].at = home'[socket'[u]]
    <3>1. r \in Concerning(u) /\ pc'[r] = pc[r] /\ op'[r] = op[r] /\ got'[r] = got[r]
      BY <2>2
    <3> QED BY <3>1, <2>1, <1>1 DEF QuietTab
  <2>3. u \in Attached' /\ (\A r \in Concerning(u)' : pc'[r] = "create") =>
            CountSettles(page'[u].count, inbox'[socket'[u]], Least'..Most')
    BY <2>1, <1>1 DEF QuietTab
  <2>4. \A r, x \in Concerning(u)' : r = x
    BY <2>1 DEF QuietTab
  <2> QED BY <2>1, <2>2, <2>3, <2>4 DEF QuietTab
<1> QED BY <1>4, <1>5 DEF TabInv

-----------------------------------------------------------------------------
\* A fetch that meets nothing else concerning its tab: all it has is to be replaced.
LEMMA FetchKeeps ==
    ASSUME PushInv, KindInv', NEW u \in Tab, NEW t \in Tab, NEW r \in Req, NEW s, NEW n,
           Handle(r, "get", s, t, n), FetchBegins(t), UNCHANGED <<rowsOfUser, got>>,
           t \in Attached' => s = home'[socket'[t]],
           u # t /\ u \in Attached' =>
               /\ u \in Attached /\ socket'[u] = socket[u] /\ home'[socket[u]] = home[socket[u]]
               /\ inbox'[socket[u]] = inbox[socket[u]] /\ page'[u] = page[u]
    PROVE  TabInv(u)'
<1>1. "get" \in Kinds
  BY DEF Kinds
<1>2. /\ pc[r] = "idle" /\ op'[r].kind = "get" /\ op'[r].at = s /\ op'[r].tab = t
      /\ pc'[r] = "query" /\ r \notin Concerning(u)
      /\ \A x \in Req : x # r => pc'[x] = pc[x] /\ op'[x] = op[x]
      /\ Concerning(u)' = IF t = u THEN Concerning(u) \union {r} ELSE Concerning(u)
  BY <1>1, Begins DEF PushInv
<1>3. CASE u # t
  <2>1. \A x \in Concerning(u) : pc'[x] = pc[x] /\ op'[x] = op[x] /\ got'[x] = got[x]
    BY <1>2, ConcerningReq
  <2>2. calm'[u] = calm[u] /\ quiet'[u] = quiet[u]
    BY <1>3 DEF FetchBegins, PushInv, PushTypes
  <2>3. TabInv(u)
    BY DEF PushInv
  <2>4. quiet'[u] => quiet[u] /\ calm'[u]
    BY <2>2, <2>3 DEF TabInv
  <2> QED BY <1>2, <1>3, <2>1, <2>2, <2>4, Unconcerned
<1>4. CASE u = t
  <2>1. (calm'[u] <=> Concerning(u) = {}) /\ (quiet'[u] <=> Concerning(u) = {})
    BY <1>4 DEF FetchBegins, PushInv, PushTypes
  <2>2. ASSUME calm'[u] PROVE CalmTab(u)'
    <3>1. Concerning(u)' = {r}
      BY <2>1, <2>2, <1>2, <1>4
    <3>2. Fetching(u)'
      BY <3>1, <1>2 DEF Fetching
    <3> QED BY <3>1, <3>2, <1>2, <1>4 DEF CalmTab
  <2>3. ASSUME quiet'[u] PROVE calm'[u] /\ QuietTab(u)'
    <3>1. Concerning(u)' = {r} /\ calm'[u]
      BY <2>1, <2>3, <1>2, <1>4
    <3> QED BY <3>1, <1>2 DEF QuietTab
  <2> QED BY <2>2, <2>3 DEF TabInv
<1> QED BY <1>3, <1>4

LEMMA SendKeeps ==
    ASSUME PushInv, KindInv', NEW u \in Tab, NEW r \in Req, NEW s \in Server, SendNotification(r, s)
    PROVE  TabInv(u)'
<1>1. UNCHANGED <<sockets, inbox, rowsOfUser, got, page>> /\ "send" \in Kinds
      /\ Handle(r, "send", s, NoConn, NoConn)
  BY DEF SendNotification, Kinds
<1>2. /\ pc[r] = "idle" /\ pc'[r] = "create" /\ op'[r].kind = "send" /\ r \notin Concerning(u)
      /\ \A x \in Req : x # r => pc'[x] = pc[x] /\ op'[x] = op[x]
      /\ Concerning(u)' = Concerning(u) \union {r}
  BY <1>1, Begins DEF PushInv
<1>3. World' = World /\ Least' = Least /\ Most' = Most /\ read' = read
  <2>1. \A x \in Req : /\ pc'[x] = "push" <=> pc[x] = "push"
                       /\ pc'[x] = "update" <=> pc[x] = "update"
                       /\ pc[x] = "update" => op'[x] = op[x]
    BY <1>2
  <2> QED BY <2>1, <1>1, WorldSame, RowsSame DEF PushInv, rowsOfUser
<1>4. /\ calm'[u] <=> calm[u] /\ \A x \in Concerning(u) : op[x].kind = "send"
      /\ quiet'[u] <=> quiet[u] /\ Concerning(u) = {}
  BY DEF SendNotification, SendBegins, PushInv, PushTypes
<1>5. TabInv(u) /\ (u \in Attached' <=> u \in Attached) /\ socket' = socket /\ home' = home
      /\ inbox' = inbox /\ page' = page
  BY <1>1 DEF PushInv, Attached, sockets
<1>6. \A x \in Concerning(u) : x # r /\ pc'[x] = pc[x] /\ op'[x] = op[x] /\ got'[x] = got[x]
  BY <1>1, <1>2, ConcerningReq
<1>7. ASSUME calm'[u] PROVE CalmTab(u)'
  <2>1. CalmTab(u) /\ ~Fetching(u)
    BY <1>4, <1>5, <1>7 DEF TabInv, Fetching
  <2>2. \A x \in Concerning(u)' : op'[x].kind = "send"
    BY <1>2, <1>4, <1>6, <1>7
  <2>3. ASSUME NEW x \in Concerning(u)'
        PROVE  /\ pc'[x] = "push" => x \notin read'
               /\ pc'[x] = "initial" => Shows(got'[x].list, {}, World')
    BY <2>1, <2>3, <1>2, <1>3, <1>6 DEF CalmTab
  <2>4. u \in Attached' => PageShows(page'[u].list, inbox'[socket'[u]], World')
    BY <2>1, <1>3, <1>5 DEF CalmTab
  <2> QED BY <2>2, <2>3, <2>4 DEF CalmTab
<1>8. ASSUME quiet'[u] PROVE calm'[u] /\ QuietTab(u)'
  <2>1. QuietTab(u) /\ calm[u] /\ Concerning(u) = {} /\ Concerning(u)' = {r}
    BY <1>2, <1>4, <1>5, <1>8 DEF TabInv
  <2>2. u \in Attached' => CountSettles(page'[u].count, inbox'[socket'[u]], Least'..Most')
    BY <2>1, <1>3, <1>5 DEF QuietTab
  <2> QED BY <2>1, <2>2, <1>2, <1>4 DEF QuietTab
<1> QED BY <1>7, <1>8 DEF TabInv

\* The page marks what it shows before the database does.
LEMMA MarkKeeps ==
    ASSUME PushInv, KindInv', NEW u \in Tab, NEW r \in Req, NEW t \in Tab,
           NEW k \in {"mark", "markAll"}, NEW n,
           NEW ns, NEW count \in Nat, MarkLocally(t, ns, count), Tell(t, r, k, n),
           UNCHANGED <<sockets, inbox, rowsOfUser, got>>,
           \A x \in Created : x \in ns <=> (k = "markAll" \/ x = n)
    PROVE  TabInv(u)'
<1>1. /\ \A v \in Tab : v # t => page'[v] = page[v]
      /\ page[t].list \in Seq(EntryRow)
      /\ page'[t].list \in Seq(EntryRow) /\ Len(page'[t].list) = Len(page[t].list)
      /\ \A i \in DOMAIN page[t].list :
            /\ page'[t].list[i].id = page[t].list[i].id
            /\ page'[t].list[i].isRead <=> page[t].list[i].isRead \/ page[t].list[i].id \in ns
  BY MarkTypes DEF PushInv, PushTypes, Seen
<1>2. Attached' = Attached /\ socket' = socket /\ inbox' = inbox /\ home' = home
  BY DEF Attached, sockets
<1>3. TabInv(u)
  BY DEF PushInv
<1>4. CASE t \notin Attached /\ UNCHANGED <<pc, op, calm, quiet>>
  <2>1. u \in Attached => page'[u] = page[u]
    BY <1>1, <1>4
  <2>2. Concerning(u)' = Concerning(u)
    BY <1>4 DEF Concerning, InFlight
  <2>3. quiet'[u] => quiet[u] /\ calm'[u]
    BY <1>3, <1>4 DEF TabInv
  <2> QED BY <1>2, <1>4, <2>1, <2>2, <2>3, Unconcerned
<1>5. CASE t \in Attached /\ Handle(r, k, home[socket[t]], t, n) /\ MarkBegins(t)
  <2>1. /\ calm'[u] => calm[u] /\ u = t /\ Concerning(u) = {} /\ inbox[socket[u]] = <<>>
        /\ quiet'[u] => quiet[u] /\ u = t /\ Concerning(u) = {} /\ inbox[socket[u]] = <<>>
    BY <1>5 DEF MarkBegins, PushInv, PushTypes
  <2>2. k \in Kinds
    BY DEF Kinds
  <2>3. /\ pc[r] = "idle" /\ op'[r].kind = k /\ op'[r].at = home[socket[t]]
        /\ op'[r].tab = t /\ op'[r].note = n
        /\ pc'[r] \in {"create", "query", "update"}
        /\ (pc'[r] = "create" <=> k = "send") /\ (pc'[r] = "query" <=> k = "get")
        /\ \A x \in Req : x # r => pc'[x] = pc[x] /\ op'[x] = op[x]
        /\ Concerning(u)' = IF k = "get" => t = u THEN Concerning(u) \union {r}
                                                  ELSE Concerning(u)
    BY <1>5, <2>2, Begins DEF PushInv
  <2>4. pc'[r] = "update" /\ Concerning(u)' = Concerning(u) \union {r}
    BY <2>3
  <2>5. ASSUME calm'[u] PROVE CalmTab(u)'
    <3>1. /\ calm[u] /\ u = t /\ Concerning(u) = {} /\ Concerning(u)' = {r}
          /\ inbox[socket[u]] = <<>> /\ u \in Attached
      BY <1>5, <2>1, <2>4, <2>5
    <3>2. \A x \in Req : pc[x] \notin {"push", "update"}
      BY <3>1, ConcernsAll DEF PushInv
    <3>3. /\ World'.stored = World.stored /\ World'.recent = World.recent
          /\ World'.announced = World.announced /\ World'.announced \subseteq Created
          /\ Created \subseteq Req
      <4>1. Created' = Created /\ Stored' = Stored /\ Recent' = Recent
        BY RowsSame
      <4>2. Created \subseteq Req
        BY CreatedInReq DEF PushInv, PushTypes
      <4>3. Announced' = Announced /\ Announced \subseteq Created
        BY <4>1, <4>2, <2>3, <2>4 DEF Announced
      <4> QED BY <4>1, <4>2, <4>3 DEF World
    <3>4. \A x \in Created : x \in World'.ahead <=> (x \in World.ahead \/ x \in ns)
      <4>1. read' = read
        BY DEF rowsOfUser
      <4>2. World.ahead = read /\ World'.ahead = Ahead'
        BY <3>2 DEF World, Ahead
      <4>3. \A x \in Req : pc'[x] = "update" => x = r
        BY <2>3, <3>2
      <4>4. \A x \in Req : x \in Ahead' <=> (x \in read \/ k = "markAll" \/ x = n)
        BY <4>1, <4>3, <2>3, <2>4 DEF Ahead
      <4> QED BY <4>2, <4>4, <3>3
    <3>5. PageShows(page[t].list, <<>>, World)
      <4>1. CalmTab(t) /\ ~Fetching(t)
        BY <3>1, <1>3 DEF TabInv, Fetching
      <4> QED BY <4>1, <3>1 DEF CalmTab
    <3> DEFINE a == page[t].list
               b == page'[t].list
    <3>6. DOMAIN b = DOMAIN a
      BY <1>1
    <3>7. Shows(a, {}, World)
      BY <3>5, NothingQueued
    <3>8. \A i \in DOMAIN a : b[i].id = a[i].id /\ (b[i].isRead <=> a[i].isRead \/ a[i].id \in ns)
      BY <1>1
    <3> HIDE DEF a, b
    <3>9. ListedIn(b) = ListedIn(a)
      BY <3>6, <3>8 DEF ListedIn
    <3>10. \A i \in DOMAIN b : b[i].id \in World'.stored => (b[i].isRead <=> b[i].id \in World'.ahead)
      <4> TAKE i \in DOMAIN b
      <4> HAVE b[i].id \in World'.stored
      <4>1. a[i].id \in World.stored /\ i \in DOMAIN a /\ b[i].id = a[i].id
        BY <3>6, <3>8, <3>3
      <4>2. a[i].id \in Created
        BY <4>1 DEF World, Stored
      <4>3. a[i].isRead <=> a[i].id \in World.ahead
        BY <4>1, <3>7 DEF Shows
      <4> QED BY <4>1, <4>2, <4>3, <3>8, <3>4
    <3>11. Shows(b, {}, World')
      BY <3>6, <3>7, <3>8, <3>9, <3>10, <3>3 DEF Shows
    <3>12. PageShows(page'[t].list, <<>>, World')
      BY <3>11, NothingQueued DEF b
    <3>13. PageShows(page'[u].list, inbox'[socket'[u]], World')
      BY <3>12, <3>1, <1>2
    <3> QED BY <3>1, <3>13, <2>3, <2>4, <1>2 DEF CalmTab
  <2>6. ASSUME quiet'[u] PROVE calm'[u] /\ QuietTab(u)'
    <3>1. Concerning(u)' = {r} /\ quiet[u] /\ u = t /\ Concerning(u) = {}
          /\ inbox[socket[u]] = <<>>
      BY <2>1, <2>4, <2>6
    <3>2. calm[u]
      BY <3>1, <1>3 DEF TabInv
    <3>3. calm'[u]
      BY <3>1, <3>2, <1>5 DEF MarkBegins
    <3> QED BY <3>1, <3>3, <2>4 DEF QuietTab
  <2> QED BY <2>5, <2>6 DEF TabInv
<1> QED BY <1>4, <1>5 DEF Tell

\* A notification in the log and not yet announced changes nothing shown: it can
\* only push older ones out of those that are recent.
LEMMA CreateKeeps ==
    ASSUME PushInv, KindInv', NEW u \in Tab, NEW r \in Req, Create(r)
    PROVE  TabInv(u)'
<1>1. /\ UNCHANGED <<sockets, inbox, withdrawn, read, op, got, page, ghosts>>
      /\ pc[r] = "create" /\ Goto(r, "push")
      /\ pc[r] \in Running /\ "push" \in Running
  BY DEF Create, Running
<1>2. /\ r \notin Created /\ Created' = Created \union {r}
      /\ Len(log') = Len(log) + 1 /\ log'[Len(log) + 1] = r /\ Len(log) \in Nat
      /\ \A i \in 1..Len(log) : log'[i] = log[i]
      /\ pc'[r] = "push" /\ \A x \in Req : x # r => pc'[x] = pc[x]
  BY Logged DEF PushInv
<1>3. Concerning(u)' = Concerning(u) /\ r \in Concerning(u) /\ op[r].kind = "send"
  BY <1>1, GoesOn, ConcernsAll DEF PushInv, KindInv
<1>4. Stored' = Stored \union {r}
  BY <1>1, <1>2 DEF Stored, PushInv, LogInv
<1>5. Announced' = Announced
  <2>1. \A x \in Created : x \in Req
    BY CreatedInReq DEF PushInv, PushTypes
  <2> QED BY <1>2, <2>1 DEF Announced
<1>6. Recent' \intersect Announced' \subseteq Recent
  <2> SUFFICES ASSUME NEW n \in Recent', n \in Announced PROVE n \in Recent
    BY <1>5
  <2>1. PICK i \in 1..Len(log') : log'[i] = n /\ i + Limit > Len(log')
    BY DEF Recent
  <2>2. n \in Created /\ n # r /\ n \in Stored
    BY <1>2, <1>4 DEF Announced, Recent
  <2>3. i # Len(log) + 1
    BY <2>1, <2>2, <1>2
  <2>4. i \in 1..Len(log)
    BY <2>3, <1>2
  <2>5. i + Limit > Len(log)
    BY <2>1, <2>4, <1>2, NotificationPushAssumption
  <2>6. log[i] = n
    BY <2>1, <2>4, <1>2
  <2> QED BY <2>2, <2>4, <2>5, <2>6 DEF Recent
<1>7. Ahead' = Ahead
  <2>1. \A x \in Req : /\ pc'[x] = "update" <=> pc[x] = "update"
                       /\ pc[x] = "update" => op'[x] = op[x]
    BY <1>1, <1>2
  <2> QED BY <2>1, <1>1, AheadSame
<1>8. Still(World, World')
  <2>1. /\ World.announced = Announced /\ World.recent = Recent /\ World.stored = Stored
        /\ World.ahead = Ahead
    BY DEF World
  <2>2. /\ World'.announced = Announced' /\ World'.recent = Recent' /\ World'.stored = Stored'
        /\ World'.ahead = Ahead'
    BY DEF World
  <2>3. r \notin Announced
    BY <1>2 DEF Announced
  <2> QED BY <2>1, <2>2, <2>3, <1>4, <1>5, <1>6, <1>7 DEF Still
<1>9. /\ TabInv(u) /\ (u \in Attached' <=> u \in Attached) /\ socket' = socket /\ home' = home
      /\ inbox' = inbox /\ page' = page /\ calm' = calm /\ quiet' = quiet
      /\ op' = op /\ got' = got /\ read' = read
  BY <1>1 DEF PushInv, Attached, sockets, ghosts
<1>10. ASSUME calm'[u] PROVE CalmTab(u)'
  <2>1. CalmTab(u)
    BY <1>9, <1>10 DEF TabInv
  <2>2. \A x \in Concerning(u) : op[x].kind = "send"
    BY <2>1, <1>3 DEF CalmTab
  <2>3. ~Fetching(u)
    BY <2>2 DEF Fetching
  <2>4. ASSUME NEW x \in Concerning(u)'
        PROVE  /\ pc'[x] = "push" => x \notin read'
               /\ pc'[x] # "initial"
    <3>1. r \notin read
      BY <1>2 DEF PushInv, LogInv
    <3>2. x \in Req /\ op[x].kind = "send"
      BY <2>2, <2>4, <1>3, ConcerningReq
    <3> QED BY <3>1, <3>2, <2>1, <1>2, <1>3, <1>9 DEF CalmTab, KindInv
  <2>5. u \in Attached' => PageShows(page'[u].list, inbox'[socket'[u]], World')
    <3> HAVE u \in Attached'
    <3>1. PageShows(page[u].list, inbox[socket[u]], World)
      BY <2>1, <2>3, <1>9 DEF CalmTab
    <3>2. PageShows(page[u].list, inbox[socket[u]], World')
      BY <3>1, <1>8, PageShowsStill
    <3> QED BY <3>2, <1>9
  <2> QED BY <2>2, <2>4, <2>5, <1>3, <1>9 DEF CalmTab
<1>11. ASSUME quiet'[u] PROVE calm'[u] /\ QuietTab(u)'
  <2>1. Concerning(u)' = {r} /\ calm[u]
    BY <1>3, <1>9, <1>11 DEF TabInv, QuietTab
  <2> QED BY <2>1, <1>2, <1>9 DEF QuietTab
<1> QED BY <1>10, <1>11 DEF TabInv

\* Where the notification goes out, its tab adds it to what it shows.
LEMMA PushKeeps ==
    ASSUME PushInv, KindInv', NEW u \in Tab, NEW r \in Req, Push(r)
    PROVE  TabInv(u)'
<1> DEFINE m == [type |-> "new", note |-> r]
<1>1. /\ UNCHANGED <<sockets, registry, rowsOfUser, page>> /\ pc[r] = "push"
      /\ pc[r] \in Running /\ "count" \in Running /\ NoteGoesOut(r)
  BY DEF Push, Running
<1>2. r \in Concerning(u) /\ op[r].kind = "send" /\ r \in Created
  BY <1>1, ConcernsAll DEF PushInv, KindInv, LogInv
<1>3. /\ TabInv(u) /\ (u \in Attached' <=> u \in Attached) /\ socket' = socket /\ home' = home
      /\ page' = page /\ read' = read
  BY <1>1 DEF PushInv, Attached, sockets, rowsOfUser
<1>4. /\ calm'[u] => calm[u] /\ registry[op[r].at] = socket[u]
      /\ quiet'[u] => quiet[u] /\ registry[op[r].at] = socket[u]
  BY <1>1 DEF NoteGoesOut, Reached, PushInv, PushTypes
<1>5. ASSUME calm'[u]
      PROVE  CalmTab(u) /\ ~Fetching(u) /\ \A x \in Concerning(u) : op[x].kind = "send"
  <2>1. CalmTab(u)
    BY <1>3, <1>4, <1>5 DEF TabInv
  <2> QED BY <2>1, <1>2 DEF CalmTab, Fetching
<1>6. quiet'[u] => calm'[u] /\ QuietTab(u) /\ Concerning(u) = {r}
  <2> HAVE quiet'[u]
  <2>1. QuietTab(u) /\ calm[u] /\ registry[op[r].at] = socket[u]
    BY <1>3, <1>4 DEF TabInv
  <2>2. calm'[u]
    BY <2>1, <1>1 DEF NoteGoesOut, Reached
  <2> QED BY <2>1, <2>2, <1>2 DEF QuietTab
<1>7. CASE registry[op[r].at] = NoConn
  <2>1. Finish(r)
    BY <1>7 DEF Push
  <2>2. /\ pc'[r] = "done" /\ Concerning(u)' = Concerning(u) \ {r}
        /\ \A x \in Req : x # r => pc'[x] = pc[x] /\ op'[x] = op[x] /\ got'[x] = got[x]
    BY <2>1, <1>1, Ends DEF PushInv
  <2>3. calm'[u] => u \notin Attached'
    BY <1>3, <1>4, <1>7, AttachedSocket DEF PushInv
  <2>4. ASSUME calm'[u] PROVE CalmTab(u)'
    <3>1. ASSUME NEW x \in Concerning(u)'
          PROVE  /\ pc'[x] = "push" => x \notin read'
                 /\ pc'[x] # "initial" /\ op'[x].kind = "send"
      <4>1. x \in Req /\ x # r /\ x \in Concerning(u) /\ pc'[x] = pc[x] /\ op'[x] = op[x]
        BY <3>1, <2>2, ConcerningReq
      <4> QED BY <4>1, <1>3, <1>5, <2>4 DEF CalmTab, PushInv, KindInv
    <3> QED BY <3>1, <2>3, <2>4 DEF CalmTab
  <2>5. ASSUME quiet'[u] PROVE calm'[u] /\ QuietTab(u)'
    <3>1. Concerning(u)' = {} /\ calm'[u]
      BY <2>2, <2>5, <1>6
    <3> QED BY <3>1, <2>3 DEF QuietTab
  <2> QED BY <2>4, <2>5 DEF TabInv
<1>8. CASE registry[op[r].at] # NoConn
  <2>1. Goto(r, "count") /\ Emit(op[r].at, m) /\ UNCHANGED <<op, got>>
    BY <1>8 DEF Push
  <2>2. /\ pc'[r] = "count" /\ \A x \in Req : x # r => pc'[x] = pc[x]
        /\ Concerning(u)' = Concerning(u)
    BY <2>1, <1>1, GoesOn DEF PushInv
  <2>3. m \in Message /\ m.type = "new" /\ m.note = r
    BY MessageTypes
  <2> HIDE DEF m
  <2>4. ASSUME calm'[u] PROVE CalmTab(u)'
    <3>1. \A x \in Req : pc[x] # "update"
      BY <1>5, <2>4, ConcernsAll DEF PushInv, KindInv
    <3>2. /\ World.announced = Announced /\ World.ahead = Ahead
          /\ r \notin Announced /\ r \notin Ahead
      <4>1. r \notin read
        BY <1>1, <1>2, <1>5, <2>4 DEF CalmTab
      <4>2. r \notin Announced /\ r \notin Ahead
        BY <4>1, <3>1, <1>1 DEF Announced, Ahead
      <4> QED BY <4>2 DEF World
    <3>3. /\ World'.recent = World.recent /\ World'.stored = World.stored
          /\ World'.ahead = World.ahead
          /\ World'.announced = World.announced \union {r}
      <4>1. Created' = Created /\ Recent' = Recent /\ Stored' = Stored /\ read' = read
        BY <1>1, RowsSame DEF rowsOfUser
      <4>2. Ahead' = Ahead
        <5>1. \A x \in Req : /\ pc'[x] = "update" <=> pc[x] = "update"
                             /\ pc[x] = "update" => op'[x] = op[x]
          BY <1>1, <2>2, <2>1
        <5> QED BY <5>1, <4>1, AheadSame
      <4>3. Announced' = Announced \union {r}
        <5>1. \A x \in Created : x \in Req
          BY CreatedInReq DEF PushInv, PushTypes
        <5> QED BY <5>1, <4>1, <1>1, <1>2, <2>2 DEF Announced
      <4> QED BY <4>1, <4>2, <4>3 DEF World
    <3>4. u \in Attached' => PageShows(page'[u].list, inbox'[socket'[u]], World')
      <4> HAVE u \in Attached'
      <4> DEFINE q == inbox[socket[u]]
      <4>1. u \in Attached /\ registry[op[r].at] = socket[u]
        BY <1>3, <1>4, <2>4
      <4>2. q \in Seq(Message) /\ inbox'[socket[u]] = Append(q, m)
        BY <4>1, <2>1, Emitted DEF PushInv
      <4>3. PageShows(page[u].list, q, World)
        BY <4>1, <1>5, <2>4 DEF CalmTab
      <4>4. PICK k \in 0..Len(q) : From(q, k) /\ Shows(Base(page[u].list, q, k), Notes(q, k), World)
        BY <4>3 DEF PageShows
      <4> HIDE DEF q
      <4>5. r \notin Notes(q, k)
        BY <4>4, <3>2 DEF Shows
      <4>6. /\ From(Append(q, m), k)
            /\ Base(page[u].list, Append(q, m), k) = Base(page[u].list, q, k)
            /\ Notes(Append(q, m), k) = Notes(q, k) \union {r}
        BY <2>3, <4>2, <4>4, <4>5, Appended
      <4>7. Shows(Base(page[u].list, q, k), Notes(q, k) \union {r}, World')
        BY <4>4, <3>2, <3>3, ShowsMore
      <4>8. k \in 0..Len(Append(q, m))
        BY <4>2
      <4>9. PageShows(page[u].list, Append(q, m), World')
        BY <4>6, <4>7, <4>8 DEF PageShows
      <4> QED BY <4>2, <4>9, <1>3
    <3>5. ASSUME NEW x \in Concerning(u)'
          PROVE  /\ pc'[x] = "push" => x \notin read'
                 /\ pc'[x] # "initial" /\ op'[x].kind = "send"
      <4>1. x \in Req /\ x \in Concerning(u) /\ op'[x] = op[x] /\ (x # r => pc'[x] = pc[x])
        BY <3>5, <2>1, <2>2, ConcerningReq
      <4> QED BY <4>1, <2>2, <1>3, <1>5, <2>4 DEF CalmTab, PushInv, KindInv
    <3> QED BY <3>4, <3>5 DEF CalmTab
  <2>5. ASSUME quiet'[u] PROVE calm'[u] /\ QuietTab(u)'
    <3>1. Concerning(u)' = {r} /\ calm'[u] /\ registry[op[r].at] = socket[u]
      BY <2>2, <2>5, <1>4, <1>6
    <3>2. u \in Attached' => op'[r].at = home'[socket'[u]]
      <4> HAVE u \in Attached'
      <4>1. op[r].at \in Server
        BY <1>2, ConcerningReq DEF PushInv, PushTypes, OpType
      <4> QED BY <4>1, <3>1, <2>1, <1>3, <1>8 DEF PushInv, RegistryInv, RegistryIsLive
    <3> QED BY <3>1, <3>2, <2>2 DEF QuietTab
  <2> QED BY <2>4, <2>5 DEF TabInv
<1> QED BY <1>7, <1>8

\* A fetch of one tab is nothing to another, unless its answer goes there.
LEMMA QueryKeeps ==
    ASSUME PushInv, KindInv', NEW u \in Tab, NEW r \in Req, Query(r)
    PROVE  TabInv(u)'
<1>1. /\ UNCHANGED <<sockets, inbox, rowsOfUser, op, page, ghosts>> /\ Goto(r, "initial")
      /\ pc[r] = "query" /\ pc[r] \in Running /\ "initial" \in Running
  BY DEF Query, Running
<1>2. PICK ns \in NewestFirst({i \in Rows : Newer(i) < Limit}) :
        got' = [got EXCEPT ![r].list = [i \in DOMAIN ns |-> Entry(log[ns[i]], log[ns[i]] \in read)]]
  BY DEF Query
<1> DEFINE list == [i \in DOMAIN ns |-> Entry(log[ns[i]], log[ns[i]] \in read)]
<1>3. got' = [got EXCEPT ![r].list = list]
  BY <1>2
<1>4. /\ pc'[r] = "initial" /\ \A x \in Req : x # r => pc'[x] = pc[x]
      /\ Concerning(u)' = Concerning(u)
  BY <1>1, GoesOn DEF PushInv
<1>5. /\ TabInv(u) /\ (u \in Attached' <=> u \in Attached) /\ socket' = socket /\ home' = home
      /\ inbox' = inbox /\ page' = page /\ calm' = calm /\ quiet' = quiet /\ op' = op
      /\ op[r].kind = "get"
  BY <1>1 DEF PushInv, Attached, sockets, ghosts, KindInv
<1>6. CASE r \notin Concerning(u)
  <2> HIDE DEF list
  <2>1. \A x \in Concerning(u) : pc'[x] = pc[x] /\ op'[x] = op[x] /\ got'[x] = got[x]
    BY <1>3, <1>4, <1>5, <1>6, ConcerningReq DEF PushInv, PushTypes
  <2>2. quiet'[u] => quiet[u] /\ calm'[u]
    BY <1>5 DEF TabInv
  <2> QED BY <2>1, <2>2, <1>1, <1>4, <1>5, Unconcerned
<1>7. CASE r \in Concerning(u)
  <2>1. ASSUME calm[u] PROVE Concerning(u) = {r} /\ CalmTab(u)
    BY <1>5, <1>7, <2>1 DEF TabInv, CalmTab
  <2>2. ASSUME calm[u]
        PROVE  /\ Shows(got'[r].list, {}, World') /\ UnreadIn(got'[r].list) \in Least'..Most'
    <3>1. \A x \in Req : pc[x] \notin {"push", "update"}
      BY <1>5, <2>1, <2>2, ConcernsAll DEF PushInv
    <3>2. Shows(list, {}, World) /\ UnreadIn(list) \in Least..Most
      BY <3>1, QueryAnswers DEF PushInv, PushTypes
    <3> HIDE DEF list
    <3>3. got'[r].list = list
      BY <1>3 DEF PushInv, PushTypes
    <3>4. World' = World /\ Least' = Least /\ Most' = Most
      <4>1. \A x \in Req : /\ pc'[x] = "push" <=> pc[x] = "push"
                           /\ pc'[x] = "update" <=> pc[x] = "update"
                           /\ pc[x] = "update" => op'[x] = op[x]
        BY <1>1, <1>4
      <4> QED BY <4>1, <1>1, WorldSame, RowsSame DEF PushInv
    <3> QED BY <3>2, <3>3, <3>4
  <2> HIDE DEF list
  <2>3. ASSUME calm'[u] PROVE CalmTab(u)'
    <3>1. calm[u] /\ Concerning(u)' = {r} /\ CalmTab(u)
      BY <2>1, <2>3, <1>4, <1>5
    <3>2. Fetching(u)'
      BY <3>1, <1>5 DEF Fetching
    <3> QED BY <3>1, <3>2, <2>2, <1>4, <1>5, <1>7 DEF CalmTab
  <2>4. ASSUME quiet'[u] PROVE calm'[u] /\ QuietTab(u)'
    <3>1. calm[u] /\ calm'[u]
      BY <2>4, <1>5 DEF TabInv
    <3>2. Concerning(u)' = {r}
      BY <3>1, <2>1, <1>4
    <3> QED BY <3>1, <3>2, <2>2, <1>4 DEF QuietTab
  <2> QED BY <2>3, <2>4 DEF TabInv
<1> QED BY <1>6, <1>7

\* The answer replaces all its tab had, and goes to no other.
LEMMA InitialKeeps ==
    ASSUME PushInv, KindInv', NEW u \in Tab, NEW r \in Req, Initial(r)
    PROVE  TabInv(u)'
<1> DEFINE m == [type |-> "initial", list |-> got[r].list]
<1>1. /\ UNCHANGED <<sockets, registry, rowsOfUser, page>> /\ Finish(r) /\ Emit(op[r].at, m)
      /\ pc[r] = "initial" /\ pc[r] \in Running /\ AnswerGoesOut(r)
  BY DEF Initial, Running
<1>2. /\ pc'[r] = "done" /\ Concerning(u)' = Concerning(u) \ {r}
      /\ \A x \in Req : x # r => pc'[x] = pc[x] /\ op'[x] = op[x] /\ got'[x] = got[x]
  BY <1>1, Ends DEF PushInv
<1>3. /\ TabInv(u) /\ (u \in Attached' <=> u \in Attached) /\ socket' = socket /\ home' = home
      /\ page' = page /\ op[r].kind = "get" /\ (r \in Concerning(u) <=> op[r].tab = u)
  BY <1>1 DEF PushInv, Attached, sockets, KindInv, Concerning, InFlight
<1>4. /\ calm'[u] <=> calm[u] /\ (registry[op[r].at] = socket[u] <=> u = op[r].tab)
      /\ quiet'[u] <=> quiet[u] /\ (registry[op[r].at] = socket[u] <=> u = op[r].tab)
  BY <1>1 DEF AnswerGoesOut, Reached, PushInv, PushTypes
<1>5. World' = World /\ Least' = Least /\ Most' = Most
  <2>1. \A x \in Req : /\ pc'[x] = "push" <=> pc[x] = "push"
                       /\ pc'[x] = "update" <=> pc[x] = "update"
                       /\ pc[x] = "update" => op'[x] = op[x]
    BY <1>1, <1>2
  <2> QED BY <2>1, <1>1, WorldSame, RowsSame DEF PushInv
<1>6. m \in Message /\ m.type = "initial" /\ m.list = got[r].list
  BY MessageTypes DEF PushInv, PushTypes
<1> HIDE DEF m
<1>7. quiet'[u] => quiet[u] /\ calm'[u]
  BY <1>3, <1>4 DEF TabInv
<1>8. CASE op[r].tab # u /\ registry[op[r].at] # socket[u]
  <2>1. u \in Attached => inbox'[socket[u]] = inbox[socket[u]]
    BY <1>1, <1>8, Emitted DEF PushInv
  <2>2. Concerning(u)' = Concerning(u)
    BY <1>2, <1>3, <1>8
  <2>3. \A x \in Concerning(u) : pc'[x] = pc[x] /\ op'[x] = op[x] /\ got'[x] = got[x]
    BY <1>2, <1>3, <1>8, ConcerningReq
  <2> QED BY <1>1, <1>3, <1>4, <1>7, <2>1, <2>2, <2>3, Unconcerned
<1>9. CASE op[r].tab = u /\ registry[op[r].at] = socket[u]
  <2>1. ASSUME calm[u]
        PROVE  Concerning(u)' = {} /\ Shows(got[r].list, {}, World)
    BY <2>1, <1>1, <1>2, <1>3, <1>9 DEF TabInv, CalmTab
  <2>2. u \in Attached => /\ inbox[socket[u]] \in Seq(Message)
                          /\ inbox'[socket'[u]] = Append(inbox[socket[u]], m)
    BY <1>1, <1>3, <1>9, Emitted DEF PushInv
  <2>3. ASSUME calm'[u] PROVE CalmTab(u)'
    <3>1. calm[u]
      BY <2>3, <1>4
    <3>2. u \in Attached' => PageShows(page'[u].list, inbox'[socket'[u]], World')
      <4> HAVE u \in Attached'
      <4>1. PageShows(page[u].list, Append(inbox[socket[u]], m), World)
        BY <2>1, <2>2, <3>1, <1>3, <1>6, Answered
      <4> QED BY <4>1, <2>2, <1>3, <1>5
    <3> QED BY <3>1, <3>2, <2>1 DEF CalmTab
  <2>4. ASSUME quiet'[u] PROVE calm'[u] /\ QuietTab(u)'
    <3>1. quiet[u] /\ calm[u] /\ calm'[u] /\ QuietTab(u)
      BY <2>4, <1>3, <1>7 DEF TabInv
    <3>2. UnreadIn(got[r].list) \in Least..Most
      BY <3>1, <1>1, <1>3, <1>9 DEF QuietTab
    <3>3. u \in Attached' => CountSettles(page'[u].count, inbox'[socket'[u]], Least'..Most')
      <4> HAVE u \in Attached'
      <4> DEFINE q == inbox[socket[u]]
                 p == Append(q, m)
      <4>1. q \in Seq(Message)
        BY <2>2, <1>3
      <4> HIDE DEF q
      <4>2. p # <<>> /\ p[Len(p)] = m
        BY <4>1
      <4> HIDE DEF p
      <4>3. CountSettles(page[u].count, p, Least..Most)
        BY <4>2, <3>2, <1>6 DEF CountSettles
      <4> QED BY <4>3, <2>2, <1>3, <1>5 DEF p, q
    <3> QED BY <3>1, <3>3, <2>1 DEF QuietTab
  <2> QED BY <2>3, <2>4 DEF TabInv
<1>10. CASE ~(registry[op[r].at] = socket[u] <=> op[r].tab = u)
  <2>1. ~calm'[u] /\ ~quiet'[u]
    BY <1>4, <1>10
  <2> QED BY <2>1 DEF TabInv
<1> QED BY <1>8, <1>9, <1>10

\* The database follows the page.
LEMMA UpdateKeeps ==
    ASSUME PushInv, KindInv', NEW u \in Tab, NEW r \in Req, Update(r)
    PROVE  TabInv(u)'
<1>1. /\ UNCHANGED <<sockets, inbox, log, withdrawn, op, page, ghosts>> /\ pc[r] = "update"
      /\ pc[r] \in Running /\ op[r].kind \in {"mark", "markAll"}
      /\ \E l \in Running : Goto(r, l) /\ l = IF op[r].kind = "mark" THEN "count" ELSE "badge"
  BY DEF Update, Running, PushInv, KindInv
<1>2. /\ pc'[r] = IF op[r].kind = "mark" THEN "count" ELSE "badge"
      /\ \A x \in Req : x # r => pc'[x] = pc[x]
      /\ Concerning(u)' = Concerning(u) /\ r \in Concerning(u)
  BY <1>1, GoesOn, ConcernsAll DEF PushInv
<1>3. /\ TabInv(u) /\ (u \in Attached' <=> u \in Attached) /\ socket' = socket /\ home' = home
      /\ inbox' = inbox /\ page' = page /\ calm' = calm /\ quiet' = quiet /\ op' = op
  BY <1>1 DEF PushInv, Attached, sockets, ghosts
<1>4. Created' = Created /\ Stored' = Stored /\ Recent' = Recent
  <2>1. Created' = Created
    BY <1>1 DEF Created
  <2>2. Stored' = Stored
    BY <2>1, <1>1 DEF Stored
  <2> QED BY <2>1, <2>2, <1>1 DEF Recent
<1>5. ASSUME calm[u]
      PROVE  CalmTab(u) /\ Concerning(u) = {r} /\ ~Fetching(u)
  <2>1. CalmTab(u)
    BY <1>3, <1>5 DEF TabInv
  <2>2. Concerning(u) = {r}
    BY <2>1, <1>1, <1>2 DEF CalmTab
  <2> QED BY <2>1, <2>2, <1>1 DEF Fetching
<1>6. ASSUME calm'[u] PROVE CalmTab(u)'
  <2>1. Announced' = Announced
    <3>1. \A x \in Created : x \in Req
      BY CreatedInReq DEF PushInv, PushTypes
    <3> QED BY <3>1, <1>1, <1>2, <1>4 DEF Announced
  <2>2. \A n \in Stored : n \in Ahead' <=> n \in Ahead
    <3>1. \A x \in Req : pc'[x] # "update" /\ (pc[x] = "update" => x = r)
      BY <1>2, <1>3, <1>5, <1>6, ConcernsAll DEF PushInv
    <3>2. Ahead' = read'
      BY <3>1 DEF Ahead
    <3>3. \A n \in Req : n \in Ahead <=> n \in read \/ op[r].kind = "markAll" \/ op[r].note = n
      BY <3>1, <1>1 DEF Ahead
    <3>4. \A n \in Stored : n \in Req
      BY CreatedInReq DEF PushInv, PushTypes, Stored
    <3>5. read' = read \union (IF op[r].kind = "mark" THEN {op[r].note} \intersect Stored ELSE Stored)
      BY DEF Update
    <3> QED BY <3>2, <3>3, <3>4, <3>5, <1>1
  <2>3. Still(World, World')
    <3>1. /\ World.announced = Announced /\ World.recent = Recent /\ World.stored = Stored
          /\ World.ahead = Ahead
      BY DEF World
    <3>2. /\ World'.announced = Announced' /\ World'.recent = Recent' /\ World'.stored = Stored'
          /\ World'.ahead = Ahead'
      BY DEF World
    <3> QED BY <3>1, <3>2, <2>1, <2>2, <1>4 DEF Still
  <2>4. u \in Attached' => PageShows(page'[u].list, inbox'[socket'[u]], World')
    <3> HAVE u \in Attached'
    <3>1. PageShows(page[u].list, inbox[socket[u]], World)
      BY <1>3, <1>5, <1>6 DEF CalmTab
    <3>2. PageShows(page[u].list, inbox[socket[u]], World')
      BY <3>1, <2>3, PageShowsStill
    <3> QED BY <3>2, <1>3
  <2> QED BY <2>4, <1>1, <1>2, <1>3, <1>5, <1>6 DEF CalmTab
<1>7. ASSUME quiet'[u] PROVE calm'[u] /\ QuietTab(u)'
  <2>1. calm[u] /\ QuietTab(u) /\ calm'[u]
    BY <1>3, <1>7 DEF TabInv
  <2>2. Concerning(u)' = {r} /\ CalmTab(u)
    BY <2>1, <1>2, <1>5
  <2>3. pc'[r] = "badge" => got'[r].total \in Least'..Most'
    <3> HAVE pc'[r] = "badge"
    <3>1. read' = read \union Stored /\ got' = [got EXCEPT ![r].total = 0]
      BY <1>2 DEF Update
    <3>2. got'[r].total = 0
      BY <3>1 DEF PushInv, PushTypes
    <3>3. Recent' \ read' = {}
      BY <3>1, <1>4 DEF Recent
    <3>4. Least' = 0
      BY <3>3, FS_EmptySet DEF Least
    <3>5. Most' \in Nat
      <4>1. IsFiniteSet(Unread) /\ Cardinality(withdrawn) \in Nat
        BY FiniteParts DEF PushInv, PushTypes, LogInv
      <4>2. Unread' \in SUBSET Unread
        BY <3>1, <1>4 DEF Unread
      <4>3. Cardinality(Unread') \in Nat
        BY <4>1, <4>2, FS_Subset, FS_CardinalityType
      <4> QED BY <4>1, <4>3, <1>1 DEF Most
    <3> QED BY <3>2, <3>4, <3>5
  <2>4. u \in Attached' => op'[r].at = home'[socket'[u]]
    BY <2>2, <1>1, <1>2, <1>3 DEF CalmTab
  <2> QED BY <2>1, <2>2, <2>3, <2>4, <1>2 DEF QuietTab
<1> QED BY <1>6, <1>7 DEF TabInv

LEMMA CountKeeps ==
    ASSUME PushInv, KindInv', NEW u \in Tab, NEW r \in Req, Count(r)
    PROVE  TabInv(u)'
<1>1. /\ UNCHANGED <<sockets, inbox, rowsOfUser, op, page, ghosts>> /\ Goto(r, "badge")
      /\ pc[r] = "count" /\ pc[r] \in Running /\ "badge" \in Running
      /\ got' = [got EXCEPT ![r].total = Cardinality(Unread)]
  BY DEF Count, Running
<1>2. /\ pc'[r] = "badge" /\ \A x \in Req : x # r => pc'[x] = pc[x]
      /\ Concerning(u)' = Concerning(u)
  BY <1>1, GoesOn DEF PushInv
<1>3. /\ TabInv(u) /\ (u \in Attached' <=> u \in Attached) /\ socket' = socket /\ home' = home
      /\ inbox' = inbox /\ page' = page /\ calm' = calm /\ quiet' = quiet /\ op' = op
      /\ r \in Concerning(u)
  BY <1>1 DEF PushInv, Attached, sockets, ghosts, KindInv, Concerning, InFlight
<1>4. World' = World /\ Least' = Least /\ Most' = Most /\ read' = read
  <2>1. \A x \in Req : /\ pc'[x] = "push" <=> pc[x] = "push"
                       /\ pc'[x] = "update" <=> pc[x] = "update"
                       /\ pc[x] = "update" => op'[x] = op[x]
    BY <1>1, <1>2
  <2> QED BY <2>1, <1>1, WorldSame, RowsSame DEF PushInv, rowsOfUser
<1>5. got'[r].total = Cardinality(Unread) /\ \A x \in Req : x # r => got'[x] = got[x]
  BY <1>1 DEF PushInv, PushTypes
<1>6. Fetching(u)' <=> Fetching(u)
  BY <1>2, <1>3 DEF Fetching
<1>7. ASSUME calm'[u] PROVE CalmTab(u)'
  <2>1. CalmTab(u)
    BY <1>3, <1>7 DEF TabInv
  <2>2. ASSUME NEW x \in Concerning(u)'
        PROVE  /\ pc'[x] = "push" => x \notin read'
               /\ pc'[x] = "initial" => Shows(got'[x].list, {}, World')
    BY <2>1, <2>2, <1>2, <1>4, <1>5, ConcerningReq DEF CalmTab
  <2>3. u \in Attached' => Fetching(u)' \/ PageShows(page'[u].list, inbox'[socket'[u]], World')
    BY <2>1, <1>3, <1>4, <1>6 DEF CalmTab
  <2> QED BY <2>1, <2>2, <2>3, <1>2, <1>3 DEF CalmTab
<1>8. ASSUME quiet'[u] PROVE calm'[u] /\ QuietTab(u)'
  <2>1. calm'[u] /\ QuietTab(u)
    BY <1>3, <1>8 DEF TabInv
  <2>2. Concerning(u)' = {r}
    BY <2>1, <1>2, <1>3 DEF QuietTab
  <2>3. got'[r].total \in Least'..Most'
    <3>1. /\ Cardinality(Unread) \in Nat /\ Cardinality(withdrawn) \in Nat
          /\ Least \in Nat /\ Least <= Cardinality(Unread)
      BY FiniteParts DEF PushInv, PushTypes, LogInv
    <3>2. Cardinality(Unread) \in Least..Most
      BY <3>1 DEF Most
    <3> QED BY <3>2, <1>4, <1>5
  <2>4. u \in Attached' => op'[r].at = home'[socket'[u]]
    BY <2>1, <1>1, <1>3 DEF QuietTab
  <2> QED BY <2>1, <2>2, <2>3, <2>4, <1>2 DEF QuietTab
<1> QED BY <1>7, <1>8 DEF TabInv

LEMMA BadgeKeeps ==
    ASSUME PushInv, KindInv', NEW u \in Tab, NEW r \in Req, Badge(r)
    PROVE  TabInv(u)'
<1> DEFINE m == [type |-> "count", count |-> got[r].total]
<1>1. /\ UNCHANGED <<sockets, registry, rowsOfUser, page, calm>> /\ Finish(r)
      /\ Emit(op[r].at, m) /\ pc[r] = "badge" /\ pc[r] \in Running /\ BadgeGoesOut(r)
  BY DEF Badge, Running, BadgeGoesOut
<1>2. /\ pc'[r] = "done" /\ Concerning(u)' = Concerning(u) \ {r}
      /\ \A x \in Req : x # r => pc'[x] = pc[x] /\ op'[x] = op[x] /\ got'[x] = got[x]
  BY <1>1, Ends DEF PushInv
<1>3. /\ TabInv(u) /\ (u \in Attached' <=> u \in Attached) /\ socket' = socket /\ home' = home
      /\ page' = page /\ calm' = calm /\ r \in Concerning(u) /\ op[r].kind # "get"
  BY <1>1 DEF PushInv, Attached, sockets, KindInv, Concerning, InFlight
<1>4. World' = World /\ Least' = Least /\ Most' = Most /\ read' = read
  <2>1. \A x \in Req : /\ pc'[x] = "push" <=> pc[x] = "push"
                       /\ pc'[x] = "update" <=> pc[x] = "update"
                       /\ pc[x] = "update" => op'[x] = op[x]
    BY <1>1, <1>2
  <2> QED BY <2>1, <1>1, WorldSame, RowsSame DEF PushInv, rowsOfUser
<1>5. quiet'[u] => quiet[u] /\ registry[op[r].at] = socket[u]
  BY <1>1 DEF BadgeGoesOut, Reached, PushInv, PushTypes
<1>6. m \in Message /\ m.type = "count" /\ m.count = got[r].total
  BY MessageTypes DEF PushInv, PushTypes
<1> HIDE DEF m
<1>7. \A x \in Concerning(u)' : /\ x \in Req /\ x \in Concerning(u) /\ pc'[x] = pc[x]
                                /\ op'[x] = op[x] /\ got'[x] = got[x]
  BY <1>2, ConcerningReq
<1>8. ASSUME calm'[u] PROVE CalmTab(u)'
  <2>1. CalmTab(u) /\ ~Fetching(u)
    BY <1>3, <1>8 DEF TabInv, CalmTab, Fetching
  <2>2. ASSUME NEW x \in Concerning(u)'
        PROVE  /\ pc'[x] = "push" => x \notin read'
               /\ pc'[x] = "initial" => Shows(got'[x].list, {}, World')
               /\ op'[x].kind \in {"mark", "markAll"} => op'[x].tab = u
               /\ u \in Attached' /\ op'[x].kind # "send" => op'[x].at = home'[socket'[u]]
    BY <2>1, <2>2, <1>3, <1>4, <1>7 DEF CalmTab
  <2>3. u \in Attached' => PageShows(page'[u].list, inbox'[socket'[u]], World')
    <3> HAVE u \in Attached'
    <3> DEFINE q == inbox[socket[u]]
    <3>1. /\ q \in Seq(Message)
          /\ inbox'[socket'[u]] = q \/ inbox'[socket'[u]] = Append(q, m)
      BY <1>1, <1>3, Emitted DEF PushInv
    <3>2. PageShows(page[u].list, q, World)
      BY <2>1, <1>3 DEF CalmTab
    <3>3. PICK k \in 0..Len(q) : From(q, k) /\ Shows(Base(page[u].list, q, k), Notes(q, k), World)
      BY <3>2 DEF PageShows
    <3> HIDE DEF q
    <3>4. /\ From(Append(q, m), k) /\ Notes(Append(q, m), k) = Notes(q, k)
          /\ Base(page[u].list, Append(q, m), k) = Base(page[u].list, q, k)
      BY <3>1, <3>3, <1>6, Appended
    <3>5. k \in 0..Len(Append(q, m))
      BY <3>1
    <3>6. PageShows(page[u].list, Append(q, m), World)
      BY <3>3, <3>4, <3>5 DEF PageShows
    <3> QED BY <3>1, <3>2, <3>6, <1>3, <1>4
  <2>4. \A x, y \in Concerning(u)' : x = y \/ (op'[x].kind = "send" /\ op'[y].kind = "send")
    BY <2>1, <1>7 DEF CalmTab
  <2> QED BY <2>2, <2>3, <2>4 DEF CalmTab
<1>9. ASSUME quiet'[u] PROVE calm'[u] /\ QuietTab(u)'
  <2>1. calm'[u] /\ QuietTab(u) /\ registry[op[r].at] = socket[u]
    BY <1>3, <1>5, <1>9 DEF TabInv
  <2>2. Concerning(u)' = {} /\ got[r].total \in Least..Most
    BY <2>1, <1>1, <1>2, <1>3 DEF QuietTab
  <2>3. u \in Attached' => CountSettles(page'[u].count, inbox'[socket'[u]], Least'..Most')
    <3> HAVE u \in Attached'
    <3> DEFINE q == inbox[socket[u]]
               p == Append(q, m)
    <3>1. q \in Seq(Message) /\ inbox'[socket'[u]] = p
      BY <2>1, <1>1, <1>3, Emitted DEF PushInv
    <3> HIDE DEF q
    <3>2. p # <<>> /\ p[Len(p)] = m
      BY <3>1
    <3> HIDE DEF p
    <3>3. CountSettles(page[u].count, p, Least..Most)
      BY <3>2, <2>2, <1>6 DEF CountSettles
    <3> QED BY <3>1, <3>3, <1>3, <1>4
  <2> QED BY <2>1, <2>2, <2>3 DEF QuietTab
<1> QED BY <1>8, <1>9 DEF TabInv

\* A restart takes only what was for tabs that lose their sockets with it, or what is
\* not announced yet.
LEMMA RestartForgets ==
    ASSUME PushInv, KindInv', NEW u \in Tab, NEW s \in Server, Restart(s)
    PROVE  TabInv(u)'
<1> DEFINE lost == {r \in InFlight : op[r].at = s}
<1>1. /\ UNCHANGED <<home, rowsOfUser, page>> /\ Detach({c \in up : home[c] = s})
      /\ pc' = [r \in Req |-> IF r \in lost THEN "done" ELSE pc[r]]
      /\ op' = [r \in Req |-> IF r \in lost THEN NoOp ELSE op[r]]
      /\ got' = [r \in Req |-> IF r \in lost THEN NothingRead ELSE got[r]]
      /\ calm'[u] = (calm[u] /\ \A r \in lost : pc[r] # "push")
      /\ quiet'[u] = (quiet[u] /\ \A r \in lost : pc[r] # "push")
  BY DEF Restart
<1>2. \A r \in lost : r \in InFlight /\ r \in Req /\ op[r].at = s
  BY DEF InFlight
<1> HIDE DEF lost
<1>3. /\ \A x \in Req : x \in lost => pc'[x] = "done"
      /\ \A x \in Req : x \notin lost => pc'[x] = pc[x] /\ op'[x] = op[x] /\ got'[x] = got[x]
  BY <1>1
<1>4. InFlight' = InFlight \ lost
  BY <1>2, <1>3 DEF InFlight, Running
<1>5. Concerning(u)' = Concerning(u) \ lost
  BY <1>3, <1>4 DEF Concerning, InFlight
<1>6. u \in Attached' => /\ u \in Attached /\ socket'[u] = socket[u] /\ home[socket[u]] # s
                         /\ inbox'[socket'[u]] = inbox[socket[u]]
  <2> HAVE u \in Attached'
  <2>1. socket'[u] \in up' /\ up' \subseteq up /\ socket'[u] \in up
    BY <1>1 DEF Attached, Detach
  <2>2. socket'[u] # NoConn /\ socket'[u] \in Conn
    BY <2>1, NoConnAssumption DEF PushInv, PushTypes
  <2>3. socket'[u] = socket[u] /\ home[socket[u]] # s
    BY <1>1, <2>1, <2>2 DEF Detach
  <2> QED BY <1>1, <2>1, <2>2, <2>3 DEF Detach, Attached
<1>7. TabInv(u)
  BY DEF PushInv
<1>8. ASSUME calm'[u] PROVE CalmTab(u)'
  <2>1. CalmTab(u) /\ \A x \in lost : pc[x] # "push"
    BY <1>1, <1>7, <1>8 DEF TabInv
  <2>2. \A x \in Concerning(u)' : /\ x \in Concerning(u) /\ x \in Req /\ pc'[x] = pc[x]
                                  /\ op'[x] = op[x] /\ got'[x] = got[x]
    BY <1>3, <1>5, ConcerningReq
  <2>3. \A x, y \in Concerning(u)' : x = y \/ (op'[x].kind = "send" /\ op'[y].kind = "send")
    BY <2>1, <2>2 DEF CalmTab
  <2>4. CASE \E x \in lost : pc[x] = "update"
    <3>1. PICK x \in lost : pc[x] = "update"
      BY <2>4
    <3>2. x \in Concerning(u) /\ op[x].kind \in {"mark", "markAll"} /\ op[x].at = s
      BY <3>1, <1>2, ConcernsAll DEF PushInv, KindInv
    <3>3. Concerning(u)' = {}
      BY <3>1, <3>2, <2>1, <1>5 DEF CalmTab
    <3>4. u \notin Attached'
      BY <3>2, <2>1, <1>6 DEF CalmTab
    <3> QED BY <3>3, <3>4 DEF CalmTab
  <2>5. CASE \A x \in lost : pc[x] # "update"
    <3>1. World' = World
      <4>1. \A x \in Req : /\ pc'[x] = "push" <=> pc[x] = "push"
                           /\ pc'[x] = "update" <=> pc[x] = "update"
                           /\ pc[x] = "update" => op'[x] = op[x]
        BY <2>1, <2>5, <1>3
      <4> QED BY <4>1, <1>1, WorldSame DEF PushInv
    <3>2. ASSUME NEW x \in Concerning(u)'
          PROVE  /\ pc'[x] = "push" => x \notin read'
                 /\ pc'[x] = "initial" => Shows(got'[x].list, {}, World')
                 /\ op'[x].kind \in {"mark", "markAll"} => op'[x].tab = u
                 /\ u \in Attached' /\ op'[x].kind # "send" => op'[x].at = home'[socket'[u]]
      <4>1. /\ x \in Concerning(u) /\ pc'[x] = pc[x] /\ op'[x] = op[x] /\ got'[x] = got[x]
            /\ read' = read
        BY <3>2, <2>2, <1>1 DEF rowsOfUser
      <4> QED BY <4>1, <3>1, <2>1, <1>1, <1>6 DEF CalmTab
    <3>3. u \in Attached' => Fetching(u)' \/ PageShows(page'[u].list, inbox'[socket'[u]], World')
      <4> HAVE u \in Attached'
      <4>1. CASE Fetching(u)
        <5>1. PICK x \in Concerning(u) : op[x].kind = "get"
          BY <4>1 DEF Fetching
        <5>2. op[x].at # s
          BY <5>1, <2>1, <1>6 DEF CalmTab
        <5>3. x \in Concerning(u)' /\ op'[x] = op[x]
          BY <5>2, <1>2, <1>3, <1>5, ConcerningReq
        <5> QED BY <5>1, <5>3 DEF Fetching
      <4>2. CASE ~Fetching(u)
        BY <4>2, <3>1, <2>1, <1>1, <1>6 DEF CalmTab
      <4> QED BY <4>1, <4>2
    <3> QED BY <3>2, <3>3, <2>3 DEF CalmTab
  <2> QED BY <2>4, <2>5
<1>9. ASSUME quiet'[u] PROVE calm'[u] /\ QuietTab(u)'
  <2>1. QuietTab(u) /\ calm'[u] /\ calm[u] /\ CalmTab(u) /\ \A x \in lost : pc[x] # "push"
    BY <1>1, <1>7, <1>9 DEF TabInv
  <2>2. Least' = Least /\ Most' = Most
    BY <1>1, RowsSame
  <2>3. ASSUME NEW x \in Concerning(u)'
        PROVE  /\ pc'[x] = "initial" => UnreadIn(got'[x].list) \in Least'..Most'
               /\ pc'[x] = "badge" => got'[x].total \in Least'..Most'
               /\ u \in Attached' /\ pc'[x] \in {"count", "badge"} => op'[x].at = home'[socket'[u]]
    <3>1. x \in Concerning(u) /\ pc'[x] = pc[x] /\ op'[x] = op[x] /\ got'[x] = got[x]
      BY <2>3, <1>3, <1>5, ConcerningReq
    <3> QED BY <3>1, <2>1, <2>2, <1>1, <1>6 DEF QuietTab
  <2>4. u \in Attached' /\ (\A x \in Concerning(u)' : pc'[x] = "create") =>
            CountSettles(page'[u].count, inbox'[socket'[u]], Least'..Most')
    <3> HAVE u \in Attached' /\ (\A x \in Concerning(u)' : pc'[x] = "create")
    <3>1. ASSUME NEW x \in Concerning(u) PROVE pc[x] = "create"
      <4>1. CASE x \in lost
        <5>1. op[x].at = s /\ pc[x] # "push" /\ x \in Req /\ pc[x] \in Running
          BY <4>1, <2>1, <1>2, ConcerningReq
        <5>2. op[x].kind = "send"
          BY <5>1, <2>1, <1>6 DEF CalmTab
        <5>3. pc[x] \notin {"count", "badge"}
          BY <5>1, <2>1, <1>6 DEF QuietTab
        <5> QED BY <5>1, <5>2, <5>3 DEF PushInv, KindInv, Running
      <4>2. CASE x \notin lost
        BY <4>2, <1>3, <1>5, ConcerningReq
      <4> QED BY <4>1, <4>2
    <3>2. CountSettles(page[u].count, inbox[socket[u]], Least..Most)
      BY <3>1, <2>1, <1>6 DEF QuietTab
    <3> QED BY <3>2, <2>2, <1>1, <1>6
  <2>5. \A x, y \in Concerning(u)' : x = y
    BY <2>1, <1>5 DEF QuietTab
  <2> QED BY <2>1, <2>3, <2>4, <2>5 DEF QuietTab
<1> QED BY <1>8, <1>9 DEF TabInv

\* No event tells the page, but what it shows of the rows that are left stays true.
LEMMA WithdrawKeeps ==
    ASSUME PushInv, NEW u \in Tab, NEW n \in Created, Withdraw(n)
    PROVE  TabInv(u)'
<1>1. /\ UNCHANGED <<sockets, inbox, log, read, pc, op, got, page, ghosts>>
      /\ n \in Stored /\ withdrawn' = withdrawn \union {n}
  BY DEF Withdraw
<1>2. Concerning(u)' = Concerning(u)
  BY <1>1 DEF Concerning, InFlight
<1>3. Created' = Created /\ Stored' = Stored \ {n}
  <2>1. Created' = Created
    BY <1>1 DEF Created
  <2> QED BY <2>1, <1>1 DEF Stored
<1>4. Recent' \subseteq Recent
  BY <1>1, <1>3 DEF Recent
<1>5. Still(World, World')
  <2>1. /\ World.announced = Announced /\ World.recent = Recent /\ World.stored = Stored
        /\ World.ahead = Ahead
    BY DEF World
  <2>2. /\ World'.announced = Announced' /\ World'.recent = Recent' /\ World'.stored = Stored'
        /\ World'.ahead = Ahead'
    BY DEF World
  <2>3. Announced' = Announced
    BY <1>1, <1>3 DEF Announced
  <2>4. Ahead' = Ahead
    BY <1>1, AheadSame
  <2> QED BY <2>1, <2>2, <2>3, <2>4, <1>3, <1>4 DEF Still
<1>6. Least..Most \subseteq Least'..Most'
  <2>1. /\ IsFiniteSet(Unread) /\ Cardinality(Unread) \in Nat
        /\ IsFiniteSet(withdrawn) /\ Cardinality(withdrawn) \in Nat
        /\ IsFiniteSet(Recent \ read) /\ Least \in Nat /\ Most \in Nat
    BY FiniteParts DEF PushInv, PushTypes, LogInv
  <2>2. Recent' \ read' \in SUBSET (Recent \ read)
    BY <1>1, <1>4
  <2>3. /\ Cardinality(Recent' \ read') <= Cardinality(Recent \ read)
        /\ Cardinality(Recent' \ read') \in Nat
    BY <2>1, <2>2, FS_Subset, FS_CardinalityType
  <2>4. Unread' = Unread \ {n}
    BY <1>1, <1>3 DEF Unread
  <2>5. Cardinality(Unread') = IF n \in Unread THEN Cardinality(Unread) - 1 ELSE Cardinality(Unread)
    BY <2>1, <2>4, FS_RemoveElement
  <2>6. Cardinality(withdrawn') = Cardinality(withdrawn) + 1
    BY <2>1, <1>1, FS_AddElement DEF Stored
  <2>7. Least' <= Least /\ Least' \in Nat
    BY <2>3 DEF Least
  <2>8. Most <= Most' /\ Most' \in Nat
    <3>1. Most' = Cardinality(Unread') + Cardinality(withdrawn')
      BY DEF Most
    <3>2. n \in Unread => Cardinality(Unread) - 1 \in Nat
      <4> HAVE n \in Unread
      <4>1. Unread # {}
        OBVIOUS
      <4>2. Cardinality(Unread) # 0
        BY <2>1, <4>1, FS_EmptySet
      <4> QED BY <2>1, <4>2
    <3> QED BY <3>1, <3>2, <2>1, <2>5, <2>6 DEF Most
  <2> QED BY <2>1, <2>7, <2>8
<1>7. /\ TabInv(u) /\ (u \in Attached' <=> u \in Attached) /\ socket' = socket /\ home' = home
      /\ inbox' = inbox /\ page' = page /\ calm' = calm /\ quiet' = quiet
      /\ pc' = pc /\ op' = op /\ got' = got /\ read' = read
  BY <1>1 DEF PushInv, Attached, sockets, ghosts
<1>8. ASSUME calm'[u] PROVE CalmTab(u)'
  <2>1. CalmTab(u)
    BY <1>7, <1>8 DEF TabInv
  <2>2. ASSUME NEW x \in Concerning(u)', pc'[x] = "initial"
        PROVE  Shows(got'[x].list, {}, World')
    <3>1. Shows(got[x].list, {}, World)
      BY <2>1, <2>2, <1>2, <1>7 DEF CalmTab
    <3>2. Shows(got[x].list, {}, World')
      BY <3>1, <1>5, ShowsStill
    <3> QED BY <3>2, <1>7
  <2>3. Fetching(u)' <=> Fetching(u)
    BY <1>2, <1>7 DEF Fetching
  <2>4. u \in Attached' => Fetching(u)' \/ PageShows(page'[u].list, inbox'[socket'[u]], World')
    <3> HAVE u \in Attached'
    <3>1. Fetching(u) \/ PageShows(page[u].list, inbox[socket[u]], World)
      BY <2>1, <1>7 DEF CalmTab
    <3>2. Fetching(u) \/ PageShows(page[u].list, inbox[socket[u]], World')
      BY <3>1, <1>5, PageShowsStill
    <3> QED BY <3>2, <2>3, <1>7
  <2> QED BY <2>1, <2>2, <2>4, <1>2, <1>7 DEF CalmTab
<1>9. ASSUME quiet'[u] PROVE calm'[u] /\ QuietTab(u)'
  <2>1. QuietTab(u) /\ calm'[u]
    BY <1>7, <1>9 DEF TabInv
  <2>2. ASSUME NEW x \in Concerning(u)'
        PROVE  /\ pc'[x] = "initial" => UnreadIn(got'[x].list) \in Least'..Most'
               /\ pc'[x] = "badge" => got'[x].total \in Least'..Most'
    BY <2>1, <2>2, <1>2, <1>6, <1>7 DEF QuietTab
  <2>3. u \in Attached' /\ (\A x \in Concerning(u)' : pc'[x] = "create") =>
            CountSettles(page'[u].count, inbox'[socket'[u]], Least'..Most')
    BY <2>1, <1>2, <1>6, <1>7 DEF QuietTab, CountSettles
  <2> QED BY <2>1, <2>2, <2>3, <1>2, <1>7 DEF QuietTab
<1> QED BY <1>8, <1>9 DEF TabInv

LEMMA ReceiveKeeps ==
    ASSUME PushInv, KindInv', NEW u \in Tab, NEW t \in Tab, Receive(t)
    PROVE  TabInv(u)'
<1>1. /\ UNCHANGED <<sockets, rowsOfUser, pc, op, got, ghosts>>
      /\ socket[t] # NoConn /\ inbox[socket[t]] # <<>>
      /\ page' = [page EXCEPT ![t] = Shown(@, Head(inbox[socket[t]]))]
      /\ inbox' = [inbox EXCEPT ![socket[t]] = Tail(@)]
  BY DEF Receive
<1>2. /\ TabInv(u) /\ (u \in Attached' <=> u \in Attached) /\ socket' = socket /\ home' = home
      /\ calm' = calm /\ quiet' = quiet /\ pc' = pc /\ op' = op /\ got' = got /\ read' = read
      /\ Concerning(u)' = Concerning(u) /\ (Fetching(u)' <=> Fetching(u))
  BY <1>1 DEF PushInv, Attached, sockets, ghosts, rowsOfUser, Concerning, InFlight, Fetching
<1>3. CASE u # t
  <2>1. page'[u] = page[u]
    BY <1>1, <1>3 DEF PushInv, PushTypes
  <2>2. u \in Attached => inbox'[socket[u]] = inbox[socket[u]]
    <3> HAVE u \in Attached
    <3>1. socket[u] # socket[t] /\ socket[u] \in Conn
      BY <1>1, <1>3, AttachedSocket DEF PushInv, SocketInv
    <3> QED BY <3>1, <1>1 DEF PushInv, PushTypes
  <2>3. quiet'[u] => quiet[u] /\ calm'[u]
    BY <1>2 DEF TabInv
  <2> QED BY <1>1, <1>2, <2>1, <2>2, <2>3, Unconcerned
<1>4. CASE u = t
  <2> DEFINE q == inbox[socket[t]]
             p == page[t]
  <2>1. socket[t] \in Conn
    BY <1>1 DEF PushInv, PushTypes
  <2>2. q \in Seq(Message) /\ q # <<>> /\ p \in Seen
    BY <1>1, <2>1 DEF PushInv, PushTypes
  <2>3. inbox'[socket'[u]] = Tail(q) /\ page'[u] = Shown(p, Head(q))
    BY <1>1, <1>2, <1>4, <2>1 DEF PushInv, PushTypes
  <2>4. q = inbox[socket[u]] /\ p = page[u]
    BY <1>4
  <2> HIDE DEF q, p
  <2>5. World' = World /\ Least' = Least /\ Most' = Most
    BY <1>1, WorldSame, RowsSame DEF PushInv
  <2>6. ASSUME calm'[u] PROVE CalmTab(u)'
    <3>1. CalmTab(u)
      BY <1>2, <2>6 DEF TabInv
    <3>2. u \in Attached' => Fetching(u)' \/ PageShows(page'[u].list, inbox'[socket'[u]], World')
      <4> HAVE u \in Attached'
      <4>1. Fetching(u) \/ PageShows(p.list, q, World)
        BY <3>1, <2>4, <1>2 DEF CalmTab
      <4>2. Fetching(u) \/ PageShows(Shown(p, Head(q)).list, Tail(q), World)
        BY <4>1, <2>2, Received
      <4> QED BY <4>2, <2>3, <2>5, <1>2
    <3> QED BY <3>1, <3>2, <2>5, <1>2 DEF CalmTab
  <2>7. ASSUME quiet'[u] PROVE calm'[u] /\ QuietTab(u)'
    <3>1. QuietTab(u) /\ calm'[u]
      BY <1>2, <2>7 DEF TabInv
    <3>2. u \in Attached' /\ (\A x \in Concerning(u)' : pc'[x] = "create") =>
              CountSettles(page'[u].count, inbox'[socket'[u]], Least'..Most')
      <4> HAVE u \in Attached' /\ (\A x \in Concerning(u)' : pc'[x] = "create")
      <4>1. CountSettles(p.count, q, Least..Most)
        BY <3>1, <2>4, <1>2 DEF QuietTab
      <4>2. CountSettles(Shown(p, Head(q)).count, Tail(q), Least..Most)
        BY <4>1, <2>2, CountReceived
      <4> QED BY <4>2, <2>3, <2>5
    <3> QED BY <3>1, <3>2, <2>5, <1>2 DEF QuietTab
  <2> QED BY <2>6, <2>7 DEF TabInv
<1> QED BY <1>3, <1>4

\* A tab that leaves, a socket the server loses: nothing to the other tabs.
LEMMA LeaveKeeps ==
    ASSUME PushInv, KindInv', NEW u \in Tab, NEW t \in Tab, Leave(t)
    PROVE  TabInv(u)'
<1>1. /\ UNCHANGED <<home, up, rowsOfUser, pc, op, got, page, ghosts>> /\ socket[t] # NoConn
      /\ socket' = [socket EXCEPT ![t] = NoConn] /\ inbox' = [inbox EXCEPT ![socket[t]] = <<>>]
  BY DEF Leave
<1>2. /\ Concerning(u)' = Concerning(u) /\ TabInv(u) /\ calm' = calm /\ quiet' = quiet
  BY <1>1 DEF Concerning, InFlight, ghosts, PushInv
<1>3. u \in Attached' => /\ u \in Attached /\ socket'[u] = socket[u]
                         /\ inbox'[socket[u]] = inbox[socket[u]]
  <2> HAVE u \in Attached'
  <2>1. u # t
    BY <1>1, NoConnAssumption DEF Attached, PushInv, PushTypes
  <2>2. u \in Attached /\ socket'[u] = socket[u]
    BY <1>1, <2>1 DEF Attached, PushInv, PushTypes
  <2>3. socket[u] # socket[t] /\ socket[u] \in Conn
    BY <1>1, <2>1, <2>2, AttachedSocket DEF PushInv, SocketInv
  <2> QED BY <1>1, <2>2, <2>3 DEF PushInv, PushTypes
<1>4. quiet'[u] => quiet[u] /\ calm'[u]
  BY <1>2 DEF TabInv
<1> QED BY <1>1, <1>2, <1>3, <1>4, Unconcerned

LEMMA DisconnectForgets ==
    ASSUME PushInv, KindInv', NEW u \in Tab, NEW c \in Conn, Disconnect(c)
    PROVE  TabInv(u)'
<1>1. UNCHANGED <<home, rowsOfUser, pc, op, got, page, ghosts>> /\ Detach({c})
  BY DEF Disconnect
<1>2. /\ Concerning(u)' = Concerning(u) /\ TabInv(u) /\ calm' = calm /\ quiet' = quiet
  BY <1>1 DEF Concerning, InFlight, ghosts, PushInv
<1>3. u \in Attached' => /\ u \in Attached /\ socket'[u] = socket[u]
                         /\ inbox'[socket[u]] = inbox[socket[u]]
  <2> HAVE u \in Attached'
  <2>1. socket'[u] \in up /\ socket'[u] # c
    BY <1>1 DEF Detach, Attached
  <2>2. socket'[u] \in Conn /\ socket'[u] # NoConn
    BY <2>1, NoConnAssumption DEF PushInv, PushTypes
  <2>3. socket'[u] = socket[u]
    BY <1>1, <2>2 DEF Detach
  <2> QED BY <1>1, <2>1, <2>2, <2>3 DEF Detach, Attached
<1>4. quiet'[u] => quiet[u] /\ calm'[u]
  BY <1>2 DEF TabInv
<1> QED BY <1>1, <1>2, <1>3, <1>4, Unconcerned

LEMMA ConnectFetches ==
    ASSUME PushInv, KindInv', NEW u \in Tab, NEW r \in Req, NEW t \in Tab, NEW c \in Conn,
           NEW s \in Server, Connect(t, c, s, r)
    PROVE  TabInv(u)'
<1>1. /\ UNCHANGED <<inbox, rowsOfUser, got, page>> /\ home[c] = NoConn
      /\ home' = [home EXCEPT ![c] = s] /\ up' = up \union {c}
      /\ socket' = [socket EXCEPT ![t] = c]
      /\ Handle(r, "get", s, t, NoConn) /\ FetchBegins(t)
  BY DEF Connect
<1>2. t \in Attached' => s = home'[socket'[t]]
  BY <1>1 DEF PushInv, PushTypes, RegistryInv
<1>3. u # t /\ u \in Attached' =>
          /\ u \in Attached /\ socket'[u] = socket[u] /\ home'[socket[u]] = home[socket[u]]
          /\ inbox'[socket[u]] = inbox[socket[u]] /\ page'[u] = page[u]
  <2> HAVE u # t /\ u \in Attached'
  <2>1. socket'[u] = socket[u] /\ socket[u] \in up \union {c}
    BY <1>1 DEF Attached, PushInv, PushTypes
  <2>2. socket[u] # NoConn
    BY <2>1, NoConnAssumption DEF PushInv, PushTypes
  <2>3. u \in Attached
    BY <2>2 DEF PushInv, SocketInv, Attached
  <2>4. home[socket[u]] # NoConn
    BY <2>3, NoConnAssumption DEF Attached, PushInv, PushTypes
  <2>5. home'[socket[u]] = home[socket[u]]
    BY <1>1, <2>4 DEF PushInv, RegistryInv
  <2> QED BY <1>1, <2>1, <2>3, <2>5
<1> QED BY <1>1, <1>2, <1>3, FetchKeeps

-----------------------------------------------------------------------------
LEMMA TabStep ==
    ASSUME PushInv, KindInv', NEW u \in Tab, [Next]_vars
    PROVE  TabInv(u)'
<1>1. CASE UNCHANGED vars
  <2>1. /\ UNCHANGED <<rowsOfUser, home, up, socket, inbox, pc, op, got, page>>
        /\ calm' = calm /\ quiet' = quiet
    BY <1>1 DEF vars, sockets, ghosts
  <2>2. Concerning(u)' = Concerning(u) /\ (u \in Attached' <=> u \in Attached) /\ TabInv(u)
    BY <2>1 DEF Concerning, InFlight, Attached, PushInv
  <2>3. quiet'[u] => quiet[u] /\ calm'[u]
    BY <2>1, <2>2 DEF TabInv
  <2> QED BY <2>1, <2>2, <2>3, Unconcerned
<1>2. ASSUME NEW t \in Tab, Leave(t) PROVE TabInv(u)'
  BY <1>2, LeaveKeeps
<1>3. ASSUME NEW t \in Tab, Receive(t) PROVE TabInv(u)'
  BY <1>3, ReceiveKeeps
<1>4. ASSUME NEW c \in Conn, Disconnect(c) PROVE TabInv(u)'
  BY <1>4, DisconnectForgets
<1>5. ASSUME NEW s \in Server, Restart(s) PROVE TabInv(u)'
  BY <1>5, RestartForgets
<1>6. ASSUME NEW r \in Req, Step(r) PROVE TabInv(u)'
  BY <1>6, CreateKeeps, PushKeeps, QueryKeeps, InitialKeeps, UpdateKeeps, CountKeeps, BadgeKeeps
     DEF Step
<1>7. ASSUME NEW r \in Req, NEW s \in Server, SendNotification(r, s) PROVE TabInv(u)'
  BY <1>7, SendKeeps
<1>8. ASSUME NEW r \in Req, NEW t \in Tab, NEW c \in Conn, NEW s \in Server, Connect(t, c, s, r)
      PROVE  TabInv(u)'
  BY <1>8, ConnectFetches
<1>9. ASSUME NEW r \in Req, NEW t \in Tab, GetNotifications(t, r) PROVE TabInv(u)'
  <2>1. /\ UNCHANGED <<sockets, inbox, rowsOfUser, got, page>>
        /\ Handle(r, "get", home[socket[t]], t, NoConn) /\ FetchBegins(t)
    BY <1>9 DEF GetNotifications
  <2>2. /\ socket' = socket /\ home' = home /\ inbox' = inbox /\ page' = page
        /\ (u \in Attached' <=> u \in Attached)
    BY <2>1 DEF sockets, Attached
  <2> QED BY <2>1, <2>2, FetchKeeps
<1>10. ASSUME NEW r \in Req, NEW t \in Tab, MarkAllRead(t, r) PROVE TabInv(u)'
  <2>1. /\ MarkLocally(t, Created, 0) /\ Tell(t, r, "markAll", NoConn)
        /\ UNCHANGED <<sockets, inbox, rowsOfUser, got>>
    BY <1>10 DEF MarkAllRead
  <2>2. \A x \in Created : x \in Created <=> ("markAll" = "markAll" \/ x = NoConn)
    OBVIOUS
  <2>3. "markAll" \in {"mark", "markAll"} /\ 0 \in Nat
    OBVIOUS
  <2> QED BY <2>1, <2>2, <2>3, MarkKeeps
<1>11. ASSUME NEW r \in Req, NEW t \in Tab, NEW n \in Created, MarkAsRead(t, n, r) PROVE TabInv(u)'
  <2> DEFINE count == IF page[t].count > 0 THEN page[t].count - 1 ELSE 0
  <2>1. /\ MarkLocally(t, {n}, count) /\ Tell(t, r, "mark", n)
        /\ UNCHANGED <<sockets, inbox, rowsOfUser, got>>
    BY <1>11 DEF MarkAsRead
  <2>2. \A x \in Created : x \in {n} <=> ("mark" = "markAll" \/ x = n)
    OBVIOUS
  <2>3. "mark" \in {"mark", "markAll"} /\ count \in Nat
    <3>1. page[t].count \in Nat
      BY DEF PushInv, PushTypes, Seen
    <3> QED BY <3>1
  <2> HIDE DEF count
  <2> QED BY <2>1, <2>2, <2>3, MarkKeeps
<1>12. ASSUME NEW n \in Created, Withdraw(n) PROVE TabInv(u)'
  BY <1>12, WithdrawKeeps
<1> QED
  BY <1>1, <1>2, <1>3, <1>4, <1>5, <1>6, <1>7, <1>8, <1>9, <1>10, <1>11, <1>12 DEF Next

LEMMA PushInit == Init => PushInv
<1> SUFFICES ASSUME Init PROVE PushInv
  OBVIOUS
<1>1. Created = {} /\ InFlight = {} /\ Attached = {}
  BY NoConnAssumption DEF Init, Created, InFlight, Running, Attached
<1>2. PushTypes
  <2>1. <<>> \in Seq(Message) /\ <<>> \in Seq(Req) /\ <<>> \in Seq(EntryRow)
    OBVIOUS
  <2>2. page \in [Tab -> Seen]
    BY <2>1 DEF Init, Seen
  <2> QED BY <1>1, <2>1, <2>2, NothingReadType DEF Init, PushTypes
<1>3. RegistryInv
  BY DEF Init, RegistryInv, RegistryIsLive
<1>4. SocketInv /\ LogInv /\ KindInv
  BY <1>1 DEF Init, SocketInv, LogInv, KindInv
<1>5. ASSUME NEW u \in Tab PROVE TabInv(u)
  <2>1. Concerning(u) = {} /\ u \notin Attached
    BY <1>1 DEF Concerning
  <2>2. calm[u]
    BY DEF Init
  <2> QED BY <2>1, <2>2 DEF TabInv, CalmTab, QuietTab
<1> QED BY <1>2, <1>3, <1>4, <1>5 DEF PushInv

LEMMA PushStep == PushInv /\ [Next]_vars => PushInv'
<1> SUFFICES ASSUME PushInv, [Next]_vars PROVE PushInv'
  OBVIOUS
<1>1. PushTypes'
  BY TypesStep DEF PushInv
<1>2. RegistryInv'
  BY RegistryStep DEF PushInv
<1>3. SocketInv'
  BY SocketsStep DEF PushInv
<1>4. LogInv' /\ KindInv'
  BY LogStep DEF PushInv
<1>5. \A u \in Tab : TabInv(u)'
  BY <1>4, TabStep
<1> QED BY <1>1, <1>2, <1>3, <1>4, <1>5 DEF PushInv

\* What is left when nothing is on its way to a tab.
LEMMA AgreedAtRest == PushInv => PageAgrees
<1> SUFFICES ASSUME PushInv, NEW t \in Tab, AtRest(t)
             PROVE  LET list == page[t].list
                    IN  /\ calm[t] =>
                             /\ \A i, j \in DOMAIN list : list[i].id = list[j].id => i = j
                             /\ \A n \in Recent : \E i \in DOMAIN list : list[i].id = n
                             /\ \A i \in DOMAIN list :
                                   list[i].id \in Stored => (list[i].isRead <=> list[i].id \in read)
                        /\ quiet[t] =>
                             /\ Cardinality(Recent \ read) <= page[t].count
                             /\ page[t].count <= Cardinality(Unread) + Cardinality(withdrawn)
  BY DEF PageAgrees
<1>1. /\ t \in Attached /\ Concerning(t) = {} /\ inbox[socket[t]] = <<>> /\ TabInv(t)
      /\ ~Fetching(t)
  BY DEF AtRest, PushInv, Fetching
<1>2. Announced = Created /\ Ahead = read
  <2>1. \A x \in Created : x \in Req
    BY CreatedInReq DEF PushInv, PushTypes
  <2>2. \A x \in Req : pc[x] \notin {"push", "update"}
    BY <1>1, ConcernsAll DEF PushInv
  <2> QED BY <2>1, <2>2 DEF Announced, Ahead
<1>3. /\ World.announced = Created /\ World.recent = Recent /\ World.stored = Stored
      /\ World.ahead = read
  BY <1>2 DEF World
<1>4. calm[t] => Shows(page[t].list, {}, World)
  BY <1>1, NothingQueued DEF TabInv, CalmTab
<1>5. calm[t] => \A n \in Recent : \E i \in DOMAIN page[t].list : page[t].list[i].id = n
  BY <1>3, <1>4 DEF Shows, ListedIn, Recent, Stored
<1>6. quiet[t] => page[t].count \in Least..Most
  BY <1>1 DEF TabInv, QuietTab, CountSettles
<1>7. quiet[t] => /\ Cardinality(Recent \ read) <= page[t].count
                  /\ page[t].count <= Cardinality(Unread) + Cardinality(withdrawn)
  <2>1. Least \in Nat /\ Most \in Nat
    BY FiniteParts DEF PushInv, PushTypes, LogInv
  <2> QED BY <2>1, <1>6 DEF Least, Most
<1> QED BY <1>3, <1>4, <1>5, <1>7 DEF Shows

\* A process that holds one socket of the user has it entered, so that it emits there.
LEMMA PushEmits ==
    ASSUME PushInv, NEW r \in Req, Push(r), NEW t \in Attached,
           home[socket[t]] = op[r].at, ~overlapped[op[r].at]
    PROVE  inbox'[socket[t]] # inbox[socket[t]]
<1> DEFINE m == [type |-> "new", note |-> r]
<1>1. t \in Tab /\ socket[t] \in up /\ socket[t] \in Conn /\ socket[t] # NoConn
  BY AttachedSocket DEF PushInv
<1>2. registry[op[r].at] = socket[t]
  BY <1>1 DEF PushInv, SocketInv
<1>3. Emit(op[r].at, m)
  BY <1>1, <1>2 DEF Push
<1>4. inbox[socket[t]] \in Seq(Message) /\ inbox'[socket[t]] = Append(inbox[socket[t]], m)
  BY <1>2, <1>3, Emitted DEF PushInv
<1>5. \A q \in Seq(Message) : \A x : Append(q, x) # q
  <2> TAKE q \in Seq(Message)
  <2> TAKE x
  <2>1. Len(Append(q, x)) = Len(q) + 1 /\ Len(q) \in Nat
    OBVIOUS
  <2> QED BY <2>1
<1> QED BY <1>4, <1>5

\* "Real-time emit if user connected", as far as it goes: the turn that follows the
\* creation of a notification emits it to every attached tab of the process it runs in,
\* as long as no socket of the user has connected to that process beside another one.
THEOREM TheConnectedAreTold == Spec => EmitsWhereConnected
<1>1. PushInv =>
        [\A r \in Req : Push(r) =>
           \A t \in Attached :
               home[socket[t]] = op[r].at /\ ~overlapped[op[r].at] =>
                   inbox'[socket[t]] # inbox[socket[t]]]_vars
  BY PushEmits
<1> QED BY <1>1, PushInit, PushStep, PTL DEF Spec, EmitsWhereConnected

\* However many tabs and processes there are, a tab at rest shows what the database
\* holds since its last fetch that met nothing else: useNotifications' patches of its
\* list add up to what the service answers, also while notifications overlap, and its
\* badge counts what is unread while nothing does.
THEOREM ThePageAgrees == Spec => []PageAgrees
BY PushInit, PushStep, AgreedAtRest, PTL DEF Spec
=============================================================================
