----------------------------- MODULE PageProofs -----------------------------
(***************************************************************************)
(* Proofs about what the page knows.                                         *)
(*                                                                         *)
(* The first part is about Page, for any users, URLs, tags and saves on their *)
(* way, and however much the user, other tabs and other devices do.  The      *)
(* second is about PageCache, for any posts, any limit of a page and any      *)
(* mutations.                                                                *)
(***************************************************************************)
EXTENDS Page, PageCache, SequenceTheorems, FiniteSetTheorems, WellFoundedInduction, TLAPS

Someone == User \union {Nobody}
Anyone == Someone \union {Unknown}

\* The types of what the proofs look at.
AccountTypes ==
    /\ cookie \in Someone
    /\ stored \in [User -> Profile]
    /\ me \in [user : Anyone, copy : Profile]
    /\ fetch \in [stage : {"asked", "read"}, as : Someone, copy : Profile] \union {NoFetch}
    /\ call \in [kind : {"login"}, user : User]
                  \union [kind : {"none", "signup", "forgot", "reset", "logout"}, user : {Nobody}]
    /\ sock \in [as : Someone, up : BOOLEAN, rooms : SUBSET Anyone]
    /\ hearing \in BOOLEAN /\ missed \in BOOLEAN /\ switched \in BOOLEAN
    /\ inputs \in Nat

EditorTypes ==
    /\ form \in Profile
    /\ touched \subseteq Field
    /\ saves \in [Save -> [stage : {"none", "sent", "stored"}, as : Someone, data : Profile]]

Types == AccountTypes /\ EditorTypes

LEMMA BlankIsAProfile == Blank \in Profile /\ NoFetch.stage = "none" /\ NoSave.stage = "none"
BY DEF Blank, Profile, Value, Empty, NoFetch, NoSave

LEMMA InitTypes == Init => Types
<1> SUFFICES ASSUME Init PROVE Types
  OBVIOUS
<1>1. [f \in Field |-> 1] \in Profile /\ Blank \in Profile
  BY BlankIsAProfile DEF Profile, Value
<1>2. AccountTypes
  BY <1>1 DEF Init, AccountInit, AccountTypes, Someone, Ask, NoCall, NoSock, Anyone
<1>3. EditorTypes
  BY <1>1 DEF Init, EditorInit, EditorTypes, NoSave, Someone
<1>4. QED
  BY <1>2, <1>3 DEF Types

-----------------------------------------------------------------------------
(***************************************************************************)
(* What steps of each kind leave alone.                                      *)
(***************************************************************************)

LEMMA ComposerLeavesAccount ==
    ASSUME Types, ComposerNext
    PROVE  /\ UNCHANGED <<cookie, stored, at, query, call, socket, hearing, missed>>
           /\ inputs' \in Nat
<1>1. Edit \/ UNCHANGED accountVars
  BY DEF ComposerNext, Open_Dialog, Write, Cancel, KeepEditing, Discard, Post, Create, PostDone,
     PostFails, OpenHashtags, CloseHashtags, PickImage, RemoveImage, AddHashtag, RemoveHashtag
<1>2. QED
  BY <1>1 DEF Types, AccountTypes, Edit, Input, accountVars, query, socket

LEMMA EditorLeavesAccount ==
    ASSUME Types, EditorNext
    PROVE  /\ UNCHANGED <<cookie, at, me, call, sock, joined, switched, hearing>>
           /\ inputs' \in Nat
BY DEF Types, AccountTypes, EditorNext, OpenEditor, CloseEditor, ScreenBack, RemoveLink, Go, EditBio,
       EditLink, Type, Done, Store, SaveDone, SaveFails, Input, accountVars, query, socket

\* Asking for ["me"] again, whoever the cookies name.
LEMMA AgainTyped ==
    ASSUME AccountTypes, NEW who \in Someone
    PROVE  Again(who) \in [stage : {"asked", "read"}, as : Someone, copy : Profile] \union {NoFetch}
BY BlankIsAProfile DEF AccountTypes, Again, Ask

\* The sockets, whatever user the page turns to.
LEMMA SocketsTyped ==
    ASSUME AccountTypes, NEW u \in Someone, Sockets(u)
    PROVE  /\ sock' \in [as : Someone, up : BOOLEAN, rooms : SUBSET Anyone]
           /\ switched' \in BOOLEAN
<1> USE DEF AccountTypes, Someone, Anyone
<1>1. CASE UNCHANGED socket
  BY <1>1 DEF socket
<1>2. CASE Close
  BY <1>2 DEF Close, NoSock
<1>3. CASE Open(u)
  BY <1>3 DEF Open
<1>4. CASE Keep(u)
  BY <1>4 DEF Keep, Rooms
<1>5. QED
  BY <1>1, <1>2, <1>3, <1>4 DEF Sockets


LEMMA AccountTypesByAccount ==
    ASSUME AccountTypes, AccountNext
    PROVE  AccountTypes'
<1> USE DEF AccountTypes
<1>0. inputs' \in Nat
  <2>1. Input \/ UNCHANGED inputs
    BY DEF AccountNext, Connect, Drop, HearOut, Read, Arrive, FetchFails, Visit, LoginDone,
       SubmitDone, SignOutDone, CallFails, OtherTab, SignOut, Reload, Hear, Login, OtherDevice,
       LoginWithGoogle, Register, Forgot, ResetPassword, Submit
  <2>2. QED
    BY <2>1 DEF Input
<1>1. CASE Connect
  <2>1. \E r \in SUBSET Anyone : sock' = [sock EXCEPT !.up = TRUE, !.rooms = r]
    BY <1>1 DEF Connect, Rooms, Anyone
  <2>2. QED
    BY <1>0, <1>1, <2>1 DEF Connect, query
<1>2. CASE Drop
  BY <1>0, <1>2 DEF Drop, query
<1>3. CASE HearOut
  BY <1>0, <1>3, AgainTyped DEF HearOut, socket
<1>4. CASE Read
  <2>1. /\ fetch.as \in Someone
        /\ fetch.as # Nobody => stored[fetch.as] \in Profile
        /\ fetch \in [stage : {"asked", "read"}, as : Someone, copy : Profile]
    BY <1>4, BlankIsAProfile DEF Read, Someone
  <2>2. fetch' \in [stage : {"asked", "read"}, as : Someone, copy : Profile]
    BY <1>4, <2>1, BlankIsAProfile DEF Read
  <2>3. QED
    BY <1>0, <1>4, <2>2 DEF Read, socket
<1>5. CASE Arrive
  <2>1. fetch.as \in Someone /\ fetch.copy \in Profile
    BY <1>5, BlankIsAProfile DEF Arrive
  <2>2. QED
    BY <1>0, <1>5, <2>1, SocketsTyped DEF Arrive, Anyone
<1>6. CASE FetchFails \/ Visit
  <2>1. fetch' \in {fetch, NoFetch, Ask(cookie)}
    BY <1>6 DEF FetchFails, Visit
  <2>2. Ask(cookie) \in [stage : {"asked", "read"}, as : Someone, copy : Profile]
    BY BlankIsAProfile DEF Ask
  <2>3. missed' \in BOOLEAN /\ UNCHANGED <<cookie, stored, me, call, socket, hearing>>
    BY <1>6 DEF FetchFails, Visit
  <2>4. QED
    BY <1>0, <2>1, <2>2, <2>3 DEF socket
<1>7. CASE LoginDone
  <2>1. call.user \in User /\ call.user \in Someone
    BY <1>7 DEF LoginDone, Someone
  <2>2. QED
    BY <1>0, <1>7, <2>1, AgainTyped DEF LoginDone, socket, NoCall
<1>8. CASE SubmitDone \/ CallFails
  BY <1>0, <1>8, AgainTyped DEF SubmitDone, CallFails, socket, query, NoCall
<1>9. CASE SignOutDone
  <2>1. Nobody \in Someone /\ Nobody \in Anyone
    BY DEF Someone, Anyone
  <2>2. Sockets(Nobody)
    BY <1>9 DEF SignOutDone
  <2>3. QED
    BY <1>0, <1>9, <2>1, <2>2, BlankIsAProfile, SocketsTyped DEF SignOutDone, NoCall
<1>10. CASE OtherTab \/ SignOut \/ (\E u \in User : Login(u)) \/ Register \/ Forgot \/ ResetPassword
  <2>1. CASE OtherTab
    BY <1>0, <2>1 DEF OtherTab, query, socket, Someone
  <2>2. CASE ~OtherTab
    <3>1. UNCHANGED <<cookie, stored, me, fetch, sock, switched, hearing, missed>>
      BY <1>10, <2>2 DEF SignOut, Login, Register, Forgot, ResetPassword, Submit, query, socket
    <3>2. \/ \E u \in User : call' = [kind |-> "login", user |-> u]
          \/ \E k \in {"signup", "forgot", "reset", "logout"} : call' = [kind |-> k, user |-> Nobody]
      BY <1>10, <2>2 DEF SignOut, Login, Register, Forgot, ResetPassword, Submit
    <3>3. QED
      BY <1>0, <3>1, <3>2
  <2>3. QED
    BY <2>1, <2>2
<1>11. CASE \E u \in User : Hear(u)
  BY <1>0, <1>11 DEF Hear, query
<1>12. CASE \E u \in User : OtherDevice(u)
  <2>1. PICK u \in User, f \in Field, v \in Value :
          stored' = [stored EXCEPT ![u][f] = v] /\ OtherDevice(u)
    BY <1>12 DEF OtherDevice
  <2>2. stored' \in [User -> Profile]
    BY <2>1 DEF Profile
  <2>3. QED
    BY <1>0, <2>1, <2>2 DEF OtherDevice, query
<1>13. CASE Reload \/ \E u \in User : LoginWithGoogle(u)
  <2>1. PICK who \in Someone : Start(who)
    BY <1>13 DEF Reload, LoginWithGoogle, Someone
  <2>2. QED
    BY <1>0, <2>1, BlankIsAProfile DEF Start, Ask, Close, NoSock, NoCall, Someone, Anyone
<1>14. QED
  BY <1>1, <1>2, <1>3, <1>4, <1>5, <1>6, <1>7, <1>8, <1>9, <1>10, <1>11, <1>12, <1>13
     DEF AccountNext

LEMMA AccountTypesByEditor ==
    ASSUME Types, EditorNext
    PROVE  AccountTypes'
<1> USE DEF Types, AccountTypes
<1>1. UNCHANGED <<cookie, me, call, sock, switched, hearing>> /\ inputs' \in Nat
  BY EditorLeavesAccount
<1>2. stored' \in [User -> Profile]
  <2>1. CASE \E i \in Save : Store(i)
    <3>1. PICK i \in Save : Store(i)
      BY <2>1
    <3>2. saves[i].data \in Profile /\ saves[i].as \in User
      BY <3>1 DEF Store, EditorTypes
    <3>3. Written(stored[saves[i].as], saves[i].data) \in Profile
      BY <3>2 DEF Written, Profile, Field
    <3>4. QED
      BY <3>1, <3>2, <3>3 DEF Store
  <2>2. CASE ~\E i \in Save : Store(i)
    <3>1. stored' = stored
      BY <2>2 DEF EditorNext, OpenEditor, CloseEditor, ScreenBack, RemoveLink, Go, EditBio, EditLink,
         Type, Done, SaveDone, SaveFails, accountVars
    <3>2. QED
      BY <3>1
  <2>3. QED
    BY <2>1, <2>2
<1>3. fetch' = fetch \/ fetch' = Again(cookie)
  BY DEF EditorNext, OpenEditor, CloseEditor, ScreenBack, RemoveLink, Go, EditBio, EditLink,
     Type, Done, Store, SaveDone, SaveFails, accountVars, query
<1>4. missed' \in BOOLEAN
  BY DEF EditorNext, OpenEditor, CloseEditor, ScreenBack, RemoveLink, Go, EditBio, EditLink,
     Type, Done, Store, SaveDone, SaveFails, accountVars
<1>5. QED
  BY <1>1, <1>2, <1>3, <1>4, AgainTyped

LEMMA EditorTypesByEditor ==
    ASSUME Types, EditorNext
    PROVE  EditorTypes'
<1> USE DEF Types, EditorTypes
<1>1. CASE OpenEditor
  BY <1>1 DEF OpenEditor, Reset, AccountTypes
<1>2. CASE CloseEditor \/ ScreenBack \/ \E s \in Screen : Go(s)
  BY <1>2 DEF CloseEditor, ScreenBack, Go
<1>3. CASE RemoveLink \/ \E v \in Value : EditBio(v) \/ EditLink(v)
  <2>1. \E f \in Field, v \in Value :
          form' = [form EXCEPT ![f] = v] /\ touched' = touched \union {f} /\ saves' = saves
    BY <1>3 DEF RemoveLink, EditBio, EditLink, Type, Field, Value, Empty
  <2>2. QED
    BY <2>1 DEF Profile
<1>4. CASE \E i \in Save : Done(i) \/ Store(i) \/ SaveDone(i) \/ SaveFails(i)
  <2>1. PICK i \in Save : Done(i) \/ Store(i) \/ SaveDone(i) \/ SaveFails(i)
    BY <1>4
  <2>2. form' = form /\ touched' = touched
    BY <2>1 DEF Done, Store, SaveDone, SaveFails, editor
  <2>3. \/ saves' = [saves EXCEPT ![i] = [stage |-> "sent", as |-> cookie, data |-> form]]
        \/ saves' = [saves EXCEPT ![i].stage = "stored"]
        \/ saves' = [saves EXCEPT ![i] = NoSave]
    BY <2>1 DEF Done, Store, SaveDone, SaveFails
  <2>4. NoSave \in [stage : {"none", "sent", "stored"}, as : Someone, data : Profile]
    BY BlankIsAProfile DEF NoSave, Someone
  <2>5. cookie \in Someone
    BY DEF AccountTypes
  <2>6. QED
    BY <2>2, <2>3, <2>4, <2>5
<1>5. QED
  BY <1>1, <1>2, <1>3, <1>4 DEF EditorNext

LEMMA TypesStep == Types /\ [Next]_vars => Types'
<1> SUFFICES ASSUME Types, [Next]_vars PROVE Types'
  OBVIOUS
<1>1. CASE AccountNext /\ EditorFollows /\ ComposerFollows
  <2>1. AccountTypes'
    BY <1>1, AccountTypesByAccount DEF Types
  <2>2. EditorTypes'
    BY <1>1, <2>1 DEF Types, EditorTypes, AccountTypes, EditorFollows, Reset
  <2>3. QED
    BY <2>1, <2>2 DEF Types
<1>2. CASE EditorNext
  BY <1>2, AccountTypesByEditor, EditorTypesByEditor DEF Types
<1>3. CASE ComposerNext /\ UNCHANGED editorVars
  <2>1. AccountTypes'
    BY <1>3, ComposerLeavesAccount DEF Types, AccountTypes, query, socket
  <2>2. QED
    BY <1>3, <2>1 DEF Types, EditorTypes, editorVars
<1>4. CASE UNCHANGED vars
  BY <1>4 DEF vars, accountVars, editorVars, Types, AccountTypes, EditorTypes
<1>5. QED
  BY <1>1, <1>2, <1>3, <1>4 DEF Next

-----------------------------------------------------------------------------
(***************************************************************************)
(* The sockets.                                                             *)
(***************************************************************************)

\* Without a user there is no socket, and nothing comes over it.
SocketInv ==
    /\ SocketFollowsUser
    /\ ~SignedIn => news = {}

\* The sockets after the effects of SocketProvider for u.
LEMMA SocketsFollow ==
    ASSUME AccountTypes, SocketInv, NEW u \in Someone, Sockets(u), me'.user = u
    PROVE  SocketInv'
<1> USE DEF SocketInv, SocketFollowsUser, SignedIn
<1>1. CASE u = me.user /\ UNCHANGED socket
  BY <1>1 DEF socket
<1>2. CASE u \notin User /\ Close
  BY <1>2 DEF Close
<1>3. CASE u \in User /\ Open(u)
  BY <1>3 DEF Open
<1>4. CASE u \in User /\ Keep(u)
  BY <1>4 DEF Keep
<1>5. QED
  BY <1>1, <1>2, <1>3, <1>4 DEF Sockets

LEMMA SocketInvStep == Types /\ SocketInv /\ [Next]_vars => SocketInv'
<1> SUFFICES ASSUME Types, SocketInv, [Next]_vars PROVE SocketInv'
  OBVIOUS
<1>a. AccountTypes
  BY DEF Types
<1>1. ASSUME UNCHANGED <<me, sock, switched>>, news' = news PROVE SocketInv'
  BY <1>1 DEF SocketInv, SocketFollowsUser, SignedIn
<1>2. CASE AccountNext
  <2>1. CASE Connect
    <3>1. SignedIn
      BY <1>a, <2>1 DEF Connect, SocketInv, SocketFollowsUser
    <3>2. ~switched => sock'.as = me.user /\ sock'.rooms = {me.user}
      BY <1>a, <2>1, <3>1 DEF Connect, SocketInv, SocketFollowsUser, Rooms, AccountTypes
    <3>3. UNCHANGED <<me, switched>>
      BY <2>1 DEF Connect, query
    <3>4. QED
      BY <3>1, <3>2, <3>3 DEF SocketInv, SocketFollowsUser, SignedIn
  <2>2. CASE Drop
    <3>1. sock'.as = sock.as /\ ~sock'.up /\ UNCHANGED <<me, switched>> /\ news' = {} /\ sock.up
      BY <1>a, <2>2 DEF Drop, AccountTypes, query
    <3>2. QED
      BY <3>1 DEF SocketInv, SocketFollowsUser, SignedIn, NoSock
  <2>3. CASE Arrive
    <3>1. fetch.as \in Someone /\ me'.user = fetch.as /\ Sockets(fetch.as)
      BY <1>a, <2>3, BlankIsAProfile DEF Arrive, AccountTypes
    <3>2. QED
      BY <1>a, <3>1, SocketsFollow
  <2>4. CASE SignOutDone
    <3>1. Nobody \in Someone /\ me'.user = Nobody /\ Sockets(Nobody)
      BY <2>4 DEF SignOutDone, Someone
    <3>2. QED
      BY <1>a, <3>1, SocketsFollow
  <2>5. CASE Reload \/ \E u \in User : LoginWithGoogle(u)
    <3>1. me'.user = Unknown /\ Close
      BY <2>5 DEF Reload, LoginWithGoogle, Start
    <3>2. QED
      BY <3>1, PageAccountAssumption DEF SocketInv, SocketFollowsUser, SignedIn, Close
  <2>6. CASE \E u \in User : Hear(u) \/ OtherDevice(u)
    <3>1. /\ UNCHANGED <<me, sock, switched>>
          /\ news' \subseteq news \/ \E u \in User : Heard(u)
      BY <2>6 DEF Hear, OtherDevice, Emit, query
    <3>2. QED
      BY <3>1 DEF SocketInv, SocketFollowsUser, SignedIn, Heard, NoSock
  <2>7. CASE \/ HearOut \/ Read \/ FetchFails \/ Visit \/ LoginDone \/ SubmitDone \/ CallFails
             \/ OtherTab \/ SignOut \/ (\E u \in User : Login(u))
             \/ Register \/ Forgot \/ ResetPassword
    <3>1. UNCHANGED <<me, sock, switched>> /\ news' = news
      BY <2>7 DEF HearOut, Read, FetchFails, Visit, LoginDone, SubmitDone, CallFails, OtherTab, SignOut,
         Login, Register, Forgot, ResetPassword, Submit, query, socket
    <3>2. QED
      BY <1>1, <3>1
  <2>8. QED
    BY <1>2, <2>1, <2>2, <2>3, <2>4, <2>5, <2>6, <2>7 DEF AccountNext
<1>3. CASE EditorNext
  <2>1. UNCHANGED <<me, sock, switched>>
    BY <1>3, EditorLeavesAccount
  <2>2. news' = news \/ \E u \in User : Heard(u)
    BY <1>3 DEF EditorNext, OpenEditor, CloseEditor, ScreenBack, RemoveLink, Go, EditBio, EditLink,
       Type, Done, Store, Emit, SaveDone, SaveFails, accountVars, socket
  <2>3. QED
    BY <2>1, <2>2 DEF SocketInv, SocketFollowsUser, SignedIn, Heard, NoSock
<1>4. CASE ComposerNext \/ UNCHANGED vars
  BY <1>1, <1>4, ComposerLeavesAccount DEF vars, accountVars, query, socket
<1>5. QED
  BY <1>2, <1>3, <1>4 DEF Next

-----------------------------------------------------------------------------
(***************************************************************************)
(* The editor.                                                              *)
(***************************************************************************)

\* An open editor is that of a page with a user, and differs from what the page has of
\* the profile in what the user has touched only.
EditorInv ==
    open => ProfileShown /\ \A f \in Field \ touched : form[f] = me.copy[f]

LEMMA EditorInvStep == Types /\ EditorInv /\ [Next]_vars => EditorInv'
<1> SUFFICES ASSUME Types, EditorInv, [Next]_vars, open'
             PROVE  ProfileShown' /\ \A f \in Field \ touched' : form'[f] = me'.copy[f]
  BY DEF EditorInv
<1> USE DEF EditorInv
<1>1. CASE AccountNext /\ EditorFollows
  BY <1>1 DEF EditorFollows, Reset
<1>2. CASE EditorNext
  <2>1. UNCHANGED <<me, at>> /\ (ProfileShown => ProfileShown')
    BY <1>2, EditorLeavesAccount DEF ProfileShown, SignedIn
  <2>2. CASE OpenEditor
    <3>1. SignedIn /\ at = me.user /\ form' = me.copy
      BY <2>2 DEF OpenEditor, Reset
    <3>2. QED
      BY <2>1, <3>1 DEF ProfileShown, SignedIn
  <2>3. CASE RemoveLink \/ \E v \in Value : EditBio(v) \/ EditLink(v)
    <3>1. open /\ \E f \in Field, v \in Value :
            form' = [form EXCEPT ![f] = v] /\ touched' = touched \union {f}
      BY <2>3 DEF RemoveLink, EditBio, EditLink, Type, Field, Value, Empty
    <3>2. QED
      BY <2>1, <3>1 DEF Types, EditorTypes, Profile
  <2>4. CASE CloseEditor \/ ScreenBack \/ (\E s \in Screen : Go(s))
               \/ \E i \in Save : Done(i) \/ Store(i) \/ SaveDone(i) \/ SaveFails(i)
    <3>1. ~open' \/ UNCHANGED <<open, form, touched>>
      BY <2>4 DEF CloseEditor, ScreenBack, Go, Done, Store, SaveDone, SaveFails, editor
    <3>2. QED
      BY <2>1, <3>1
  <2>5. QED
    BY <1>2, <2>2, <2>3, <2>4 DEF EditorNext
<1>3. CASE ComposerNext /\ UNCHANGED editorVars
  BY <1>3, ComposerLeavesAccount DEF editorVars, query, ProfileShown, SignedIn
<1>4. CASE UNCHANGED vars
  BY <1>4 DEF vars, accountVars, editorVars, ProfileShown, SignedIn
<1>5. QED
  BY <1>1, <1>2, <1>3, <1>4 DEF Next

-----------------------------------------------------------------------------
(***************************************************************************)
(* The page is current.                                                     *)
(***************************************************************************)

\* A page that has just started has no saves and no handlers on their way, and does not
\* fetch while one of its forms is.
StartInv ==
    me.user = Unknown =>
        NothingToSave /\ ~hearing /\ (call.kind # "none" => fetch = NoFetch)

IsCurrent(user, copy) == user = cookie /\ (cookie \in User => copy = stored[cookie])

\* What the page has, or is about to have, is as the cookies and the database say.
Fresh ==
    /\ fetch.stage = "read" => IsCurrent(fetch.as, fetch.copy)
    /\ fetch.stage = "none" => IsCurrent(me.user, me.copy)

\* Something on its way will have ["me"] fetched.
Pending == hearing \/ cookie \in news \/ \E i \in Save : saves[i].stage = "stored"

CurrentInv ==
    ~missed => /\ fetch.stage # "none" => fetch.as = cookie
               /\ Fresh \/ Pending

LEMMA StartInvStep == Types /\ SocketInv /\ EditorInv /\ StartInv /\ [Next]_vars => StartInv'
<1> SUFFICES ASSUME Types, SocketInv, EditorInv, StartInv, [Next]_vars, me'.user = Unknown
             PROVE  NothingToSave' /\ ~hearing' /\ (call'.kind # "none" => fetch' = NoFetch)
  BY DEF StartInv
<1> USE DEF StartInv
<1>0. Unknown \notin User /\ Unknown # Nobody
  BY PageAccountAssumption
<1>1. CASE AccountNext /\ EditorFollows
  <2>0. saves' = saves
    BY <1>1 DEF EditorFollows
  <2>1. CASE (Reload \/ \E u \in User : LoginWithGoogle(u)) /\ NothingToSave
    <3>1. ~hearing' /\ call' = NoCall
      BY <2>1 DEF Reload, LoginWithGoogle, Start
    <3>2. QED
      BY <2>0, <2>1, <3>1 DEF NothingToSave, NoCall
  <2>2. CASE Arrive \/ SignOutDone
    <3>1. me'.user \in Someone
      BY <2>2, BlankIsAProfile DEF Arrive, SignOutDone, Types, AccountTypes, Someone
    <3>2. QED
      BY <1>0, <3>1 DEF Someone
  <2>3. CASE \/ Connect \/ Drop \/ HearOut \/ Read \/ FetchFails \/ Visit \/ LoginDone \/ SubmitDone
             \/ CallFails \/ OtherTab \/ SignOut
             \/ (\E u \in User : Hear(u) \/ Login(u) \/ OtherDevice(u))
             \/ Register \/ Forgot \/ ResetPassword
    <3>1. me' = me
      BY <2>3 DEF Connect, Drop, HearOut, Read, FetchFails, Visit, LoginDone, SubmitDone, CallFails,
         OtherTab, SignOut, Hear, Login, OtherDevice, Register, Forgot, ResetPassword, Submit, query
    <3>2. NothingToSave' /\ ~hearing /\ (call.kind # "none" => fetch = NoFetch) /\ ~SignedIn
      BY <1>0, <2>0, <3>1 DEF NothingToSave, SignedIn
    <3>3. news = {}
      BY <3>2 DEF SocketInv
    <3>4. CASE Connect \/ Drop \/ FetchFails \/ OtherTab \/ \E u \in User : OtherDevice(u)
      <4>1. UNCHANGED <<hearing, call>> /\ (fetch' = fetch \/ fetch' = NoFetch)
        BY <3>4 DEF Connect, Drop, FetchFails, OtherTab, OtherDevice, query
      <4>2. QED
        BY <3>2, <4>1
    <3>5. CASE HearOut \/ Visit \/ SignOut \/ \E u \in User : Hear(u)
      BY <3>2, <3>3, <3>5 DEF HearOut, Visit, SignOut, Hear
    <3>6. CASE LoginDone \/ SubmitDone \/ CallFails
      BY <3>2, <3>6 DEF LoginDone, SubmitDone, CallFails, NoCall
    <3>7. CASE Read
      <4>1. call.kind = "none" /\ call' = call /\ hearing' = hearing
        BY <3>2, <3>7 DEF Read, NoFetch
      <4>2. QED
        BY <3>2, <4>1
    <3>8. CASE (\E u \in User : Login(u)) \/ Register \/ Forgot \/ ResetPassword
      BY <3>1, <3>2, <3>8 DEF Login, Register, Forgot, ResetPassword, Submit, FormShown, query
    <3>9. QED
      BY <2>3, <3>4, <3>5, <3>6, <3>7, <3>8
  <2>4. QED
    BY <1>1, <2>1, <2>2, <2>3 DEF AccountNext
<1>2. CASE EditorNext
  <2>1. UNCHANGED <<me, call, hearing>>
    BY <1>2, EditorLeavesAccount
  <2>2. ~SignedIn /\ ~open /\ NothingToSave /\ ~hearing
    BY <1>0, <2>1 DEF SignedIn, EditorInv, ProfileShown
  <2>3. saves' = saves /\ fetch' = fetch
    BY <1>2, <2>2, BlankIsAProfile DEF EditorNext, OpenEditor, CloseEditor, ScreenBack, RemoveLink, Go,
       EditBio, EditLink, Type, Done, Store, SaveDone, SaveFails, NothingToSave, accountVars, query
  <2>4. QED
    BY <2>1, <2>2, <2>3 DEF NothingToSave
<1>3. CASE ComposerNext /\ UNCHANGED editorVars
  BY <1>3, ComposerLeavesAccount DEF editorVars, query, NothingToSave
<1>4. CASE UNCHANGED vars
  BY <1>4 DEF vars, accountVars, editorVars, NothingToSave
<1>5. QED
  BY <1>1, <1>2, <1>3, <1>4 DEF Next

LEMMA CurrentInvStep ==
    Types /\ SocketInv /\ StartInv /\ CurrentInv /\ [Next]_vars => CurrentInv'
<1> SUFFICES ASSUME Types, SocketInv, StartInv, CurrentInv, [Next]_vars, ~missed'
             PROVE  (fetch'.stage # "none" => fetch'.as = cookie') /\ (Fresh' \/ Pending')
  BY DEF CurrentInv
<1> USE BlankIsAProfile DEF CurrentInv, Fresh, IsCurrent
<1>0. Nobody \notin User /\ (fetch = NoFetch <=> fetch.stage = "none")
  BY PageAccountAssumption DEF Types, AccountTypes
<1>a. ASSUME fetch' = Ask(cookie')
      PROVE  (fetch'.stage # "none" => fetch'.as = cookie') /\ (Fresh' \/ Pending')
  BY <1>a DEF Ask
<1>1. CASE AccountNext /\ EditorFollows
  <2>0. saves' = saves
    BY <1>1 DEF EditorFollows
  <2>1. CASE Connect \/ OtherTab \/ CallFails \/ SignOut \/ (\E u \in User : Login(u))
               \/ Register \/ Forgot \/ ResetPassword
    <3>1. missed' \/ /\ UNCHANGED <<cookie, stored, me, fetch, hearing, news, missed>>
      BY <2>1 DEF Connect, OtherTab, CallFails, SignOut, Login, Register, Forgot, ResetPassword, Submit,
         query, socket
    <3>2. QED
      BY <2>0, <3>1 DEF Pending
  <2>2. CASE Drop
    <3>1. news = {} /\ ~missed /\ news' = {} /\ UNCHANGED <<cookie, stored, me, fetch, hearing>>
      BY <2>2 DEF Drop, query
    <3>2. QED
      BY <2>0, <3>1 DEF Pending
  <2>3. CASE HearOut
    <3>1. fetch' = Ask(cookie') /\ ~missed
      BY <2>3 DEF HearOut, Again, StartInv
    <3>2. QED
      BY <1>a, <3>1
  <2>4. CASE Read
    <3>1. fetch.stage = "asked" /\ (missed => fetch.as = cookie)
      BY <2>4 DEF Read
    <3>2. fetch.as = cookie /\ UNCHANGED <<cookie, stored>>
      BY <2>4, <3>1 DEF Read
    <3>3. fetch'.stage = "read" /\ fetch'.as = cookie /\ (cookie \in User => fetch'.copy = stored[cookie])
      BY <1>0, <2>4, <3>1, <3>2 DEF Read, Types, AccountTypes
    <3>4. QED
      BY <3>2, <3>3
  <2>5. CASE Arrive
    <3>1. /\ ~missed /\ UNCHANGED <<cookie, stored, hearing>>
          /\ fetch.stage = "read" /\ fetch.as = cookie
          /\ fetch'.stage = "none" /\ me'.user = fetch.as /\ me'.copy = fetch.copy
      BY <2>5 DEF Arrive
    <3>2. cookie \in User => news' = news
      BY <1>0, <2>5, <3>1 DEF Arrive, Sockets, Open, Keep, socket
    <3>3. CASE cookie \in User
      BY <2>0, <3>1, <3>2, <3>3 DEF Pending
    <3>4. CASE cookie \notin User
      BY <3>1, <3>4
    <3>5. QED
      BY <3>3, <3>4
  <2>6. CASE FetchFails
    BY <2>6 DEF FetchFails
  <2>7. CASE Visit
    <3>1. UNCHANGED <<cookie, stored, me, hearing, news, missed>> /\ (fetch' = fetch \/ fetch' = Ask(cookie))
      BY <2>7 DEF Visit, socket
    <3>2. QED
      BY <1>a, <2>0, <3>1 DEF Pending
  <2>8. CASE LoginDone
    <3>1. call.kind # "none" /\ cookie' = call.user /\ fetch' = Again(cookie')
      BY <2>8 DEF LoginDone
    <3>2. fetch' = Ask(cookie')
      BY <3>1 DEF Again, StartInv
    <3>3. QED
      BY <1>a, <3>2
  <2>9. CASE SubmitDone
    <3>1. call.kind # "none" /\ cookie' = cookie /\ fetch' = Again(cookie')
      BY <2>9 DEF SubmitDone
    <3>2. fetch' = Ask(cookie')
      BY <3>1 DEF Again, StartInv
    <3>3. QED
      BY <1>a, <3>2
  <2>10. CASE SignOutDone
    <3>1. cookie' = Nobody /\ me'.user = Nobody /\ fetch' = fetch /\ fetch.as = Nobody
      BY <2>10 DEF SignOutDone
    <3>2. QED
      BY <1>0, <3>1
  <2>11. CASE Reload \/ \E u \in User : LoginWithGoogle(u)
    <3>1. fetch' = Ask(cookie')
      BY <2>11 DEF Reload, LoginWithGoogle, Start
    <3>2. QED
      BY <1>a, <3>1
  <2>12. CASE \E u \in User : Hear(u)
    <3>1. PICK u \in User : Hear(u)
      BY <2>12
    <3>2. ~missed /\ UNCHANGED <<cookie, stored, me, fetch>>
      BY <3>1 DEF Hear, query
    <3>3. Pending => Pending'
      BY <2>0, <3>1, <3>2 DEF Hear, Pending
    <3>4. QED
      BY <3>2, <3>3
  <2>13. CASE \E u \in User : OtherDevice(u)
    <3>1. PICK u \in User : OtherDevice(u)
      BY <2>13
    <3>2. ~missed /\ UNCHANGED <<cookie, me, fetch, hearing>>
      BY <3>1 DEF OtherDevice, query
    <3>3. news \subseteq news' /\ (u = cookie => cookie \in news')
      BY <3>1 DEF OtherDevice, Emit
    <3>4. cookie \in User /\ u # cookie => stored'[cookie] = stored[cookie]
      BY <3>1 DEF OtherDevice, Types, AccountTypes
    <3>5. CASE u = cookie
      BY <3>2, <3>3, <3>5 DEF Pending
    <3>6. CASE u # cookie
      BY <2>0, <3>2, <3>3, <3>4, <3>6 DEF Pending
    <3>7. QED
      BY <3>5, <3>6
  <2>14. QED
    BY <1>1, <2>1, <2>2, <2>3, <2>4, <2>5, <2>6, <2>7, <2>8, <2>9, <2>10, <2>11, <2>12, <2>13
       DEF AccountNext
<1>2. CASE EditorNext
  <2>0. UNCHANGED <<cookie, me, hearing>>
    BY <1>2, EditorLeavesAccount
  <2>1. CASE OpenEditor \/ CloseEditor \/ ScreenBack \/ RemoveLink \/ (\E s \in Screen : Go(s))
               \/ \E v \in Value : EditBio(v) \/ EditLink(v)
    <3>1. UNCHANGED <<cookie, stored, me, fetch, hearing, news, missed, saves>>
      BY <2>1 DEF OpenEditor, CloseEditor, ScreenBack, RemoveLink, Go, EditBio, EditLink, Type,
         accountVars, query, socket
    <3>2. QED
      BY <3>1 DEF Pending
  <2>2. CASE \E i \in Save : Done(i)
    <3>1. PICK i \in Save : Done(i)
      BY <2>2
    <3>2. UNCHANGED <<cookie, stored, me, fetch, hearing, news, missed>>
      BY <3>1 DEF Done, query, socket
    <3>3. Pending => Pending'
      BY <3>1, <3>2 DEF Done, Pending, Types, EditorTypes
    <3>4. QED
      BY <3>2, <3>3
  <2>3. CASE \E i \in Save : Store(i)
    <3>1. PICK i \in Save : Store(i)
      BY <2>3
    <3>2. UNCHANGED <<cookie, fetch, missed>> /\ saves'[i].stage = "stored"
      BY <3>1 DEF Store, query, Types, EditorTypes
    <3>3. QED
      BY <3>2 DEF Pending
  <2>4. CASE \E i \in Save : SaveDone(i)
    <3>1. PICK i \in Save : SaveDone(i)
      BY <2>4
    <3>2. ~NothingToSave /\ fetch' = Again(cookie)
      BY <3>1 DEF SaveDone, NothingToSave
    <3>3. fetch' = Ask(cookie')
      BY <2>0, <3>2 DEF Again, StartInv
    <3>4. QED
      BY <1>a, <3>3
  <2>5. CASE \E i \in Save : SaveFails(i)
    <3>1. PICK i \in Save : SaveFails(i)
      BY <2>5
    <3>2. /\ ~missed /\ saves[i].stage # "stored" /\ saves' = [saves EXCEPT ![i] = NoSave]
          /\ UNCHANGED <<cookie, stored, me, fetch, hearing, news>>
      BY <3>1 DEF SaveFails, query, socket
    <3>3. Pending => Pending'
      BY <3>2 DEF Pending, Types, EditorTypes
    <3>4. QED
      BY <3>2, <3>3
  <2>6. QED
    BY <1>2, <2>1, <2>2, <2>3, <2>4, <2>5 DEF EditorNext
<1>3. CASE ComposerNext /\ UNCHANGED editorVars
  BY <1>3, ComposerLeavesAccount DEF editorVars, query, socket, Pending
<1>4. CASE UNCHANGED vars
  BY <1>4 DEF vars, accountVars, editorVars, Pending
<1>5. QED
  BY <1>1, <1>2, <1>3, <1>4 DEF Next

-----------------------------------------------------------------------------
(***************************************************************************)
(* The draft of a thread.                                                    *)
(***************************************************************************)

\* The three lists of images agree: the URLs shown, those to be revoked when the dialog
\* closes, and those that have not been revoked.
DraftInv ==
    /\ draft \in [text : BOOLEAN, images : Seq(Url), tags : SUBSET Tag]
    /\ \A i, j \in DOMAIN draft.images : draft.images[i] = draft.images[j] => i = j
    /\ prevUrls = draft.images
    /\ live = Range(draft.images)

\* Taking out the image at i takes its URL out of the URLs shown, and no other.
LEMMA RemoveAtRange ==
    ASSUME NEW S, NEW s \in Seq(S), NEW i \in DOMAIN s,
           \A j, k \in DOMAIN s : s[j] = s[k] => j = k
    PROVE  /\ RemoveAt(s, i) \in Seq(S)
           /\ Range(RemoveAt(s, i)) = Range(s) \ {s[i]}
           /\ \A j, k \in DOMAIN RemoveAt(s, i) :
                RemoveAt(s, i)[j] = RemoveAt(s, i)[k] => j = k
<1> DEFINE t == RemoveAt(s, i)
           At(j) == IF j < i THEN j ELSE j + 1
<1>1. Len(s) \in Nat /\ i \in 1..Len(s) /\ DOMAIN s = 1..Len(s)
  OBVIOUS
<1>2. /\ t \in Seq(S)
      /\ Len(t) = Len(s) - 1
      /\ \A j \in 1..Len(t) : t[j] = s[At(j)]
  <2> DEFINE a == SubSeq(s, 1, i - 1)
             b == SubSeq(s, i + 1, Len(s))
  <2>1. /\ a \in Seq(S) /\ Len(a) = i - 1
        /\ \A j \in 1..(i - 1) : a[j] = s[j]
    BY <1>1
  <2>2. /\ b \in Seq(S) /\ Len(b) = Len(s) - i
        /\ \A j \in 1..(Len(s) - i) : b[j] = s[j + i]
    BY <1>1
  <2>3. t = a \o b
    BY DEF RemoveAt
  <2>4. /\ t \in Seq(S) /\ Len(t) = Len(s) - 1
        /\ \A j \in 1..(Len(s) - 1) : t[j] = IF j <= Len(a) THEN a[j] ELSE b[j - Len(a)]
    <3>1. /\ a \o b \in Seq(S) /\ Len(a \o b) = Len(a) + Len(b)
          /\ \A j \in 1..(Len(a) + Len(b)) : (a \o b)[j] = IF j <= Len(a) THEN a[j] ELSE b[j - Len(a)]
      <4>1. a \in Seq(S) /\ b \in Seq(S)
        BY <2>1, <2>2
      <4> HIDE DEF a, b, t, At
      <4>2. QED
        BY ONLY <4>1, ConcatProperties, Zenon
    <3>2. Len(a) + Len(b) = Len(s) - 1
      BY <1>1, <2>1, <2>2
    <3>3. QED
      BY <2>3, <3>1, <3>2
  <2>5. ASSUME NEW j \in 1..Len(t)
        PROVE  t[j] = s[At(j)]
    <3>1. CASE j < i
      BY <1>1, <2>1, <2>4, <3>1
    <3>2. CASE j >= i
      <4>1. j - (i - 1) \in 1..(Len(s) - i) /\ (j - (i - 1)) + i = j + 1 /\ ~(j < i)
        BY <1>1, <2>4, <3>2
      <4>2. t[j] = b[j - (i - 1)]
        <5>1. ~(j <= Len(a)) /\ j \in 1..(Len(s) - 1) /\ Len(a) = i - 1
          BY <1>1, <2>1, <2>4, <3>2
        <5>2. QED
          BY <2>4, <5>1
      <4>3. QED
        BY <2>2, <4>1, <4>2
    <3>3. QED
      BY <1>1, <2>4, <3>1, <3>2
  <2>6. QED
    BY <2>4, <2>5
<1>3. DOMAIN t = 1..(Len(s) - 1)
  BY <1>2
<1>4. \A j \in DOMAIN t : At(j) \in DOMAIN s /\ At(j) # i /\ t[j] = s[At(j)]
  BY <1>1, <1>2, <1>3
<1>5. \A k \in DOMAIN s \ {i} : \E j \in DOMAIN t : At(j) = k
  <2>1. SUFFICES ASSUME NEW k \in DOMAIN s, k # i
                 PROVE  \E j \in DOMAIN t : At(j) = k
    OBVIOUS
  <2>2. CASE k < i
    BY <1>1, <1>3, <2>1, <2>2
  <2>3. CASE k > i
    <3>1. k - 1 \in DOMAIN t /\ At(k - 1) = k
      BY <1>1, <1>3, <2>3
    <3>2. QED
      BY <3>1
  <2>4. QED
    BY <1>1, <2>1, <2>2, <2>3
<1>6. \A j, k \in DOMAIN t : t[j] = t[k] => j = k
  <2>1. SUFFICES ASSUME NEW j \in DOMAIN t, NEW k \in DOMAIN t, t[j] = t[k] PROVE j = k
    OBVIOUS
  <2>2. At(j) = At(k)
    BY <1>4, <2>1
  <2>3. j \in Int /\ k \in Int
    BY <1>1, <1>3
  <2>4. QED
    BY <1>1, <2>2, <2>3
<1>7. Range(t) = Range(s) \ {s[i]}
  <2>1. \A x : x \in Range(t) => x \in Range(s) /\ x # s[i]
    BY <1>1, <1>4 DEF Range
  <2>2. \A x : x \in Range(s) /\ x # s[i] => x \in Range(t)
    <3>1. SUFFICES ASSUME NEW k \in DOMAIN s, s[k] # s[i] PROVE s[k] \in Range(t)
      BY DEF Range
    <3>2. PICK j \in DOMAIN t : At(j) = k
      BY <1>5, <3>1
    <3>3. t[j] = s[k]
      BY <1>4, <3>2
    <3>4. QED
      BY <3>3 DEF Range
  <2>3. QED
    BY <2>1, <2>2
<1>8. QED
  BY <1>2, <1>6, <1>7

LEMMA AppendRange ==
    ASSUME NEW S, NEW s \in Seq(S), NEW x \in S, x \notin Range(s),
           \A j, k \in DOMAIN s : s[j] = s[k] => j = k
    PROVE  /\ Append(s, x) \in Seq(S)
           /\ Range(Append(s, x)) = Range(s) \union {x}
           /\ \A j, k \in DOMAIN Append(s, x) :
                Append(s, x)[j] = Append(s, x)[k] => j = k
<1>1. /\ Append(s, x) \in Seq(S)
      /\ DOMAIN s = 1..Len(s) /\ Len(s) \in Nat
      /\ DOMAIN Append(s, x) = 1..(Len(s) + 1)
      /\ \A j \in DOMAIN s : Append(s, x)[j] = s[j]
      /\ Append(s, x)[Len(s) + 1] = x
  OBVIOUS
<1>2. DOMAIN Append(s, x) = DOMAIN s \union {Len(s) + 1}
  BY <1>1
<1>3. \A j \in DOMAIN s : s[j] # x
  BY DEF Range
<1>4. Range(Append(s, x)) = Range(s) \union {x}
  <2>1. \A y : y \in Range(Append(s, x)) <=> \E j \in DOMAIN Append(s, x) : y = Append(s, x)[j]
    BY DEF Range
  <2>2. \A y : y \in Range(s) <=> \E j \in DOMAIN s : y = s[j]
    BY DEF Range
  <2>3. QED
    BY <1>1, <1>2, <2>1, <2>2
<1>5. QED
  BY <1>1, <1>2, <1>3, <1>4

\* Closing the dialog leaves nothing.
LEMMA CleanUpKeeps ==
    ASSUME DraftInv, CleanUp
    PROVE  DraftInv'
<1>1. draft' = NoDraft /\ draft'.images = <<>> /\ prevUrls' = <<>> /\ live' = {}
  BY DEF CleanUp, DraftInv, NoDraft
<1>2. Range(draft'.images) = {}
  BY <1>1 DEF Range
<1>3. draft' \in [text : BOOLEAN, images : Seq(Url), tags : SUBSET Tag]
  BY <1>1 DEF NoDraft
<1>4. QED
  BY <1>1, <1>2, <1>3 DEF DraftInv

\* An image that is put in or taken out is, in all three lists.
LEMMA ImagesKept ==
    ASSUME DraftInv, \/ \E url \in Url : PickImage(url)
                     \/ \E i \in 1..MaxImages : RemoveImage(i)
    PROVE  DraftInv'
<1> DEFINE s == draft.images
<1>1. s \in Seq(Url)
  BY DEF DraftInv
<1>2. CASE \E url \in Url : PickImage(url)
  <2>1. PICK url \in Url :
          /\ url \notin live
          /\ draft' = [draft EXCEPT !.images = Append(s, url)]
          /\ prevUrls' = Append(prevUrls, url)
          /\ live' = live \union {url}
    BY <1>2 DEF PickImage
  <2>2. draft'.images = Append(s, url)
    BY <2>1 DEF DraftInv
  <2>3. /\ Append(s, url) \in Seq(Url)
        /\ Range(Append(s, url)) = Range(s) \union {url}
        /\ \A j, k \in DOMAIN Append(s, url) : Append(s, url)[j] = Append(s, url)[k] => j = k
    BY <1>1, <2>1, AppendRange DEF DraftInv
  <2>4. draft' \in [text : BOOLEAN, images : Seq(Url), tags : SUBSET Tag]
    BY <2>1, <2>3 DEF DraftInv
  <2>5. QED
    BY <2>1, <2>2, <2>3, <2>4 DEF DraftInv
<1>3. CASE \E i \in 1..MaxImages : RemoveImage(i)
  <2>1. PICK i \in DOMAIN s :
          /\ draft' = [draft EXCEPT !.images = RemoveAt(s, i)]
          /\ prevUrls' = IF i \in DOMAIN prevUrls THEN RemoveAt(prevUrls, i) ELSE prevUrls
          /\ live' = live \ {s[i]}
    BY <1>3 DEF RemoveImage
  <2>2. draft'.images = RemoveAt(s, i)
    BY <2>1 DEF DraftInv
  <2>3. /\ RemoveAt(s, i) \in Seq(Url)
        /\ Range(RemoveAt(s, i)) = Range(s) \ {s[i]}
        /\ \A j, k \in DOMAIN RemoveAt(s, i) : RemoveAt(s, i)[j] = RemoveAt(s, i)[k] => j = k
    BY <1>1, <2>1, RemoveAtRange DEF DraftInv
  <2>4. draft' \in [text : BOOLEAN, images : Seq(Url), tags : SUBSET Tag]
    BY <2>1, <2>3 DEF DraftInv
  <2>5. QED
    BY <2>1, <2>2, <2>3, <2>4 DEF DraftInv
<1>4. QED
  BY <1>2, <1>3

LEMMA DraftInvStep == DraftInv /\ [Next]_vars => DraftInv'
<1> SUFFICES ASSUME DraftInv, [Next]_vars PROVE DraftInv'
  OBVIOUS
<1>1. ASSUME UNCHANGED <<draft, prevUrls, live>> PROVE DraftInv'
  BY <1>1 DEF DraftInv
<1>2. CASE AccountNext /\ ComposerFollows
  BY <1>1, <1>2, CleanUpKeeps DEF ComposerFollows, composer
<1>3. CASE EditorNext /\ UNCHANGED composerVars
  BY <1>1, <1>3 DEF composerVars
<1>4. CASE ComposerNext
  <2>1. CASE Write \/ \E t \in Tag : AddHashtag(t) \/ RemoveHashtag(t)
    <3>1. /\ UNCHANGED <<prevUrls, live>>
          /\ \/ draft' = [draft EXCEPT !.text = ~@]
             \/ \E t \in Tag : draft' = [draft EXCEPT !.tags = @ \union {t}]
             \/ \E t \in Tag : draft' = [draft EXCEPT !.tags = @ \ {t}]
      BY <2>1 DEF Write, AddHashtag, RemoveHashtag
    <3>2. /\ draft'.images = draft.images
          /\ draft' \in [text : BOOLEAN, images : Seq(Url), tags : SUBSET Tag]
      BY <3>1 DEF DraftInv
    <3>3. QED
      BY <3>1, <3>2 DEF DraftInv
  <2>2. CASE (\E url \in Url : PickImage(url)) \/ \E i \in 1..MaxImages : RemoveImage(i)
    BY <2>2, ImagesKept
  <2>3. CASE Cancel \/ Discard \/ PostDone
    BY <1>1, <2>3, CleanUpKeeps DEF Cancel, Discard, PostDone
  <2>4. CASE \/ Open_Dialog \/ KeepEditing \/ Post \/ Create \/ PostFails \/ OpenHashtags \/ CloseHashtags
    BY <1>1, <2>4 DEF Open_Dialog, KeepEditing, Post, Create, PostFails, OpenHashtags, CloseHashtags,
       composer
  <2>5. QED
    BY <1>4, <2>1, <2>2, <2>3, <2>4 DEF ComposerNext
<1>5. CASE UNCHANGED vars
  BY <1>1, <1>5 DEF vars, composerVars
<1>6. QED
  BY <1>2, <1>3, <1>4, <1>5 DEF Next

-----------------------------------------------------------------------------
(***************************************************************************)
(* The theorems.                                                            *)
(***************************************************************************)

\* The inductive invariant.
PageInv ==
    Types /\ SocketInv /\ EditorInv /\ StartInv /\ CurrentInv /\ DraftInv

LEMMA InitPageInv == Init => PageInv
<1> SUFFICES ASSUME Init PROVE PageInv
  OBVIOUS
<1>1. Unknown \notin User
  BY PageAccountAssumption
<1>2. SocketInv /\ EditorInv /\ StartInv /\ CurrentInv
  BY <1>1 DEF Init, AccountInit, EditorInit, SocketInv, SocketFollowsUser, SignedIn, EditorInv, StartInv,
     CurrentInv, Fresh, IsCurrent, Pending, NothingToSave, NoCall, Ask
<1>3. DraftInv
  <2>1. draft.images = <<>> /\ prevUrls = <<>> /\ live = {}
    BY DEF Init, ComposerInit, NoDraft
  <2>2. Range(draft.images) = {}
    BY <2>1 DEF Range
  <2>3. draft \in [text : BOOLEAN, images : Seq(Url), tags : SUBSET Tag]
    BY DEF Init, ComposerInit, NoDraft
  <2>4. QED
    BY <2>1, <2>2, <2>3 DEF DraftInv
<1>4. QED
  BY <1>2, <1>3, InitTypes DEF PageInv

LEMMA PageInvStep == PageInv /\ [Next]_vars => PageInv'
BY TypesStep, SocketInvStep, EditorInvStep, StartInvStep, CurrentInvStep, DraftInvStep DEF PageInv

LEMMA PageInvariance == Spec => []PageInv
BY InitPageInv, PageInvStep, PTL DEF Spec

\* The sockets of a page are those of its user, in that user's rooms, until the user
\* changes without a sign-out.
THEOREM SocketsFollowTheUser == Spec => []SocketFollowsUser
<1>1. PageInv => SocketFollowsUser
  BY DEF PageInv, SocketInv
<1>2. QED
  BY <1>1, PageInvariance, PTL

\* A page at rest that has missed nothing shows the user of the cookies, and the profile
\* as it is stored.
THEOREM RestingPagesAreCurrent == Spec => []PageIsCurrent
<1>1. PageInv => PageIsCurrent
  <2> SUFFICES ASSUME PageInv, AtRest, NothingToSave, ~missed
               PROVE  me.user = cookie /\ (cookie \in User => me.copy = stored[cookie])
    BY DEF PageIsCurrent
  <2>1. fetch.stage = "none" /\ ~Pending
    BY BlankIsAProfile DEF AtRest, NothingToSave, Pending
  <2>2. QED
    BY <2>1 DEF PageInv, CurrentInv, Fresh, IsCurrent
<1>2. QED
  BY <1>1, PageInvariance, PTL

\* What the user has not touched in an open editor is then what is stored.
THEOREM UntouchedFieldsAreStored == Spec => []OnlyEditsAreSaved
<1>1. PageInv => OnlyEditsAreSaved
  <2> SUFFICES ASSUME PageInv, AtRest, NothingToSave, ~missed, open, NEW f \in Field \ touched
               PROVE  form[f] = stored[cookie][f]
    BY DEF OnlyEditsAreSaved
  <2>1. fetch.stage = "none" /\ ~Pending
    BY BlankIsAProfile DEF AtRest, NothingToSave, Pending
  <2>2. me.user = cookie /\ (cookie \in User => me.copy = stored[cookie])
    BY <2>1 DEF PageInv, CurrentInv, Fresh, IsCurrent
  <2>3. me.user \in User /\ form[f] = me.copy[f]
    BY DEF PageInv, EditorInv, ProfileShown, SignedIn
  <2>4. QED
    BY <2>2, <2>3
<1>2. QED
  BY <1>1, PageInvariance, PTL

\* A draft is changed by its user only, unless the user or the need for it has gone, and
\* its images can be seen.
THEOREM DraftsAreKept == Spec => DraftIsKept
<1>1. PageInv /\ PageInv' /\ [Next]_vars =>
        [/\ live' = Range(draft'.images)
         /\ inputs' = inputs /\ draft' # draft => ~SignedIn' \/ posting = "created"]_vars
  <2> SUFFICES ASSUME PageInv, PageInv', Next
               PROVE  /\ live' = Range(draft'.images)
                      /\ inputs' = inputs /\ draft' # draft => ~SignedIn' \/ posting = "created"
    OBVIOUS
  <2>1. live' = Range(draft'.images)
    BY DEF PageInv, DraftInv
  <2>2. inputs \in Nat
    BY DEF PageInv, Types, AccountTypes
  <2>3. ASSUME inputs' = inputs, draft' # draft
        PROVE  ~SignedIn' \/ posting = "created"
    <3>1. CASE ComposerFollows
      BY <2>3, <3>1 DEF ComposerFollows, composer
    <3>2. CASE UNCHANGED composerVars
      BY <2>3, <3>2 DEF composerVars
    <3>3. CASE ComposerNext
      <4>1. ~Edit
        BY <2>2, <2>3 DEF Edit, Input
      <4>2. PostDone
        BY <2>3, <3>3, <4>1 DEF ComposerNext, Open_Dialog, Write, Cancel, KeepEditing, Discard, Post,
           Create, PostFails, OpenHashtags, CloseHashtags, PickImage, RemoveImage, AddHashtag, RemoveHashtag, composer
      <4>3. QED
        BY <4>2 DEF PostDone
    <3>4. QED
      BY <3>1, <3>2, <3>3 DEF Next
  <2>4. QED
    BY <2>1, <2>3
<1>2. QED
  BY <1>1, PageInvariance, PTL DEF Spec, DraftIsKept

-----------------------------------------------------------------------------
(***************************************************************************)
(* PageCache.  CacheInv is inductive: the pages of every list, fetch and      *)
(* snapshot go down (Descend); a list that can be trusted is faithful to the  *)
(* database while no reaction or deletion is on its way; and so are the pages *)
(* that a fetch has, which are a list's next ones, and those that the list     *)
(* goes back to if the fetch is cancelled.  A step either changes nothing that *)
(* is shown (QuietStep), or begins a change, carries one out, serves a page or *)
(* replaces a list.                                                          *)
(***************************************************************************)
\* Some rows of a page, each with the marks it shows.
PageRows == UNION {[D -> SUBSET Reaction] : D \in SUBSET PostId}
PageOf == [rows : PageRows, next : 0..MaxPost]
Contents == [pages : Seq(PageOf), stale : BOOLEAN]
Cached == [pages : Seq(PageOf), stale : BOOLEAN, lost : BOOLEAN, gaps : SUBSET PostId]
Asked == [want : Nat, more : BOOLEAN, got : Seq(PageOf), lost : BOOLEAN, gaps : SUBSET PostId,
          before : Contents]
Stage == {"idle", "sent", "ok", "failed", "settled", "done", "lost"}
Mutation == [kind : Kind, post : 0..MaxPost, stage : Stage, card : BOOLEAN,
             snap : [View -> Seq(PageOf)]]

ServerTypes ==
    /\ last \in 0..MaxPost /\ posts \subseteq 1..last /\ mine \subseteq posts
    /\ hidden \subseteq posts \ mine
    /\ mark \in [PostId -> SUBSET Reaction]

MutationTypes ==
    /\ mut \in [Req -> Mutation]
    /\ \A m \in Req : /\ mut[m].post <= last
                      /\ mut[m].stage \in {"idle", "settled"} => mut[m].kind = "follow"

CacheTypes ==
    /\ ServerTypes /\ MutationTypes
    /\ mounted \in View
    /\ list \in [View -> Cached]
    /\ fetches \in [View -> Asked \union {NotFetching}]

-----------------------------------------------------------------------------
(***************************************************************************)
(* The server's answer to a page.                                            *)
(***************************************************************************)
LEMMA LeastExists ==
    ASSUME NEW S \in SUBSET Nat, S # {}
    PROVE  \E x \in S : \A y \in S : x <= y
<1> DEFINE R == OpToRel(<, Nat)
<1>1. IsWellFoundedOn(R, Nat)
  BY NatLessThanWellFounded
<1>2. PICK x \in S : \A y \in S : ~(<<y, x>> \in R)
  <2> HIDE DEF R
  <2> QED BY <1>1, WFMin
<1>3. ASSUME NEW a \in Nat, NEW b \in Nat, a < b PROVE <<a, b>> \in R
  BY <1>3, Zenon DEF OpToRel
<1>4. ASSUME NEW y \in S PROVE x <= y
  <2>1. x \in Nat /\ y \in Nat
    OBVIOUS
  <2>2. ~(y < x)
    <3> HIDE DEF R
    <3> QED BY <1>2, <1>3, <2>1
  <2> QED BY <2>1, <2>2
<1> QED BY <1>4

LEMMA GreatestExists ==
    ASSUME NEW n \in Nat, NEW S \in SUBSET (0..n), S # {}
    PROVE  \E x \in S : \A y \in S : y <= x
<1> DEFINE T == {n - x : x \in S}
<1>1. T \in SUBSET Nat /\ T # {}
  <2>1. \A x \in S : x \in 0..n
    OBVIOUS
  <2>2. \A x \in 0..n : n - x \in Nat
    OBVIOUS
  <2>3. \A t \in T : t \in Nat
    BY <2>1, <2>2
  <2>4. PICK x \in S : TRUE
    OBVIOUS
  <2>5. n - x \in T
    OBVIOUS
  <2> QED BY <2>3, <2>5
<1>2. PICK t \in T : \A y \in T : t <= y
  <2> HIDE DEF T
  <2> QED BY <1>1, LeastExists
<1>3. PICK x \in S : t = n - x
  OBVIOUS
<1>4. ASSUME NEW y \in S PROVE y <= x
  <2>1. n - y \in T
    OBVIOUS
  <2>2. n - x <= n - y
    BY <1>2, <1>3, <2>1
  <2> QED BY <2>2
<1> QED BY <1>3, <1>4

LEMMA ListedAre ==
    ASSUME ServerTypes, NEW v \in View, NEW cursor
    PROVE  /\ After(v, cursor) \subseteq Listed(v)
           /\ Listed(v) \subseteq posts /\ mine \subseteq Listed(v)
           /\ IsFiniteSet(After(v, cursor))
<1>1. After(v, cursor) \subseteq Listed(v) /\ Listed(v) \subseteq posts /\ mine \subseteq Listed(v)
  BY DEF After, From, Listed, ServerTypes
<1>2. IsFiniteSet(1..last)
  BY FS_Interval DEF ServerTypes
<1>3. After(v, cursor) \in SUBSET (1..last)
  BY <1>1 DEF ServerTypes
<1> QED BY <1>1, <1>2, <1>3, FS_Subset

Above(S, p) == {q \in S : q > p}
Taken(S) == {p \in S : Cardinality({q \in S : q > p}) < Take}

LEMMA AboveCounts ==
    ASSUME NEW S \in SUBSET Nat, IsFiniteSet(S)
    PROVE  /\ \A p \in S : Cardinality(Above(S, p)) \in Nat
           /\ \A p, q \in S : p <= q => Cardinality(Above(S, q)) <= Cardinality(Above(S, p))
           /\ \A p \in S : Cardinality(Above(S, p)) < Cardinality(S)
<1>1. ASSUME NEW p \in S PROVE IsFiniteSet(Above(S, p)) /\ Cardinality(Above(S, p)) \in Nat
  <2>1. Above(S, p) \in SUBSET S
    BY DEF Above
  <2> QED BY <2>1, FS_Subset, FS_CardinalityType
<1>2. ASSUME NEW p \in S, NEW q \in S, p <= q
      PROVE  Cardinality(Above(S, q)) <= Cardinality(Above(S, p))
  <2>1. ASSUME NEW x \in S, x > q PROVE x > p
    <3>1. x \in Nat /\ p \in Nat /\ q \in Nat
      OBVIOUS
    <3> QED BY <1>2, <2>1, <3>1
  <2>2. Above(S, q) \in SUBSET Above(S, p)
    BY <2>1 DEF Above
  <2> QED BY <1>1, <2>2, FS_Subset
<1>3. ASSUME NEW p \in S PROVE Cardinality(Above(S, p)) < Cardinality(S)
  <2>0. p \in Nat /\ ~(p > p)
    OBVIOUS
  <2>1. Above(S, p) \in SUBSET (S \ {p})
    BY <2>0 DEF Above
  <2>2. IsFiniteSet(S \ {p}) /\ Cardinality(S \ {p}) = Cardinality(S) - 1
    BY FS_RemoveElement
  <2>3. Cardinality(Above(S, p)) <= Cardinality(S \ {p})
    BY <2>1, <2>2, FS_Subset
  <2>4. Cardinality(S) \in Nat
    BY FS_CardinalityType
  <2> QED BY <1>1, <2>2, <2>3, <2>4
<1> QED BY <1>1, <1>2, <1>3

\* What the limit takes is the newest, and all of it if there is no more.
LEMMA TakenAre ==
    ASSUME NEW n \in Nat, NEW S \in SUBSET (1..n), IsFiniteSet(S)
    PROVE  /\ Taken(S) \subseteq S
           /\ \A p \in S, q \in Taken(S) : p >= q => p \in Taken(S)
           /\ Cardinality(S) <= Take => Taken(S) = S
           /\ Cardinality(S) > Take => \E p \in Taken(S) : \A q \in Taken(S) : p <= q
<1>0. Take \in Nat \ {0}
  BY PageCacheAssumption
<1>1. \A p \in S : p \in Taken(S) <=> Cardinality(Above(S, p)) < Take
  BY DEF Taken, Above
<1>2. Taken(S) \subseteq S
  BY DEF Taken
<1>3. S \in SUBSET Nat
  OBVIOUS
<1>4. ASSUME NEW p \in S, NEW q \in Taken(S), p >= q PROVE p \in Taken(S)
  <2>1. Cardinality(Above(S, p)) <= Cardinality(Above(S, q)) /\ Cardinality(Above(S, q)) < Take
    BY <1>1, <1>2, <1>3, <1>4, AboveCounts
  <2>2. Cardinality(Above(S, p)) \in Nat /\ Cardinality(Above(S, q)) \in Nat
    BY <1>2, <1>3, AboveCounts
  <2> QED BY <1>0, <1>1, <2>1, <2>2
<1>5. ASSUME Cardinality(S) <= Take PROVE Taken(S) = S
  <2>1. ASSUME NEW p \in S PROVE p \in Taken(S)
    <3>1. Cardinality(Above(S, p)) < Cardinality(S) /\ Cardinality(Above(S, p)) \in Nat
      BY <1>3, AboveCounts
    <3>2. Cardinality(S) \in Nat
      BY FS_CardinalityType
    <3> QED BY <1>0, <1>1, <1>5, <3>1, <3>2
  <2> QED BY <1>2, <2>1
<1>6. ASSUME Cardinality(S) > Take PROVE \E p \in Taken(S) : \A q \in Taken(S) : p <= q
  <2>1. S # {}
    BY <1>0, <1>6, FS_EmptySet
  <2>2. PICK x \in S : \A y \in S : y <= x
    <3>1. S \in SUBSET (0..n)
      OBVIOUS
    <3> QED BY <2>1, <3>1, GreatestExists
  <2>3. Above(S, x) = {}
    <3>1. ASSUME NEW y \in S PROVE ~(y > x)
      <4>1. x \in Nat /\ y \in Nat /\ y <= x
        BY <1>3, <2>2
      <4> QED BY <4>1
    <3> QED BY <3>1 DEF Above
  <2>4. x \in Taken(S)
    BY <1>0, <1>1, <2>3, FS_EmptySet
  <2>5. Taken(S) \in SUBSET Nat /\ Taken(S) # {}
    BY <1>2, <1>3, <2>4
  <2> QED BY <2>5, LeastExists
<1> QED BY <1>2, <1>4, <1>5, <1>6

\* A page has what is listed after its cursor, down to the next one.
LEMMA AnswerIs ==
    ASSUME ServerTypes, NEW v \in View, NEW cursor
    PROVE  LET a == Answer(v, cursor)
           IN  /\ a \in PageOf /\ DOMAIN a.rows \subseteq After(v, cursor)
               /\ a.next = End \/ (a.next \in DOMAIN a.rows /\ \A p \in DOMAIN a.rows : a.next <= p)
               /\ \A p \in After(v, cursor), q \in DOMAIN a.rows : p >= q => p \in DOMAIN a.rows
               /\ a.next = End => DOMAIN a.rows = After(v, cursor)
               /\ \A p \in DOMAIN a.rows : a.rows[p] = Flags(v, p)
<1> DEFINE S == After(v, cursor)
           T == Taken(S)
           next == IF Cardinality(S) > Take THEN CHOOSE p \in T : \A q \in T : p <= q ELSE End
<1>1. S \in SUBSET (1..last) /\ IsFiniteSet(S) /\ last \in Nat /\ last <= MaxPost
  <2>1. S \subseteq posts /\ IsFiniteSet(S)
    BY ListedAre
  <2>2. posts \subseteq 1..last /\ last \in 0..MaxPost /\ MaxPost \in Nat
    BY PageCacheAssumption DEF ServerTypes
  <2> HIDE DEF S
  <2> QED BY <2>1, <2>2
<1>2. Answer(v, cursor) = [rows |-> [p \in T |-> Flags(v, p)], next |-> next]
  BY DEF Answer, Taken
<1>3. /\ T \subseteq S
      /\ \A p \in S, q \in T : p >= q => p \in T
      /\ Cardinality(S) <= Take => T = S
      /\ Cardinality(S) > Take => \E p \in T : \A q \in T : p <= q
  <2> HIDE DEF S
  <2> QED BY <1>1, TakenAre
<1>4. Cardinality(S) \in Nat /\ Take \in Nat
  BY <1>1, FS_CardinalityType, PageCacheAssumption
<1>5. \/ next = End /\ T = S
      \/ next \in T /\ (\A q \in T : next <= q)
  <2> HIDE DEF S, T
  <2> QED BY <1>3, <1>4
<1>6. next \in T => next # End
  BY <1>1, <1>3 DEF End
<1>7. next \in 0..MaxPost /\ T \in SUBSET PostId
  <2>1. MaxPost \in Nat
    BY PageCacheAssumption
  <2> HIDE DEF S, T, next
  <2>2. ASSUME NEW p \in T PROVE p \in 1..MaxPost
    <3>1. p \in 1..last
      BY <1>1, <1>3
    <3> QED BY <1>1, <2>1, <3>1
  <2>3. next \in 0..MaxPost
    BY <1>5, <2>1, <2>2 DEF End
  <2> QED BY <2>2, <2>3 DEF PostId
<1>8. \A p \in PostId : Flags(v, p) \in SUBSET Reaction
  BY DEF Flags, ServerTypes
<1>9. [p \in T |-> Flags(v, p)] \in PageRows
  <2> HIDE DEF T
  <2>1. [p \in T |-> Flags(v, p)] \in [T -> SUBSET Reaction]
    BY <1>7, <1>8
  <2> QED BY <1>7, <2>1 DEF PageRows
<1> HIDE DEF S, T, next
<1>10. Answer(v, cursor) \in PageOf
  BY <1>2, <1>7, <1>9 DEF PageOf
<1> QED BY <1>2, <1>3, <1>5, <1>6, <1>10 DEF S
-----------------------------------------------------------------------------
(***************************************************************************)
(* Pages that follow each other.                                             *)
(***************************************************************************)
\* From the newest post to the oldest, down to the cursor of what follows.
Descend(pages, n) ==
    /\ Ids(pages) \subseteq 1..n
    /\ \A i, j \in DOMAIN pages : i < j =>
         \A p \in DOMAIN pages[i].rows, q \in DOMAIN pages[j].rows : p > q
    /\ pages # <<>> /\ Last(pages).next # End => \A p \in Ids(pages) : p >= Last(pages).next

\* No post of S but the gaps is missing between two, or after the last one if there is
\* no more.
Joins(pages, gaps, S) ==
    /\ Last(pages).next \in Ids(pages) \union {End}
    /\ \A p \in S : /\ \E q \in Ids(pages) : q > p
                    /\ Last(pages).next = End \/ p >= Last(pages).next
                    => p \in Ids(pages) \union gaps

Marked(pages, P, marks) ==
    \A i \in DOMAIN pages : \A p \in DOMAIN pages[i].rows : p \in P => pages[i].rows[p] = marks[p]

\* None of S is newer than all that is shown.
Reach(pages, S) == \A p \in S : (\E q \in Ids(pages) : q < p) => \E q \in Ids(pages) : q >= p

\* Pages that show what the database has: P its posts, S those that belong in the list.
Faithful(v, pages, gaps, S, P, marks, gone, told) ==
    pages # <<>> =>
        /\ Joins(pages, gaps, S)
        /\ v = "newsfeed" => Marked(pages, P, marks)
        /\ Ids(pages) \intersect gone = {}
        /\ Reach(pages, told)

LEMMA EmptyPages ==
    ASSUME NEW n \in Nat
    PROVE  <<>> \in Seq(PageOf) /\ Ids(<<>>) = {} /\ Descend(<<>>, n)
<1>1. <<>> \in Seq(PageOf) /\ Len(<<>>) = 0 /\ DOMAIN <<>> = {}
  BY EmptySeq
<1>2. Ids(<<>>) = {}
  BY <1>1 DEF Ids
<1> QED BY <1>1, <1>2 DEF Descend

LEMMA LastOf ==
    ASSUME NEW pages \in Seq(PageOf), pages # <<>>
    PROVE  /\ Last(pages) \in PageOf /\ Len(pages) \in DOMAIN pages
           /\ DOMAIN Last(pages).rows \subseteq Ids(pages)
<1>1. Len(pages) \in Nat \ {0} /\ DOMAIN pages = 1..Len(pages)
  BY EmptySeq, LenProperties
<1>2. Len(pages) \in 1..Len(pages)
  BY <1>1
<1>3. pages[Len(pages)] \in PageOf
  BY <1>2, ElementOfSeq
<1> QED BY <1>1, <1>2, <1>3 DEF Last, Ids

LEMMA AppendedAre ==
    ASSUME NEW pages \in Seq(PageOf), NEW a \in PageOf
    PROVE  LET all == Append(pages, a)
           IN  /\ all \in Seq(PageOf) /\ all # <<>> /\ Last(all) = a
               /\ Ids(all) = Ids(pages) \union DOMAIN a.rows
               /\ Len(pages) \in Nat
               /\ DOMAIN pages = 1..Len(pages) /\ DOMAIN all = 1..(Len(pages) + 1)
               /\ \A i \in DOMAIN pages : all[i] = pages[i]
               /\ all[Len(pages) + 1] = a
<1> DEFINE all == Append(pages, a)
           n == Len(pages)
<1>1. /\ all \in Seq(PageOf) /\ all # <<>> /\ Len(all) = n + 1 /\ n \in Nat
      /\ \A i \in 1..n : all[i] = pages[i]
      /\ all[n + 1] = a
  BY AppendProperties, LenProperties
<1>2. DOMAIN pages = 1..n /\ DOMAIN all = 1..(n + 1)
  BY <1>1, LenProperties
<1>3. Last(all) = a
  BY <1>1 DEF Last
<1>4. 1..(n + 1) = 1..n \union {n + 1}
  BY <1>1
<1> HIDE DEF all, n
<1>5. ASSUME NEW p PROVE p \in Ids(all) <=> p \in Ids(pages) \/ p \in DOMAIN a.rows
  <2>1. ASSUME p \in Ids(all) PROVE p \in Ids(pages) \/ p \in DOMAIN a.rows
    <3>1. PICK i \in 1..(n + 1) : p \in DOMAIN all[i].rows
      BY <1>2, <2>1 DEF Ids
    <3>2. CASE i \in 1..n
      BY <1>1, <1>2, <3>1, <3>2 DEF Ids
    <3>3. CASE i = n + 1
      BY <1>1, <3>1, <3>3
    <3> QED BY <1>4, <3>2, <3>3
  <2>2. ASSUME p \in Ids(pages) PROVE p \in Ids(all)
    <3>1. PICK i \in 1..n : p \in DOMAIN pages[i].rows
      BY <1>2, <2>2 DEF Ids
    <3>2. i \in DOMAIN all /\ all[i] = pages[i]
      BY <1>1, <1>2, <1>4
    <3> QED BY <3>1, <3>2 DEF Ids
  <2>3. ASSUME p \in DOMAIN a.rows PROVE p \in Ids(all)
    <3>1. n + 1 \in DOMAIN all /\ all[n + 1] = a
      BY <1>1, <1>2, <1>4
    <3> QED BY <2>3, <3>1 DEF Ids
  <2> QED BY <2>1, <2>2, <2>3
<1>6. Ids(all) = Ids(pages) \union DOMAIN a.rows
  BY <1>5
<1> QED BY <1>1, <1>2, <1>3, <1>6 DEF all, n

\* The cursor with which the next page is asked for.
Cursor(pages) == IF pages = <<>> THEN FirstPage ELSE Last(pages).next
Ended(pages) == pages # <<>> /\ Last(pages).next = End

LEMMA AnswerBelow ==
    ASSUME ServerTypes, NEW v \in View, NEW pages \in Seq(PageOf), Descend(pages, last), ~Ended(pages),
           NEW q \in DOMAIN Answer(v, Cursor(pages)).rows
    PROVE  q \in Listed(v) /\ q \in 1..last /\ \A p \in Ids(pages) : p > q
<1> DEFINE c == Cursor(pages)
<1>1. q \in After(v, c)
  BY AnswerIs
<1>2. q \in Listed(v) /\ q \in 1..last
  BY <1>1, ListedAre DEF ServerTypes
<1>3. ASSUME NEW p \in Ids(pages) PROVE p > q
  <2>1. pages # <<>>
    BY EmptyPages, <1>3 DEF ServerTypes
  <2>2. c = Last(pages).next /\ c # FirstPage /\ c \in 0..MaxPost
    <3>1. Last(pages).next \in 0..MaxPost
      BY <2>1, LastOf DEF PageOf
    <3> QED BY <2>1, <3>1 DEF Cursor, Ended, End, FirstPage
  <2>3. p >= c /\ p \in 1..last
    BY <2>1, <2>2 DEF Descend, End, FirstPage
  <2> HIDE DEF c
  <2>4. q < c
    <3>1. PICK r \in From(v, c) : r > q
      BY <1>1, <2>2 DEF After
    <3>2. r <= c /\ r \in Listed(v)
      BY <3>1 DEF From
    <3>3. r \in 1..last
      BY <3>2, ListedAre DEF ServerTypes
    <3> QED BY <1>2, <2>2, <3>1, <3>2, <3>3
  <2>5. last \in Nat
    BY PageCacheAssumption DEF ServerTypes
  <2> QED BY <1>2, <2>2, <2>3, <2>4, <2>5
<1> QED BY <1>2, <1>3

LEMMA ServedDescend ==
    ASSUME ServerTypes, NEW v \in View, NEW pages \in Seq(PageOf), Descend(pages, last), ~Ended(pages)
    PROVE  Descend(Append(pages, Answer(v, Cursor(pages))), last)
<1> DEFINE a == Answer(v, Cursor(pages))
           all == Append(pages, a)
           n == Len(pages)
<1>1. /\ a \in PageOf
      /\ a.next = End \/ (a.next \in DOMAIN a.rows /\ \A p \in DOMAIN a.rows : a.next <= p)
  BY AnswerIs
<1>2. /\ all # <<>> /\ Last(all) = a /\ Ids(all) = Ids(pages) \union DOMAIN a.rows /\ n \in Nat
      /\ DOMAIN pages = 1..n /\ DOMAIN all = 1..(n + 1)
      /\ \A i \in DOMAIN pages : all[i] = pages[i]
      /\ all[n + 1] = a
  BY <1>1, AppendedAre
<1>3. \A q \in DOMAIN a.rows : q \in 1..last /\ \A p \in Ids(pages) : p > q
  BY AnswerBelow
<1> HIDE DEF a, all, n
<1>4. Ids(all) \subseteq 1..last /\ last \in Nat
  BY <1>2, <1>3, PageCacheAssumption DEF Descend, ServerTypes
<1>5. ASSUME NEW i \in 1..(n + 1), NEW j \in 1..(n + 1), i < j,
             NEW p \in DOMAIN all[i].rows, NEW q \in DOMAIN all[j].rows
      PROVE  p > q
  <2>1. i \in 1..n /\ all[i] = pages[i]
    <3>1. i \in 1..n
      BY <1>2, <1>5
    <3> QED BY <1>2, <3>1
  <2>2. CASE j \in 1..n
    BY <1>2, <1>5, <2>1, <2>2 DEF Descend
  <2>3. CASE j = n + 1
    <3>1. p \in Ids(pages)
      BY <1>2, <2>1 DEF Ids
    <3>2. q \in DOMAIN a.rows
      BY <1>2, <2>3
    <3> QED BY <1>3, <3>1, <3>2
  <2> QED BY <1>2, <2>2, <2>3
<1>6. ASSUME a.next # End, NEW p \in Ids(all) PROVE p >= a.next
  <2>1. a.next \in DOMAIN a.rows /\ a.next \in 1..last /\ p \in 1..last
    BY <1>1, <1>3, <1>4, <1>6
  <2>2. CASE p \in DOMAIN a.rows
    BY <1>1, <1>4, <1>6, <2>1, <2>2
  <2>3. CASE p \in Ids(pages)
    <3>1. p > a.next
      BY <1>3, <2>1, <2>3
    <3> QED BY <1>4, <2>1, <3>1
  <2> QED BY <1>2, <2>2, <2>3
<1>7. Descend(all, last)
  BY <1>2, <1>4, <1>5, <1>6 DEF Descend
<1> QED BY <1>7 DEF all, a

\* A page that is served to faithful pages continues them, but for what their cursor
\* makes it miss.
LEMMA ServedFaithful ==
    ASSUME ServerTypes, NEW v \in View, NEW pages \in Seq(PageOf), Descend(pages, last), ~Ended(pages),
           NEW gaps, NEW gone, gone \intersect posts = {}, NEW told \in SUBSET mine,
           Faithful(v, pages, gaps, Listed(v), posts, mark, gone, told)
    PROVE  Faithful(v, Append(pages, Answer(v, Cursor(pages))),
                    gaps \union Missed(v, Cursor(pages)), Listed(v), posts, mark, gone, told)
<1> DEFINE c == Cursor(pages)
           a == Answer(v, c)
           all == Append(pages, a)
           n == Len(pages)
           all_gaps == gaps \union Missed(v, c)
<1>1. /\ a \in PageOf
      /\ a.next = End \/ (a.next \in DOMAIN a.rows /\ \A p \in DOMAIN a.rows : a.next <= p)
      /\ \A p \in After(v, c), q \in DOMAIN a.rows : p >= q => p \in DOMAIN a.rows
      /\ a.next = End => DOMAIN a.rows = After(v, c)
      /\ \A p \in DOMAIN a.rows : a.rows[p] = Flags(v, p)
  BY AnswerIs
<1>2. /\ all # <<>> /\ Last(all) = a /\ Ids(all) = Ids(pages) \union DOMAIN a.rows /\ n \in Nat
      /\ DOMAIN pages = 1..n /\ DOMAIN all = 1..(n + 1)
      /\ \A i \in DOMAIN pages : all[i] = pages[i]
      /\ all[n + 1] = a
  BY <1>1, AppendedAre
<1>3. \A q \in DOMAIN a.rows : q \in Listed(v) /\ q \in 1..last /\ \A p \in Ids(pages) : p > q
  BY AnswerBelow
<1>4. Listed(v) \subseteq posts /\ mine \subseteq Listed(v) /\ posts \subseteq 1..last /\ last \in Nat
  BY ListedAre, PageCacheAssumption DEF ServerTypes
<1>5. pages = <<>> => Ids(pages) = {} /\ After(v, c) = Listed(v)
  BY <1>4, EmptyPages DEF After, Cursor
<1>6. ASSUME pages # <<>>
      PROVE  c = Last(pages).next /\ c \in Ids(pages) /\ c \in 1..last /\ c # FirstPage
  <2>1. c = Last(pages).next /\ c # End
    BY <1>6 DEF Cursor, Ended
  <2>2. c \in Ids(pages)
    BY <1>6, <2>1 DEF Faithful, Joins
  <2>3. c # FirstPage
    BY <2>1 DEF End, FirstPage
  <2> QED BY <2>1, <2>2, <2>3 DEF Descend
\* What the page does not have of the posts below its cursor is missed.
<1>6a. ASSUME pages # <<>>, NEW p \in Listed(v), p < c, p \notin After(v, c) PROVE p \in Missed(v, c)
  <2>1. c # FirstPage /\ c \in 1..last /\ p \in 1..last /\ Listed(v) \subseteq 1..last /\ last \in Nat
    BY <1>4, <1>6, <1>6a
  <2> HIDE DEF c
  <2>2. CASE c \notin posts
    BY <1>4, <1>6a, <2>1, <2>2 DEF Missed
  <2>3. CASE c \in posts
    <3>1. p \in From(v, c) /\ \A q \in From(v, c) : ~(q > p)
      <4>1. p <= c
        BY <1>6a, <2>1
      <4>2. p \in From(v, c)
        BY <1>6a, <2>3, <4>1 DEF From
      <4> QED BY <1>6a, <2>1, <4>2 DEF After
    <3>2. c \notin Listed(v)
      <4>1. SUFFICES ASSUME c \in Listed(v) PROVE FALSE
        OBVIOUS
      <4>2. c \in From(v, c)
        BY <2>1, <2>3, <4>1 DEF From
      <4> QED BY <1>6a, <2>1, <3>1, <4>2
    <3>3. ASSUME NEW q \in Listed(v), q < c PROVE q <= p
      <4>1. q \in 1..last /\ q <= c
        BY <2>1, <3>3
      <4>2. q \in From(v, c)
        BY <2>3, <4>1 DEF From
      <4> QED BY <2>1, <3>1, <4>1, <4>2
    <3> QED BY <1>6a, <3>2, <3>3 DEF Missed
  <2> QED BY <2>2, <2>3
<1> HIDE DEF c, a, all, n
<1>7. Ids(all) \subseteq 1..last
  BY <1>2, <1>3 DEF Descend
<1>8. Joins(all, all_gaps, Listed(v))
  <2>1. a.next \in Ids(all) \union {End}
    BY <1>1, <1>2
  <2>2. ASSUME NEW p \in After(v, c), a.next = End \/ p >= a.next PROVE p \in DOMAIN a.rows
    BY <1>1, <2>2
  <2>3. ASSUME NEW p \in Listed(v), NEW q \in Ids(all), q > p, a.next = End \/ p >= a.next
        PROVE  p \in Ids(all) \union all_gaps
    <3>1. CASE p \in After(v, c)
      BY <1>2, <2>2, <2>3, <3>1
    <3>2. CASE p \notin After(v, c) /\ pages # <<>> /\ p < c
      BY <1>6a, <2>3, <3>2
    <3>3. CASE p \notin After(v, c) /\ ~(pages # <<>> /\ p < c)
      <4>1. pages # <<>>
        BY <1>5, <2>3, <3>3
      <4>2. p >= c /\ p \in 1..last
        <5>1. p \in 1..last /\ c \in 1..last
          BY <1>4, <1>6, <2>3, <4>1
        <5>2. ~(p < c)
          BY <3>3, <4>1
        <5> QED BY <1>4, <5>1, <5>2
      <4>3. q \in Ids(pages)
        <5>1. SUFFICES ASSUME q \in DOMAIN a.rows PROVE FALSE
          BY <1>2
        <5>2. c > q /\ q \in 1..last
          BY <1>3, <1>6, <4>1, <5>1
        <5> QED BY <1>4, <1>6, <2>3, <4>1, <4>2, <5>2
      <4>4. Joins(pages, gaps, Listed(v))
        BY <4>1 DEF Faithful
      <4>5. p \in Ids(pages) \union gaps
        BY <1>6, <2>3, <4>1, <4>2, <4>3, <4>4 DEF Joins
      <4> QED BY <1>2, <4>5
    <3> QED BY <3>1, <3>2, <3>3
  <2> QED BY <1>2, <2>1, <2>3 DEF Joins
<1>9. ASSUME v = "newsfeed" PROVE Marked(all, posts, mark)
  <2>1. ASSUME NEW i \in 1..(n + 1), NEW p \in DOMAIN all[i].rows, p \in posts
        PROVE  all[i].rows[p] = mark[p]
    <3>1. CASE i \in 1..n
      <4>1. pages # <<>>
        <5>1. p \in Ids(pages)
          BY <1>2, <2>1, <3>1 DEF Ids
        <5> QED BY <1>5, <5>1
      <4> QED BY <1>2, <1>9, <2>1, <3>1, <4>1 DEF Faithful, Marked
    <3>2. CASE i = n + 1
      BY <1>1, <1>2, <1>9, <2>1, <3>2 DEF Flags
    <3> QED BY <1>2, <3>1, <3>2
  <2> QED BY <1>2, <2>1 DEF Marked
<1>10. Ids(all) \intersect gone = {}
  <2>1. Ids(pages) \intersect gone = {}
    BY <1>5 DEF Faithful
  <2>2. DOMAIN a.rows \subseteq posts
    BY <1>3, <1>4
  <2> QED BY <1>2, <2>1, <2>2
<1>11. ASSUME NEW p \in told, NEW q \in Ids(all), q < p PROVE \E x \in Ids(all) : x >= p
  <2>1. p \in Listed(v) /\ p \in 1..last /\ q \in 1..last
    BY <1>4, <1>7, <1>11
  <2>2. CASE pages = <<>>
    <3>1. p \in DOMAIN a.rows
      BY <1>1, <1>2, <1>4, <1>5, <1>11, <2>1, <2>2
    <3> QED BY <1>2, <1>4, <2>1, <3>1
  <2>3. CASE pages # <<>>
    <3>1. c \in Ids(pages) /\ c \in 1..last
      BY <1>6, <2>3
    <3>2. CASE c < p
      <4>1. Reach(pages, told)
        BY <2>3 DEF Faithful
      <4>2. \E x \in Ids(pages) : x >= p
        BY <1>11, <3>1, <3>2, <4>1 DEF Reach
      <4> QED BY <1>2, <4>2
    <3>3. CASE ~(c < p)
      <4>1. c >= p
        BY <1>4, <2>1, <3>1, <3>3
      <4> QED BY <1>2, <3>1, <4>1
    <3> QED BY <3>2, <3>3
  <2> QED BY <2>2, <2>3
<1>12. Faithful(v, all, all_gaps, Listed(v), posts, mark, gone, told)
  BY <1>8, <1>9, <1>10, <1>11 DEF Faithful, Reach
<1> QED BY <1>12 DEF all, a, c

\* What is faithful stays so when a post is added, when posts go, and when less is
\* claimed.
LEMMA StillFaithful ==
    ASSUME NEW v \in View, NEW pages \in Seq(PageOf), NEW n \in Nat, Descend(pages, n),
           NEW gaps, NEW S, NEW P, NEW marks, NEW gone, NEW told,
           NEW S1 \in SUBSET (S \union {n + 1}), NEW P1 \in SUBSET (P \union {n + 1}), NEW marks1,
           NEW gone1 \in SUBSET gone, NEW told1 \in SUBSET told,
           \A p \in P \intersect P1 : marks1[p] = marks[p],
           Faithful(v, pages, gaps, S, P, marks, gone, told)
    PROVE  Faithful(v, pages, gaps, S1, P1, marks1, gone1, told1)
<1> SUFFICES ASSUME pages # <<>>
             PROVE  /\ Joins(pages, gaps, S1)
                    /\ v = "newsfeed" => Marked(pages, P1, marks1)
                    /\ Ids(pages) \intersect gone1 = {}
                    /\ Reach(pages, told1)
  BY DEF Faithful
<1>1. Joins(pages, gaps, S) /\ (v = "newsfeed" => Marked(pages, P, marks)) /\ Reach(pages, told)
  BY DEF Faithful
<1>3. \A q \in Ids(pages) : q \in 1..n /\ ~(q > n + 1)
  BY DEF Descend
<1>4. Joins(pages, gaps, S1)
  BY <1>1, <1>3 DEF Joins
<1>5. ASSUME v = "newsfeed" PROVE Marked(pages, P1, marks1)
  <2>1. ASSUME NEW i \in DOMAIN pages, NEW p \in DOMAIN pages[i].rows, p \in P1
        PROVE  pages[i].rows[p] = marks1[p]
    <3>1. p \in Ids(pages)
      BY DEF Ids
    <3>2. p # n + 1
      <4>1. p \in 1..n
        BY <1>3, <3>1
      <4> QED BY <4>1
    <3>3. p \in P
      BY <2>1, <3>2
    <3> QED BY <1>1, <1>5, <2>1, <3>3 DEF Marked
  <2> QED BY <2>1 DEF Marked
<1>6. Ids(pages) \intersect gone1 = {}
  BY DEF Faithful
<1>7. Reach(pages, told1)
  BY <1>1 DEF Reach
<1> QED BY <1>4, <1>5, <1>6, <1>7

LEMMA EmptyFaithful ==
    ASSUME NEW v, NEW gaps, NEW S, NEW P, NEW marks, NEW gone, NEW told
    PROVE  Faithful(v, <<>>, gaps, S, P, marks, gone, told)
BY DEF Faithful

-----------------------------------------------------------------------------
(***************************************************************************)
(* The shape of what is cached.                                              *)
(***************************************************************************)
ListsOK(ls, n) == ls \in [View -> Cached] /\ \A v \in View : Descend(ls[v].pages, n)

FetchesOK(fs, n) ==
    /\ fs \in [View -> Asked \union {NotFetching}]
    /\ \A v \in View : fs[v] # NotFetching => Descend(fs[v].got, n) /\ Descend(fs[v].before.pages, n)

MutationOK(r, n) ==
    /\ r \in Mutation /\ r.post <= n
    /\ r.stage \in {"idle", "settled"} => r.kind = "follow"
    /\ \A v \in View : Descend(r.snap[v], n)
MutationsOK(ms, n) == ms \in [Req -> Mutation] /\ \A m \in Req : MutationOK(ms[m], n)

CacheOK ==
    /\ ServerTypes
    /\ mounted \in View
    /\ ListsOK(list, last) /\ FetchesOK(fetches, last) /\ MutationsOK(mut, last)

LEMMA DescendLater ==
    ASSUME NEW pages, NEW n \in Nat, NEW k \in Nat, n <= k, Descend(pages, n)
    PROVE  Descend(pages, k)
<1>1. 1..n \subseteq 1..k
  OBVIOUS
<1> QED BY <1>1 DEF Descend

LEMMA AllLater ==
    ASSUME NEW n \in Nat, NEW k \in Nat, n <= k, NEW ls, NEW fs, NEW ms
    PROVE  /\ ListsOK(ls, n) => ListsOK(ls, k)
           /\ FetchesOK(fs, n) => FetchesOK(fs, k)
           /\ MutationsOK(ms, n) => MutationsOK(ms, k)
<1>1. ListsOK(ls, n) => ListsOK(ls, k)
  BY DescendLater DEF ListsOK
<1>2. FetchesOK(fs, n) => FetchesOK(fs, k)
  BY DescendLater DEF FetchesOK
<1>3. ASSUME MutationsOK(ms, n), NEW m \in Req PROVE MutationOK(ms[m], k)
  <2>1. MutationOK(ms[m], n)
    BY <1>3 DEF MutationsOK
  <2>2. ms[m].post \in 0..MaxPost
    BY <2>1 DEF MutationOK, Mutation
  <2>3. MaxPost \in Nat
    BY PageCacheAssumption
  <2>4. ms[m].post <= k
    BY <2>1, <2>2, <2>3 DEF MutationOK
  <2> QED BY <2>1, <2>4, DescendLater DEF MutationOK
<1> QED BY <1>1, <1>2, <1>3 DEF MutationsOK

LEMMA PatchOK ==
    ASSUME NEW l \in Cached, NEW n \in Nat, Descend(l.pages, n), NEW rows,
           \A i \in DOMAIN l.pages : rows[i] \in PageRows /\ DOMAIN rows[i] \subseteq DOMAIN l.pages[i].rows
    PROVE  /\ Patch(l, rows) \in Cached
           /\ Descend(Patch(l, rows).pages, n)
           /\ Loaded(l) => Loaded(Patch(l, rows))
<1> DEFINE pages == l.pages
           new == [i \in DOMAIN pages |-> [pages[i] EXCEPT !.rows = rows[i]]]
<1>1. CASE ~Loaded(l)
  BY <1>1 DEF Patch
<1>2. CASE Loaded(l)
  <2>1. pages \in Seq(PageOf) /\ pages # <<>>
    BY <1>2 DEF Cached, Loaded
  <2>2. Patch(l, rows) = [l EXCEPT !.pages = new, !.stale = FALSE]
    BY <1>2 DEF Patch
  <2>3. Len(pages) \in Nat /\ DOMAIN pages = 1..Len(pages) /\ Len(pages) # 0
    BY <2>1, EmptySeq, LenProperties
  <2>4. ASSUME NEW i \in DOMAIN pages
        PROVE  new[i] \in PageOf /\ new[i].rows = rows[i] /\ new[i].next = pages[i].next
    <3>1. pages[i] \in PageOf
      BY <2>1, <2>3, ElementOfSeq
    <3>2. rows[i] \in PageRows
      OBVIOUS
    <3> QED BY <3>1, <3>2 DEF PageOf
  <2>5. new \in [1..Len(pages) -> PageOf]
    BY <2>3, <2>4
  <2> HIDE DEF new, pages
  <2>6. new \in Seq(PageOf) /\ DOMAIN new = DOMAIN pages
    <3>1. new \in Seq(PageOf)
      BY <2>3, <2>5, SeqDef
    <3> QED BY <2>3, <2>5, <3>1
  <2>7. Len(new) = Len(pages)
    BY <2>3, <2>6, LenProperties
  <2>8. Last(new).next = Last(pages).next /\ new # <<>>
    BY <2>3, <2>4, <2>6, <2>7, EmptySeq DEF Last
  <2>9. Patch(l, rows) \in Cached /\ Patch(l, rows).pages = new
    BY <2>2, <2>6 DEF Cached, pages
  <2>10. \A i \in DOMAIN pages : DOMAIN new[i].rows \subseteq DOMAIN pages[i].rows
    BY <2>4 DEF pages
  <2>11. Ids(new) \subseteq Ids(pages)
    BY <2>6, <2>10 DEF Ids
  <2>12. Descend(pages, n)
    BY DEF pages
  <2>13. Descend(new, n)
    BY <2>1, <2>6, <2>8, <2>10, <2>11, <2>12 DEF Descend
  <2> QED BY <2>8, <2>9, <2>13 DEF Loaded
<1> QED BY <1>1, <1>2

LEMMA FlippedRows ==
    ASSUME NEW r \in PageRows, NEW p, NEW k \in Reaction
    PROVE  Flip(r, p, k) \in PageRows /\ DOMAIN Flip(r, p, k) = DOMAIN r
<1>1. PICK D \in SUBSET PostId : r \in [D -> SUBSET Reaction]
  BY DEF PageRows
<1>2. Flip(r, p, k) \in [D -> SUBSET Reaction]
  BY <1>1 DEF Flip
<1> QED BY <1>1, <1>2 DEF PageRows

LEMMA WithoutRows ==
    ASSUME NEW r \in PageRows, NEW p
    PROVE  Without(r, p) \in PageRows /\ DOMAIN Without(r, p) \subseteq DOMAIN r
<1>1. PICK D \in SUBSET PostId : r \in [D -> SUBSET Reaction]
  BY DEF PageRows
<1>2. Without(r, p) \in [D \ {p} -> SUBSET Reaction]
  BY <1>1 DEF Without
<1>3. D \ {p} \in SUBSET PostId
  OBVIOUS
<1>4. Without(r, p) \in PageRows
  BY <1>2, <1>3 DEF PageRows
<1> QED BY <1>1, <1>2, <1>4

LEMMA RowsTyped ==
    ASSUME NEW l \in Cached, NEW i \in DOMAIN l.pages
    PROVE  RowsOf(l)[i] = l.pages[i].rows /\ l.pages[i].rows \in PageRows
<1>1. l.pages \in Seq(PageOf)
  BY DEF Cached
<1>2. l.pages[i] \in PageOf
  BY <1>1, LenProperties, ElementOfSeq
<1> QED BY <1>2 DEF RowsOf, PageOf

LEMMA AskedOK ==
    ASSUME NEW l \in Cached
    PROVE  /\ Refetch(l) \in Asked /\ Refetch(l).got = <<>> /\ ~Refetch(l).more
           /\ Refetch(l).before = Content(l)
           /\ NextPage(l) \in Asked /\ NextPage(l).got = l.pages /\ NextPage(l).more /\ ~NextPage(l).lost
           /\ NextPage(l).gaps = l.gaps /\ NextPage(l).before = Content(l)
           /\ Content(l).pages = l.pages /\ (Content(l).stale <=> l.stale) /\ Content(l) \in Contents
<1>1. l.pages \in Seq(PageOf) /\ Len(l.pages) \in Nat /\ <<>> \in Seq(PageOf)
  BY LenProperties, EmptySeq DEF Cached
<1>2. Content(l) \in Contents /\ l.gaps \in SUBSET PostId
  BY <1>1 DEF Content, Contents, Cached
<1>3. Content(l).pages = l.pages /\ (Content(l).stale <=> l.stale)
  BY DEF Content
<1> QED BY <1>1, <1>2, <1>3 DEF Refetch, NextPage, Asked

LEMMA SetMutation ==
    ASSUME NEW n, NEW ms, MutationsOK(ms, n), NEW m \in Req, NEW x, MutationOK(x, n)
    PROVE  MutationsOK([ms EXCEPT ![m] = x], n)
<1>1. x \in Mutation
  BY DEF MutationOK
<1> QED BY <1>1 DEF MutationsOK

LEMMA SetStage ==
    ASSUME NEW n, MutationsOK(mut, n), NEW m \in Req, NEW s \in Stage \ {"idle", "settled"}
    PROVE  /\ [mut EXCEPT ![m].stage = s] = [mut EXCEPT ![m] = [mut[m] EXCEPT !.stage = s]]
           /\ MutationsOK([mut EXCEPT ![m].stage = s], n)
<1> DEFINE x == [mut[m] EXCEPT !.stage = s]
<1>1. mut[m] \in Mutation /\ MutationOK(mut[m], n)
  BY DEF MutationsOK
<1>2. [mut EXCEPT ![m].stage = s] = [mut EXCEPT ![m] = x]
  OBVIOUS
<1>3. x \in Mutation /\ x.stage = s /\ x.post = mut[m].post /\ x.snap = mut[m].snap
  BY <1>1 DEF Mutation
<1>4. MutationOK(x, n)
  BY <1>1, <1>3 DEF MutationOK
<1>5. MutationsOK([mut EXCEPT ![m] = x], n)
  <2> HIDE DEF x
  <2> QED BY <1>4, SetMutation
<1> QED BY <1>2, <1>5

LEMMA IdleIsOK ==
    ASSUME NEW n \in Nat, NEW s \in Stage
    PROVE  /\ Idle \in Mutation /\ MutationOK(Idle, n)
           /\ MutationOK([Idle EXCEPT !.stage = s], n)
           /\ [Idle EXCEPT !.stage = s].kind = "follow" /\ [Idle EXCEPT !.stage = s].stage = s
<1>1. NoSnap \in [View -> Seq(PageOf)] /\ \A v \in View : Descend(NoSnap[v], n)
  BY EmptyPages DEF NoSnap
<1>2. 0 \in 0..MaxPost /\ "follow" \in Kind /\ "idle" \in Stage
  BY PageCacheAssumption DEF Kind, Stage
<1> HIDE DEF NoSnap
<1>3. /\ Idle \in Mutation
      /\ Idle.kind = "follow" /\ Idle.post = 0 /\ Idle.stage = "idle" /\ Idle.snap = NoSnap
  BY <1>1, <1>2 DEF Idle, Mutation
<1> DEFINE x == [Idle EXCEPT !.stage = s]
<1>4. x \in Mutation /\ x.kind = "follow" /\ x.post = 0 /\ x.stage = s /\ x.snap = NoSnap
  BY <1>3 DEF Mutation
<1> HIDE DEF x
<1>5. MutationOK(x, n) /\ MutationOK(Idle, n)
  BY <1>1, <1>3, <1>4 DEF MutationOK
<1> QED BY <1>3, <1>4, <1>5 DEF x

LEMMA LastIsNat == ServerTypes => last \in Nat /\ last <= MaxPost /\ MaxPost \in Nat
BY PageCacheAssumption DEF ServerTypes

LEMMA ShownAre ==
    ASSUME CacheOK, NEW v \in View
    PROVE  Shown(v) \subseteq 1..last
BY DEF CacheOK, ListsOK, Descend, Shown

LEMMA InitCacheOK == CacheInit => CacheOK
<1> SUFFICES ASSUME CacheInit PROVE CacheOK
  OBVIOUS
<1> USE DEF CacheInit
<1>1. First \in Nat /\ MaxPost \in Nat /\ First <= MaxPost /\ Own \subseteq 1..First
  BY PageCacheAssumption
<1>2. ServerTypes
  <2>1. mark \in [PostId -> SUBSET Reaction]
    OBVIOUS
  <2> QED BY <1>1, <2>1 DEF ServerTypes
<1>3. NoList \in Cached /\ NoList.pages = <<>> /\ Descend(<<>>, last) /\ <<>> \in Seq(PageOf)
  BY <1>1, EmptyPages DEF NoList, Cached
<1>4. ListsOK(list, last)
  BY <1>3 DEF ListsOK
<1>5. Refetch(NoList) \in Asked /\ Refetch(NoList).got = <<>> /\ Refetch(NoList).before.pages = <<>>
  BY <1>3, AskedOK
<1>6. FetchesOK(fetches, last)
  <2>1. \A v \in View : fetches[v] = Refetch(NoList) \/ fetches[v] = NotFetching
    OBVIOUS
  <2>2. fetches \in [View -> Asked \union {NotFetching}]
    BY <1>5
  <2> HIDE DEF CacheInit
  <2> QED BY <1>3, <1>5, <2>1, <2>2 DEF FetchesOK
<1>7. MutationsOK(mut, last)
  <2>3. MutationOK(Idle, last) /\ Idle \in Mutation
    BY <1>1, IdleIsOK DEF Stage
  <2> HIDE DEF Idle
  <2> QED BY <2>3 DEF MutationsOK
<1> QED BY <1>2, <1>4, <1>6, <1>7 DEF CacheOK, View

\* What the steps have in common: each of the parts is right again.
LEMMA CacheOKNext ==
    ASSUME ServerTypes', mounted' \in View,
           ListsOK(list', last'), FetchesOK(fetches', last'), MutationsOK(mut', last')
    PROVE  CacheOK'
BY DEF CacheOK

LEMMA FetchesSet ==
    ASSUME NEW n, NEW fs, FetchesOK(fs, n), NEW v \in View, NEW f \in Asked, Descend(f.got, n),
           Descend(f.before.pages, n)
    PROVE  FetchesOK([fs EXCEPT ![v] = f], n)
BY DEF FetchesOK

LEMMA FetchesOff ==
    ASSUME NEW n, NEW fs, FetchesOK(fs, n), NEW fs1,
           fs1 \in [View -> Asked \union {NotFetching}],
           \A v \in View : \/ fs1[v] = fs[v] \/ fs1[v] = NotFetching
                           \/ fs1[v].got = <<>> /\ Descend(fs1[v].before.pages, n),
           n \in Nat
    PROVE  FetchesOK(fs1, n)
<1>1. Descend(<<>>, n)
  BY EmptyPages
<1> QED BY <1>1 DEF FetchesOK

LEMMA MountOK == ASSUME CacheOK, NEW v \in View, Mount(v) PROVE CacheOK'
<1> USE DEF CacheOK
<1>1. ServerTypes' /\ last' = last /\ last \in Nat /\ ListsOK(list', last)
  BY LastIsNat DEF Mount, server, ServerTypes
<1>2. /\ Refetch(list[v]) \in Asked /\ Refetch(list[v]).got = <<>> /\ Descend(<<>>, last)
      /\ Descend(Refetch(list[v]).before.pages, last)
  BY <1>1, AskedOK, EmptyPages DEF ListsOK
<1>3. fetches' = fetches \/ fetches' = [fetches EXCEPT ![v] = Refetch(list[v])]
  BY DEF Mount
<1>4. FetchesOK(fetches', last)
  BY <1>2, <1>3, FetchesSet
<1>5. MutationsOK(mut', last)
  <2>1. mut' = [m \in Req |-> [mut[m] EXCEPT !.card = FALSE]]
    BY DEF Mount
  <2>2. ASSUME NEW m \in Req
        PROVE  MutationOK([mut[m] EXCEPT !.card = FALSE], last)
    <3>1. MutationOK(mut[m], last) /\ mut[m] \in Mutation
      BY DEF MutationsOK
    <3> QED BY <3>1 DEF MutationOK, Mutation
  <2>3. \A m \in Req : [mut[m] EXCEPT !.card = FALSE] \in Mutation
    BY <2>2 DEF MutationOK
  <2>4. mut' \in [Req -> Mutation]
    BY <2>1, <2>3
  <2> QED BY <2>1, <2>2, <2>4 DEF MutationsOK
<1>6. mounted' \in View
  BY DEF Mount
<1> QED BY <1>1, <1>4, <1>5, <1>6, CacheOKNext

LEMMA ScrollOK == ASSUME CacheOK, Scroll PROVE CacheOK'
<1> USE DEF CacheOK
<1>1. ServerTypes' /\ last' = last /\ ListsOK(list', last) /\ MutationsOK(mut', last) /\ mounted' \in View
  BY DEF Scroll, server, ServerTypes
<1>2. /\ NextPage(list[mounted]) \in Asked /\ NextPage(list[mounted]).got = list[mounted].pages
      /\ NextPage(list[mounted]).before.pages = list[mounted].pages
  BY AskedOK DEF ListsOK
<1>3. Descend(list[mounted].pages, last)
  BY DEF ListsOK
<1>4. FetchesOK(fetches', last)
  BY <1>2, <1>3, FetchesSet DEF Scroll
<1> QED BY <1>1, <1>4, CacheOKNext

LEMMA CollectOK == ASSUME CacheOK, NEW v \in View, Collect(v) PROVE CacheOK'
<1> USE DEF CacheOK
<1>1. /\ ServerTypes' /\ last' = last /\ last \in Nat /\ FetchesOK(fetches', last)
      /\ MutationsOK(mut', last) /\ mounted' \in View
  BY LastIsNat DEF Collect, server, ServerTypes
<1>2. NoList \in Cached /\ Descend(NoList.pages, last)
  BY <1>1, EmptyPages DEF NoList, Cached
<1>3. ListsOK(list', last)
  BY <1>2 DEF Collect, ListsOK
<1> QED BY <1>1, <1>3, CacheOKNext

LEMMA ServeOK == ASSUME CacheOK, NEW v \in View, Serve(v) PROVE CacheOK'
<1> USE DEF CacheOK
<1>1. ServerTypes' /\ last' = last /\ ListsOK(list', last) /\ MutationsOK(mut', last) /\ mounted' \in View
  BY DEF Serve, server, ServerTypes
<1> DEFINE f == fetches[v]
           all == Append(f.got, Answer(v, Cursor(f.got)))
           gaps == f.gaps \union Missed(v, Cursor(f.got))
           f1 == [f EXCEPT !.got = all, !.gaps = gaps]
<1>2. /\ f \in Asked /\ f.got \in Seq(PageOf) /\ Descend(f.got, last) /\ ~Ended(f.got)
      /\ f.gaps \in SUBSET PostId /\ Descend(f.before.pages, last)
  BY DEF Serve, Fetching, FetchesOK, Asked, Complete, Ended
<1>3. fetches' = [fetches EXCEPT ![v] = f1]
  BY DEF Serve, Cursor, FetchesOK
<1> HIDE DEF f
<1>4. all \in Seq(PageOf)
  BY <1>2, AnswerIs, AppendedAre
<1>5. Descend(all, last)
  BY <1>2, ServedDescend
<1>6. gaps \in SUBSET PostId
  <2>1. Missed(v, Cursor(f.got)) \subseteq 1..last
    BY ListedAre DEF Missed, ServerTypes
  <2> QED BY <1>2, <2>1, LastIsNat DEF PostId
<1> HIDE DEF all, gaps
<1>7. f1 \in Asked /\ f1.got = all /\ f1.before = f.before
  BY <1>2, <1>4, <1>6 DEF Asked
<1> HIDE DEF f1
<1>8. FetchesOK(fetches', last)
  BY <1>2, <1>3, <1>5, <1>7, FetchesSet
<1> QED BY <1>1, <1>8, CacheOKNext

LEMMA PagesArriveOK == ASSUME CacheOK, NEW v \in View, PagesArrive(v) PROVE CacheOK'
<1> USE DEF CacheOK
<1>1. /\ ServerTypes' /\ last' = last /\ last \in Nat
      /\ MutationsOK(mut', last) /\ mounted' \in View
  BY LastIsNat DEF PagesArrive, server, ServerTypes
<1> DEFINE f == fetches[v]
           lost == f.lost \/ (f.more /\ list[v].stale) \/ (f.more /\ list[v].lost)
           l == [pages |-> f.got, stale |-> FALSE, gaps |-> f.gaps, lost |-> lost]
<1>2. f \in Asked /\ f.got \in Seq(PageOf) /\ f.gaps \in SUBSET PostId /\ Descend(f.got, last)
  BY DEF PagesArrive, Fetching, FetchesOK, Asked
<1>3. list' = [list EXCEPT ![v] = l] /\ fetches' = [fetches EXCEPT ![v] = NotFetching]
  BY DEF PagesArrive
<1>4. lost \in BOOLEAN
  OBVIOUS
<1>5. l \in Cached
  <2> HIDE DEF lost, f
  <2> QED BY <1>2, <1>4 DEF Cached
<1>6. ListsOK(list', last)
  BY <1>2, <1>3, <1>5 DEF ListsOK
<1>7. FetchesOK(fetches', last)
  BY <1>3 DEF FetchesOK
<1> QED BY <1>1, <1>6, <1>7, CacheOKNext

LEMMA PageFailsOK == ASSUME CacheOK, NEW v \in View, PageFails(v) PROVE CacheOK'
<1> USE DEF CacheOK
<1>1. /\ ServerTypes' /\ last' = last /\ ListsOK(list', last)
      /\ MutationsOK(mut', last) /\ mounted' \in View
  BY DEF PageFails, server, ServerTypes
<1>2. FetchesOK(fetches', last)
  BY DEF PageFails, FetchesOK
<1> QED BY <1>1, <1>2, CacheOKNext

\* A mutation begins.
LEMMA BecomeOK ==
    ASSUME CacheOK, NEW m \in Req, NEW k \in Kind, NEW p \in 0..MaxPost, p <= last,
           NEW snap \in [View -> Seq(PageOf)], \A v \in View : Descend(snap[v], last),
           Become(m, k, p, snap)
    PROVE  MutationsOK(mut', last)
<1> DEFINE x == [kind |-> k, post |-> p, stage |-> "sent", card |-> k \in Reaction, snap |-> snap]
<1>1. x \in Mutation
  BY DEF Mutation, Stage
<1>2. MutationOK(x, last)
  BY <1>1 DEF MutationOK
<1>3. mut' = [mut EXCEPT ![m] = x]
  BY DEF Become
<1> HIDE DEF x
<1> QED BY <1>2, <1>3, SetMutation DEF CacheOK

LEMMA CancelledOK ==
    ASSUME CacheOK, NEW views
    PROVE  FetchesOK(Cancelled(views), last)
BY DEF CacheOK, FetchesOK, Cancelled

\* What a list is after its fetch has been cancelled.
LEMMA RevertedAre ==
    ASSUME CacheOK, NEW views, NEW v \in View
    PROVE  LET l == Reverted(views)[v]
           IN  /\ l \in Cached /\ Descend(l.pages, last) /\ l.gaps = list[v].gaps
               /\ \/ l = list[v]
                  \/ /\ v \in views /\ Fetching(v)
                     /\ l.pages = fetches[v].before.pages /\ (l.stale <=> fetches[v].before.stale)
                     /\ l.lost <=> list[v].lost \/ (list[v].stale /\ ~fetches[v].before.stale)
<1> DEFINE l == Reverted(views)[v]
<1>1. list[v] \in Cached /\ Descend(list[v].pages, last)
  BY DEF CacheOK, ListsOK
<1>2. CASE v \in views /\ Fetching(v)
  <2> DEFINE before == fetches[v].before
             lost == list[v].lost \/ (list[v].stale /\ ~before.stale)
  <2>1. before \in Contents /\ Descend(before.pages, last)
    BY <1>2 DEF CacheOK, FetchesOK, Asked, Fetching
  <2>2. l = [list[v] EXCEPT !.pages = before.pages, !.stale = before.stale, !.lost = lost]
    BY <1>1, <1>2 DEF Reverted, Restored, Cached
  <2>3. lost \in BOOLEAN /\ before.pages \in Seq(PageOf) /\ before.stale \in BOOLEAN
    BY <2>1 DEF Contents
  <2> HIDE DEF before, lost, l
  <2>4. /\ l \in Cached /\ l.pages = before.pages /\ (l.stale <=> before.stale)
        /\ (l.lost <=> lost) /\ l.gaps = list[v].gaps
    BY <1>1, <2>2, <2>3 DEF Cached
  <2> QED BY <1>2, <2>1, <2>4 DEF l, before, lost
<1>3. CASE ~(v \in views /\ Fetching(v))
  BY <1>1, <1>3 DEF Reverted
<1> QED BY <1>2, <1>3

LEMMA RevertedOK ==
    ASSUME CacheOK, NEW views
    PROVE  ListsOK(Reverted(views), last)
<1>1. Reverted(views) = [v \in View |-> Reverted(views)[v]]
  BY DEF Reverted
<1>2. \A v \in View : Reverted(views)[v] \in Cached /\ Descend(Reverted(views)[v].pages, last)
  BY RevertedAre
<1>3. Reverted(views) \in [View -> Cached]
  BY <1>1, <1>2
<1> QED BY <1>2, <1>3 DEF ListsOK

LEMMA ReactOK == ASSUME CacheOK, NEW m \in Req, React(m) PROVE CacheOK'
<1> USE DEF CacheOK
<1>1. ServerTypes' /\ last' = last /\ mounted' \in View /\ fetches' = Cancelled(View) /\ last \in Nat
  BY LastIsNat DEF React, server, ServerTypes
<1>2. PICK k \in Reaction, p \in Shown(mounted) :
        /\ Become(m, k, p, [v \in View |-> Reverted(View)[v].pages])
        /\ list' = [v \in View |->
               LET l == Reverted(View)[v]
                   rows == RowsOf(l)
               IN  Patch(l, [i \in DOMAIN rows |-> Flip(rows[i], p, k)])]
  BY DEF React
<1>3. FetchesOK(fetches', last)
  BY <1>1, CancelledOK
<1>4. MutationsOK(mut', last)
  <2> DEFINE snap == [v \in View |-> Reverted(View)[v].pages]
  <2>1. k \in Kind /\ p \in 0..MaxPost /\ p <= last
    <3>1. p \in 1..last
      BY ShownAre
    <3> QED BY <3>1, LastIsNat DEF Kind
  <2>2. snap \in [View -> Seq(PageOf)] /\ \A v \in View : Descend(snap[v], last)
    BY RevertedAre DEF Cached
  <2> QED BY <1>2, <2>1, <2>2, BecomeOK
<1>5. ListsOK(list', last)
  <2>1. ASSUME NEW v \in View PROVE list'[v] \in Cached /\ Descend(list'[v].pages, last)
    <3> DEFINE l == Reverted(View)[v]
               rows == RowsOf(l)
               new == [i \in DOMAIN rows |-> Flip(rows[i], p, k)]
    <3>1. l \in Cached /\ Descend(l.pages, last)
      BY RevertedAre
    <3>2. list'[v] = Patch(l, new)
      BY <1>2
    <3>3. DOMAIN rows = DOMAIN l.pages
      BY DEF RowsOf
    <3> HIDE DEF l
    <3>4. ASSUME NEW i \in DOMAIN l.pages
          PROVE  new[i] \in PageRows /\ DOMAIN new[i] \subseteq DOMAIN l.pages[i].rows
      <4>1. rows[i] = l.pages[i].rows /\ rows[i] \in PageRows
        BY <3>1, RowsTyped
      <4>2. new[i] = Flip(rows[i], p, k)
        BY <3>3
      <4> QED BY <4>1, <4>2, FlippedRows
    <3> HIDE DEF new, rows
    <3> QED BY <1>1, <3>1, <3>2, <3>4, PatchOK
  <2>2. list' \in [View -> Cached]
    BY <1>2, <2>1
  <2> QED BY <2>1, <2>2 DEF ListsOK
<1> QED BY <1>1, <1>3, <1>4, <1>5, CacheOKNext

LEMMA DeleteOK == ASSUME CacheOK, NEW m \in Req, Delete(m) PROVE CacheOK'
<1> USE DEF CacheOK
<1>1. /\ ServerTypes' /\ last' = last /\ mounted' \in View /\ fetches' = Cancelled({"newsfeed"})
      /\ last \in Nat /\ "newsfeed" \in View
  BY LastIsNat DEF Delete, server, ServerTypes, View
<1> DEFINE l == Reverted({"newsfeed"})["newsfeed"]
           rows == RowsOf(l)
<1>2. PICK p \in Shown(mounted) :
        /\ Become(m, "delete", p, NoSnap)
        /\ list' = [list EXCEPT !["newsfeed"] = Patch(l, [i \in DOMAIN rows |-> Without(rows[i], p)])]
  BY DEF Delete, ListsOK
<1>3. FetchesOK(fetches', last)
  BY <1>1, CancelledOK
<1>4. MutationsOK(mut', last)
  <2>1. "delete" \in Kind /\ p \in 0..MaxPost /\ p <= last
    <3>1. p \in 1..last
      BY ShownAre
    <3> QED BY <3>1, LastIsNat DEF Kind
  <2>2. NoSnap \in [View -> Seq(PageOf)] /\ \A v \in View : Descend(NoSnap[v], last)
    BY <1>1, EmptyPages DEF NoSnap
  <2> QED BY <1>2, <2>1, <2>2, BecomeOK
<1>5. ListsOK(list', last)
  <2> DEFINE new == [i \in DOMAIN rows |-> Without(rows[i], p)]
  <2>1. l \in Cached /\ Descend(l.pages, last)
    BY <1>1, RevertedAre
  <2>2. list' = [list EXCEPT !["newsfeed"] = Patch(l, new)]
    BY <1>2
  <2>3. DOMAIN rows = DOMAIN l.pages
    BY DEF RowsOf
  <2> HIDE DEF l
  <2>4. ASSUME NEW i \in DOMAIN l.pages
        PROVE  new[i] \in PageRows /\ DOMAIN new[i] \subseteq DOMAIN l.pages[i].rows
    <3>1. rows[i] = l.pages[i].rows /\ rows[i] \in PageRows
      BY <2>1, RowsTyped
    <3>2. new[i] = Without(rows[i], p)
      BY <2>3
    <3> QED BY <3>1, <3>2, WithoutRows
  <2> HIDE DEF new, rows
  <2>5. Patch(l, new) \in Cached /\ Descend(Patch(l, new).pages, last)
    BY <1>1, <2>1, <2>4, PatchOK
  <2> QED BY <1>1, <2>2, <2>5 DEF ListsOK
<1> QED BY <1>1, <1>3, <1>4, <1>5, CacheOKNext

LEMMA CreateFollowOK == ASSUME CacheOK, NEW m \in Req, CreatePost(m) \/ Follow(m) PROVE CacheOK'
<1> USE DEF CacheOK
<1>1. ServerTypes' /\ last' = last /\ last \in Nat /\ mounted' \in View /\ ListsOK(list', last)
  BY LastIsNat, RevertedOK DEF CreatePost, Follow, server, ServerTypes
<1>2. FetchesOK(fetches', last)
  BY CancelledOK DEF CreatePost, Follow
<1>3. MutationsOK(mut', last)
  <2>1. Become(m, "create", 0, NoSnap) \/ Become(m, "follow", 0, NoSnap)
    BY DEF CreatePost, Follow
  <2>2. {"create", "follow"} \subseteq Kind /\ 0 \in 0..MaxPost /\ 0 <= last
    BY LastIsNat, <1>1 DEF Kind
  <2>3. NoSnap \in [View -> Seq(PageOf)] /\ \A v \in View : Descend(NoSnap[v], last)
    BY <1>1, EmptyPages DEF NoSnap
  <2>4. "create" \in Kind /\ "follow" \in Kind
    BY <2>2
  <2> HIDE DEF CacheOK
  <2> QED BY <2>1, <2>2, <2>3, <2>4, BecomeOK
<1> QED BY <1>1, <1>2, <1>3, CacheOKNext

LEMMA ServerChanges ==
    ASSUME CacheOK, NEW m \in Req,
           \/ Toggle(m) \/ Erase(m) \/ Add(m)
           \/ UNCHANGED server
    PROVE  ServerTypes' /\ last' \in Nat /\ last \in Nat /\ last <= last'
<1> USE DEF CacheOK
<1>1. /\ last \in Nat /\ MaxPost \in Nat /\ last <= MaxPost
      /\ posts \subseteq 1..last /\ mine \subseteq posts /\ mark \in [PostId -> SUBSET Reaction]
      /\ hidden \subseteq posts \ mine
  BY LastIsNat DEF ServerTypes
<1>2. CASE Toggle(m)
  <2>1. /\ mut[m].kind \in Reaction /\ mark' = Flip(mark, mut[m].post, mut[m].kind)
        /\ UNCHANGED <<posts, mine, hidden, last>>
    BY <1>2 DEF Toggle
  <2>2. mark' \in [PostId -> SUBSET Reaction]
    BY <1>1, <2>1 DEF Flip
  <2>3. /\ last' \in 0..MaxPost /\ posts' \subseteq 1..last' /\ mine' \subseteq posts'
        /\ hidden' \subseteq posts' \ mine'
    BY <1>1, <2>1
  <2>4. last' \in Nat /\ last <= last'
    BY <1>1, <2>1
  <2>5. ServerTypes'
    BY <2>2, <2>3 DEF ServerTypes
  <2> QED BY <1>1, <2>4, <2>5
<1>3. CASE Erase(m)
  <2>1. /\ posts' = posts \ {mut[m].post} /\ mine' = mine \ {mut[m].post}
        /\ mark' = [mark EXCEPT ![mut[m].post] = {}] /\ UNCHANGED <<hidden, last>>
        /\ mut[m].post \in mine
    BY <1>3 DEF Erase
  <2>2. mark' \in [PostId -> SUBSET Reaction]
    BY <1>1, <2>1
  <2>3. last' \in 0..MaxPost /\ last' \in Nat /\ last <= last'
    BY <1>1, <2>1
  <2>4. posts' \subseteq 1..last' /\ mine' \subseteq posts' /\ hidden' \subseteq posts' \ mine'
    BY <1>1, <2>1
  <2>5. ServerTypes'
    BY <2>2, <2>3, <2>4 DEF ServerTypes
  <2> QED BY <1>1, <2>3, <2>5
<1>4. CASE Add(m)
  <2>1. /\ last < MaxPost /\ last' = last + 1 /\ posts' = posts \union {last + 1}
        /\ mine' = mine \union {last + 1} /\ UNCHANGED <<hidden, mark>>
    BY <1>4 DEF Add
  <2>2. last' \in 0..MaxPost /\ 1..last' = (1..last) \union {last + 1} /\ last' \in Nat /\ last <= last'
    BY <1>1, <2>1
  <2>3. posts' \subseteq 1..last' /\ mine' \subseteq posts' /\ hidden' \subseteq posts' \ mine'
    <3>1. last + 1 \notin hidden
      <4>1. last + 1 \notin 1..last
        BY <1>1
      <4> QED BY <1>1, <4>1
    <3> QED BY <1>1, <2>1, <2>2, <3>1
  <2> QED BY <1>1, <2>1, <2>2, <2>3 DEF ServerTypes
<1>5. CASE UNCHANGED server
  BY <1>1, <1>5 DEF ServerTypes, server
<1> QED BY <1>2, <1>3, <1>4, <1>5

LEMMA CommitOK == ASSUME CacheOK, NEW m \in Req, Commit(m) PROVE CacheOK'
<1> USE DEF CacheOK
<1>1. mounted' \in View /\ fetches' = Crossed /\ UNCHANGED list
  BY DEF Commit
<1>2. /\ ServerTypes' /\ last' \in Nat /\ last \in Nat /\ last <= last'
  BY ServerChanges DEF Commit
<1>3. ListsOK(list', last') /\ FetchesOK(fetches, last') /\ MutationsOK(mut, last')
  BY <1>1, <1>2, AllLater
<1>4. FetchesOK(fetches', last')
  <2>1. ASSUME NEW v \in View, HasRead(fetches[v])
        PROVE  /\ [fetches[v] EXCEPT !.lost = TRUE] \in Asked
               /\ [fetches[v] EXCEPT !.lost = TRUE].got = fetches[v].got
               /\ [fetches[v] EXCEPT !.lost = TRUE].before = fetches[v].before
               /\ fetches[v] # NotFetching
    <3>1. fetches[v] \in Asked /\ fetches[v] # NotFetching
      BY <1>3, <2>1 DEF FetchesOK, HasRead
    <3> QED BY <3>1 DEF Asked
  <2>2. \A v \in View :
          IF HasRead(fetches[v]) THEN fetches'[v] = [fetches[v] EXCEPT !.lost = TRUE]
                                 ELSE fetches'[v] = fetches[v]
    BY <1>1 DEF Crossed
  <2>3. DOMAIN fetches' = View /\ fetches' = [v \in View |-> fetches'[v]]
    BY <1>1 DEF Crossed
  <2>4. \A v \in View : fetches'[v] \in Asked \union {NotFetching}
    BY <1>3, <2>1, <2>2 DEF FetchesOK
  <2>5. fetches' \in [View -> Asked \union {NotFetching}]
    BY <2>3, <2>4
  <2> QED BY <1>3, <2>1, <2>2, <2>5 DEF FetchesOK
<1>5. MutationsOK(mut', last')
  <2> DEFINE p == IF mut[m].kind = "create" THEN last' ELSE mut[m].post
             x == [mut[m] EXCEPT !.stage = "ok", !.post = p]
  <2>1. mut[m] \in Mutation /\ MutationOK(mut[m], last')
    BY <1>3 DEF MutationsOK
  <2>2. last' \in 0..MaxPost
    BY <1>2 DEF ServerTypes
  <2>3. p \in 0..MaxPost /\ p <= last'
    BY <1>2, <2>1, <2>2 DEF Mutation, MutationOK
  <2>4. mut' = [mut EXCEPT ![m] = x]
    BY DEF Commit, MutationsOK
  <2> HIDE DEF p
  <2>5. x \in Mutation /\ x.post = p /\ x.stage = "ok" /\ x.snap = mut[m].snap
    BY <2>1, <2>3 DEF Mutation, Stage
  <2> HIDE DEF x
  <2>6. MutationOK(x, last')
    BY <2>1, <2>3, <2>5 DEF MutationOK
  <2> HIDE DEF CacheOK
  <2> QED BY <1>3, <2>4, <2>6, SetMutation
<1> QED BY <1>1, <1>2, <1>3, <1>4, <1>5, CacheOKNext

LEMMA FailOK == ASSUME CacheOK, NEW m \in Req, Fail(m) PROVE CacheOK'
<1> USE DEF CacheOK
<1>1. /\ ServerTypes' /\ last' = last /\ mounted' \in View
      /\ ListsOK(list', last) /\ FetchesOK(fetches', last)
  BY DEF Fail, server, ServerTypes
<1>2. mut' = [mut EXCEPT ![m].stage = "failed"]
  BY DEF Fail
<1>3. MutationsOK(mut', last)
  BY <1>2, SetStage DEF Stage
<1> QED BY <1>1, <1>3, CacheOKNext

LEMMA ForgetOK ==
    ASSUME CacheOK, NEW m \in Req, NEW s \in Stage, Forget(m, s)
    PROVE  MutationsOK(mut', last)
<1>1. MutationOK([Idle EXCEPT !.stage = s], last)
  BY IdleIsOK, LastIsNat DEF CacheOK
<1> QED BY <1>1, SetMutation DEF CacheOK, Forget

LEMMA KeptOK ==
    ASSUME CacheOK, NEW ls, ListsOK(ls, last)
    PROVE  /\ FetchesOK(Kept(ls), last)
           /\ \A v \in View :
                \/ Kept(ls)[v] = fetches[v]
                \/ /\ Fetching(v) /\ Kept(ls)[v] \in Asked /\ Kept(ls)[v].before.pages = ls[v].pages
                   /\ Kept(ls)[v].got = fetches[v].got /\ Kept(ls)[v].gaps = fetches[v].gaps
                   /\ (Kept(ls)[v].more <=> fetches[v].more) /\ (Kept(ls)[v].lost <=> fetches[v].lost)
<1> DEFINE fs == Kept(ls)
<1>1. ASSUME NEW v \in View
      PROVE  \/ fs[v] = fetches[v]
             \/ /\ Fetching(v) /\ fs[v] \in Asked /\ fs[v].before.pages = ls[v].pages
                /\ fs[v].got = fetches[v].got /\ fs[v].gaps = fetches[v].gaps
                /\ (fs[v].more <=> fetches[v].more) /\ (fs[v].lost <=> fetches[v].lost)
  <2>1. CASE Fetching(v) /\ ls[v] # list[v]
    <3>1. fetches[v] \in Asked /\ ls[v] \in Cached
      BY <2>1 DEF CacheOK, FetchesOK, ListsOK, Fetching
    <3>2. Content(ls[v]) \in Contents /\ Content(ls[v]).pages = ls[v].pages
      BY <3>1, AskedOK
    <3>3. fs[v] = [fetches[v] EXCEPT !.before = Content(ls[v])]
      BY <2>1 DEF Kept
    <3> HIDE DEF fs
    <3> QED BY <2>1, <3>1, <3>2, <3>3 DEF Asked
  <2>2. CASE ~(Fetching(v) /\ ls[v] # list[v])
    BY <2>2 DEF Kept
  <2> QED BY <2>1, <2>2
<1>2. fs = [v \in View |-> fs[v]]
  BY DEF Kept
<1> HIDE DEF fs
<1>3. fs \in [View -> Asked \union {NotFetching}]
  BY <1>1, <1>2 DEF CacheOK, FetchesOK
<1>4. FetchesOK(fs, last)
  BY <1>1, <1>3 DEF CacheOK, FetchesOK, ListsOK, Fetching
<1> QED BY <1>1, <1>4 DEF fs

LEMMA ReactionEndsOK == ASSUME CacheOK, NEW m \in Req, ReactionEnds(m) PROVE CacheOK'
<1> USE DEF CacheOK
<1>1. ServerTypes' /\ last' = last /\ mounted' \in View
  BY DEF ReactionEnds, server, ServerTypes
<1>2. MutationsOK(mut', last)
  BY ForgetOK DEF ReactionEnds, Stage
<1>3. ListsOK(list', last)
  <2>1. CASE UNCHANGED list
    BY <2>1 DEF ListsOK
  <2>2. CASE list' = RolledBack(m)
    <3>1. ASSUME NEW v \in View PROVE list'[v] \in Cached /\ Descend(list'[v].pages, last)
      <4>1. list[v] \in Cached /\ Descend(list[v].pages, last)
        BY DEF ListsOK
      <4>2. mut[m].snap[v] \in Seq(PageOf) /\ Descend(mut[m].snap[v], last)
        BY DEF MutationsOK, MutationOK, Mutation
      <4>3. list'[v] = list[v] \/ list'[v] = [list[v] EXCEPT !.pages = mut[m].snap[v], !.stale = FALSE]
        BY <2>2 DEF RolledBack
      <4> QED BY <4>1, <4>2, <4>3 DEF Cached
    <3>2. list' = [v \in View |-> list'[v]]
      BY <2>2 DEF RolledBack
    <3>3. list' \in [View -> Cached]
      BY <3>1, <3>2
    <3> QED BY <3>1, <3>3 DEF ListsOK
  <2> QED BY <2>1, <2>2 DEF ReactionEnds
<1>4. FetchesOK(fetches', last)
  BY <1>3, KeptOK DEF ReactionEnds
<1> QED BY <1>1, <1>2, <1>3, <1>4, CacheOKNext

LEMMA InvalidatedOK ==
    ASSUME CacheOK, NEW views
    PROVE  /\ ListsOK(Invalidated(list, views), last)
           /\ \A v \in View : /\ Invalidated(list, views)[v].pages = list[v].pages
                              /\ Invalidated(list, views)[v].lost = list[v].lost
                              /\ Invalidated(list, views)[v].gaps = list[v].gaps
                              /\ v \in views => Invalidated(list, views)[v].stale = Loaded(list[v])
                              /\ v \notin views => Invalidated(list, views)[v] = list[v]
<1> DEFINE ls == Invalidated(list, views)
<1>1. ASSUME NEW v \in View
      PROVE  /\ ls[v] \in Cached /\ ls[v].pages = list[v].pages /\ ls[v].lost = list[v].lost
             /\ ls[v].gaps = list[v].gaps
             /\ v \in views => ls[v].stale = Loaded(list[v])
             /\ v \notin views => ls[v] = list[v]
  <2>1. list[v] \in Cached /\ Loaded(list[v]) \in BOOLEAN
    BY DEF CacheOK, ListsOK, Loaded
  <2>2. ls[v] = IF v \in views THEN [list[v] EXCEPT !.stale = Loaded(list[v])] ELSE list[v]
    BY DEF Invalidated
  <2> HIDE DEF ls
  <2> QED BY <2>1, <2>2 DEF Cached
<1>2. ls = [v \in View |-> ls[v]]
  BY DEF Invalidated
<1> HIDE DEF ls
<1>3. ls \in [View -> Cached]
  BY <1>1, <1>2
<1>4. \A v \in View : Descend(ls[v].pages, last)
  BY <1>1 DEF CacheOK, ListsOK
<1> QED BY <1>1, <1>3, <1>4 DEF ls, ListsOK

LEMMA RefetchedAre ==
    ASSUME CacheOK, NEW views
    PROVE  LET fs == Refetched(fetches, views)
           IN  /\ FetchesOK(fs, last)
               /\ \A v \in View : \/ fs[v] = fetches[v]
                                  \/ /\ v \in views
                                     /\ fs[v] \in Asked /\ fs[v].got = <<>> /\ ~fs[v].more
                                     /\ fs[v].before = Content(Invalidated(list, views)[v])
<1> DEFINE fs == Refetched(fetches, views)
           ls == Invalidated(list, views)
<1>1. ASSUME NEW v \in View
      PROVE  \/ fs[v] = fetches[v]
             \/ /\ v \in views /\ fs[v] \in Asked /\ fs[v].got = <<>> /\ ~fs[v].more
                /\ fs[v].before = Content(ls[v]) /\ Descend(fs[v].before.pages, last)
  <2>1. ls[v] \in Cached /\ Descend(ls[v].pages, last)
    BY InvalidatedOK DEF ListsOK
  <2> HIDE DEF ls
  <2>2. /\ Refetch(ls[v]) \in Asked /\ Refetch(ls[v]).got = <<>> /\ ~Refetch(ls[v]).more
        /\ Refetch(ls[v]).before = Content(ls[v]) /\ Content(ls[v]).pages = ls[v].pages
    BY <2>1, AskedOK
  <2>3. fs[v] = fetches[v] \/ (v \in views /\ fs[v] = Refetch(ls[v]))
    BY DEF Refetched, ls
  <2> QED BY <2>1, <2>2, <2>3
<1>2. fs = [v \in View |-> fs[v]]
  BY DEF Refetched
<1> HIDE DEF fs, ls
<1>3. fs \in [View -> Asked \union {NotFetching}]
  BY <1>1, <1>2 DEF CacheOK, FetchesOK
<1>4. FetchesOK(fs, last)
  BY <1>1, <1>3, FetchesOff, LastIsNat DEF CacheOK
<1> QED BY <1>1, <1>4 DEF fs, ls

LEMMA TimerOK == ASSUME CacheOK, NEW m \in Req, Timer(m) PROVE CacheOK'
<1> USE DEF CacheOK
<1>1. /\ ServerTypes' /\ last' = last /\ mounted' \in View /\ FetchesOK(fetches', last)
  BY DEF Timer, server, ServerTypes
<1>2. MutationsOK(mut', last)
  BY ForgetOK DEF Timer, Stage
<1>3. ListsOK(list', last)
  BY InvalidatedOK DEF Timer
<1> QED BY <1>1, <1>2, <1>3, CacheOKNext

LEMMA EndsOK == ASSUME CacheOK, NEW m \in Req, Ends(m) PROVE CacheOK'
<1> USE DEF CacheOK
<1>1. ServerTypes' /\ last' = last /\ mounted' \in View
  BY DEF Ends, server, ServerTypes
<1>2. PICK views : list' = Invalidated(list, views) /\ fetches' = Refetched(fetches, views)
  BY DEF Ends
<1>3. ListsOK(list', last) /\ FetchesOK(fetches', last)
  BY <1>2, InvalidatedOK, RefetchedAre
<1>4. MutationsOK(mut', last)
  BY SetStage DEF Ends, Goto, Stage
<1> QED BY <1>1, <1>3, <1>4, CacheOKNext

LEMMA OthersChange ==
    ASSUME CacheOK, UNCHANGED mine, OthersPost \/ OthersDelete \/ OthersHide
    PROVE  ServerTypes' /\ last' \in Nat /\ last \in Nat /\ last <= last'
<1> USE DEF CacheOK
<1>1. /\ last \in Nat /\ MaxPost \in Nat /\ last <= MaxPost
      /\ posts \subseteq 1..last /\ mine \subseteq posts /\ mark \in [PostId -> SUBSET Reaction]
      /\ hidden \subseteq posts \ mine
  BY LastIsNat DEF ServerTypes
<1>2. CASE OthersPost
  <2>1. /\ last < MaxPost /\ last' = last + 1 /\ posts' = posts \union {last + 1}
        /\ UNCHANGED <<hidden, mark>>
    BY <1>2 DEF OthersPost
  <2>2. last' \in 0..MaxPost /\ 1..last' = (1..last) \union {last + 1} /\ last' \in Nat /\ last <= last'
    BY <1>1, <2>1
  <2>3. posts' \subseteq 1..last' /\ mine' \subseteq posts' /\ hidden' \subseteq posts' \ mine'
    BY <1>1, <2>1, <2>2
  <2> QED BY <1>1, <2>1, <2>2, <2>3 DEF ServerTypes
<1>3. CASE OthersDelete
  <2>1. PICK p \in posts \ mine : 
          posts' = posts \ {p} /\ hidden' = hidden \ {p} /\ mark' = [mark EXCEPT ![p] = {}]
    BY <1>3 DEF OthersDelete
  <2>2. mark' \in [PostId -> SUBSET Reaction] /\ UNCHANGED last
    BY <1>1, <1>3, <2>1 DEF OthersDelete
  <2> QED BY <1>1, <2>1, <2>2 DEF ServerTypes
<1>4. CASE OthersHide
  BY <1>1, <1>4 DEF OthersHide, ServerTypes
<1> QED BY <1>2, <1>3, <1>4

LEMMA OthersOK == ASSUME CacheOK, NEW m \in Req, Others(m) PROVE CacheOK'
<1>1. mounted' \in View /\ UNCHANGED <<list, fetches>> /\ mut' = [mut EXCEPT ![m].stage = "done"]
  BY DEF Others, CacheOK
<1>2. ServerTypes' /\ last' \in Nat /\ last \in Nat /\ last <= last'
  BY OthersChange DEF Others
<1>3. MutationsOK(mut', last)
  BY <1>1, SetStage DEF Stage, CacheOK
<1>4. ListsOK(list', last') /\ FetchesOK(fetches', last') /\ MutationsOK(mut', last')
  BY <1>1, <1>2, <1>3, AllLater DEF CacheOK
<1> QED BY <1>1, <1>2, <1>4, CacheOKNext

LEMMA CacheOKStep == CacheOK /\ [CacheNext]_cacheVars => CacheOK'
<1> SUFFICES ASSUME CacheOK, [CacheNext]_cacheVars PROVE CacheOK'
  OBVIOUS
<1>1. ASSUME NEW v \in View, Mount(v) \/ Collect(v) \/ FetchStep(v) PROVE CacheOK'
  BY <1>1, MountOK, CollectOK, ServeOK, PagesArriveOK, PageFailsOK DEF FetchStep
<1>2. ASSUME NEW m \in Req, Mutate(m) \/ Proceed(m) \/ Others(m) PROVE CacheOK'
  BY <1>2, ReactOK, DeleteOK, CreateFollowOK, CommitOK, FailOK, ReactionEndsOK, TimerOK, EndsOK, OthersOK
     DEF Mutate, Proceed
<1>3. CASE UNCHANGED cacheVars
  BY <1>3 DEF cacheVars, CacheOK, ServerTypes
<1> QED BY <1>1, <1>2, <1>3, ScrollOK DEF CacheNext

-----------------------------------------------------------------------------
(***************************************************************************)
(* What the lists show.                                                      *)
(***************************************************************************)
\* A change that the lists may show and the database not have, or the other way round,
\* until the lists are marked.
Changing(r) ==
    \/ r.stage = "settled"
    \/ r.kind \in Reaction \union {"delete"} /\ r.stage \in {"sent", "ok", "failed"}
Changes == \E m \in Req : Changing(mut[m])

Erases(r) == r.kind = "delete" /\ r.stage \in {"ok", "done"}
Erased == {mut[m].post : m \in {n \in Req : Erases(mut[n])}}

\* The page does not know, or not yet, that the post has been created.
Doubts(r) == r.kind = "create" /\ r.stage \in {"ok", "failed", "lost"}
Doubted == {mut[m].post : m \in {n \in Req : Doubts(mut[n])}}
Sure == mine \ Doubted

\* Pages that show of the database what the list v is to show.
Shows(v, pages, gaps, told) == Faithful(v, pages, gaps, Listed(v), posts, mark, Erased, told)

ListsFaithful ==
    ~Changes => \A v \in View : Trusted(v) => Shows(v, list[v].pages, list[v].gaps, Sure)

\* A refetch shows what the server has; one more page continues what is cached.
FetchFaithful(v) ==
    Fetching(v) /\ ~fetches[v].lost =>
        IF fetches[v].more
          THEN Trusted(v) /\ ~Changes => Shows(v, fetches[v].got, fetches[v].gaps, Sure)
          ELSE Shows(v, fetches[v].got, fetches[v].gaps, mine)
FetchesFaithful == \A v \in View : FetchFaithful(v)

\* What a list goes back to was loaded only if it still is, and is fresh and faithful if
\* the list is trusted.
Unmarked(before) == Loaded(before) /\ ~before.stale
BeforeFaithful(v) ==
    Fetching(v) /\ Unmarked(fetches[v].before) /\ Trusted(v) /\ ~Changes
        => Shows(v, fetches[v].before.pages, list[v].gaps, Sure)
BeforesFaithful == \A v \in View : BeforeFaithful(v)

MoreLoaded ==
    \A v \in View : Fetching(v) /\ (fetches[v].more \/ Loaded(fetches[v].before)) => Loaded(list[v])
ErasedGone == Erased \intersect posts = {}

CacheInv ==
    /\ CacheOK
    /\ ListsFaithful /\ FetchesFaithful /\ BeforesFaithful
    /\ MoreLoaded /\ ErasedGone

LEMMA MutationAfter ==
    ASSUME CacheOK, NEW m \in Req, NEW x, mut' = [mut EXCEPT ![m] = x]
    PROVE  /\ Changing(x) => Changes'
           /\ (Changing(mut[m]) => Changing(x)) => (~Changes' => ~Changes)
           /\ Erased' \subseteq Erased \union {x.post}
           /\ (Erases(x) => Erases(mut[m]) /\ x.post = mut[m].post) => Erased' \subseteq Erased
           /\ (Doubts(mut[m]) => Doubts(x) /\ x.post = mut[m].post) => Doubted \subseteq Doubted'
           /\ Doubts(x) => x.post \in Doubted'
<1>1. DOMAIN mut = Req
  BY DEF CacheOK, MutationsOK
<1>2. mut'[m] = x /\ \A n \in Req \ {m} : mut'[n] = mut[n]
  BY <1>1
<1>3. Changing(x) => Changes'
  BY <1>2 DEF Changes, Changing
<1>4. ASSUME Changing(mut[m]) => Changing(x), Changes PROVE Changes'
  <2>1. PICK n \in Req : Changing(mut[n])
    BY <1>4 DEF Changes
  <2>2. CASE n = m
    BY <1>3, <1>4, <2>1, <2>2
  <2>3. CASE n # m
    <3>1. mut'[n] = mut[n]
      BY <1>2, <2>3
    <3> QED BY <2>1, <3>1 DEF Changes, Changing
  <2> QED BY <2>2, <2>3
<1>5. ASSUME NEW p \in Erased' PROVE p \in Erased \/ (p = x.post /\ Erases(x))
  <2>1. PICK n \in Req : Erases(mut'[n]) /\ p = mut'[n].post
    BY <1>5 DEF Erased, Erases
  <2>2. CASE n = m
    BY <1>2, <2>1, <2>2
  <2>3. CASE n # m
    <3>1. mut'[n] = mut[n]
      BY <1>2, <2>3
    <3> QED BY <2>1, <3>1 DEF Erased
  <2> QED BY <2>2, <2>3
<1>6. ASSUME Erases(x) => Erases(mut[m]) /\ x.post = mut[m].post PROVE Erased' \subseteq Erased
  <2>1. Erases(x) => x.post \in Erased
    BY <1>6 DEF Erased
  <2> QED BY <1>5, <2>1
<1>7. Doubts(x) => x.post \in Doubted'
  <2>1. ASSUME Doubts(x) PROVE x.post \in Doubted'
    <3>1. Doubts(mut'[m]) /\ x.post = mut'[m].post
      BY <1>2, <2>1
    <3> QED BY <3>1 DEF Doubted, Doubts
  <2> QED BY <2>1
<1>8. ASSUME Doubts(mut[m]) => Doubts(x) /\ x.post = mut[m].post, NEW p \in Doubted PROVE p \in Doubted'
  <2>1. PICK n \in Req : Doubts(mut[n]) /\ p = mut[n].post
    BY <1>8 DEF Doubted
  <2>2. CASE n = m
    BY <1>7, <1>8, <2>1, <2>2
  <2>3. CASE n # m
    <3>1. Doubts(mut'[n]) /\ p = mut'[n].post
      BY <1>2, <2>1, <2>3
    <3> QED BY <3>1 DEF Doubted, Doubts
  <2> QED BY <2>2, <2>3
<1> QED BY <1>3, <1>4, <1>5, <1>6, <1>7, <1>8

\* A step that changes no page of a list that is trusted after it, but to go back to what
\* was there before its fetch, and no fetch but to cancel, restart or distrust it, and
\* that changes the database for nothing shown.
LEMMA QuietStep ==
    ASSUME CacheInv, CacheOK',
           posts' \in SUBSET (posts \union {last + 1}), mine' \in SUBSET (mine \union {last + 1}),
           hidden \intersect posts' \subseteq hidden',
           \A p \in posts \intersect posts' : mark'[p] = mark[p],
           Erased' \subseteq Erased,
           \A v \in View : ~Changes' /\ Trusted(v)' =>
               /\ ~Changes /\ Trusted(v) /\ list'[v].gaps = list[v].gaps /\ Sure' \subseteq Sure
               /\ \/ list'[v].pages = list[v].pages
                  \/ /\ Fetching(v) /\ Unmarked(fetches[v].before)
                     /\ list'[v].pages = fetches[v].before.pages,
           \A v \in View : fetches'[v] # NotFetching =>
               \/ /\ ~fetches'[v].more /\ fetches'[v].got = <<>>
                  /\ fetches'[v].before = Content(list'[v])
               \/ /\ fetches[v] # NotFetching /\ (fetches'[v].more <=> fetches[v].more)
                  /\ Loaded(list[v]) => Loaded(list'[v])
                  /\ \/ fetches'[v].before = fetches[v].before
                     \/ Changes' /\ fetches'[v].before.pages = list'[v].pages
                  /\ \/ fetches'[v].lost
                     \/ /\ ~fetches[v].lost
                        /\ fetches'[v].got = fetches[v].got /\ fetches'[v].gaps = fetches[v].gaps
                        /\ fetches[v].more \/ fetches[v].got = <<>> \/ mine' \subseteq mine
    PROVE  CacheInv'
<1>1. last \in Nat
  BY LastIsNat DEF CacheInv, CacheOK
<1>0. ASSUME NEW v \in View
      PROVE  Listed(v)' \in SUBSET (Listed(v) \union {last + 1})
  BY DEF Listed, CacheOK, ServerTypes
<1>2. ASSUME NEW v \in View, NEW pages \in Seq(PageOf), Descend(pages, last), NEW gaps,
             NEW told, NEW told1 \in SUBSET told,
             Shows(v, pages, gaps, told)
      PROVE  Faithful(v, pages, gaps, Listed(v)', posts', mark', Erased', told1)
  BY <1>1, <1>0, <1>2, StillFaithful DEF Shows
<1>3. ASSUME ~Changes', NEW v \in View, Trusted(v)'
      PROVE  Shows(v, list[v].pages, list[v].gaps, Sure)'
  <2>1. ~Changes /\ Trusted(v) /\ list'[v].gaps = list[v].gaps /\ Sure' \in SUBSET Sure
    BY <1>3
  <2>2. CASE list'[v].pages = list[v].pages
    <3>1. Shows(v, list[v].pages, list[v].gaps, Sure)
      BY <2>1 DEF CacheInv, ListsFaithful
    <3>2. list[v].pages \in Seq(PageOf) /\ Descend(list[v].pages, last)
      BY DEF CacheInv, CacheOK, ListsOK, Cached
    <3> QED BY <1>2, <2>1, <2>2, <3>1, <3>2 DEF Shows
  <2>3. CASE Fetching(v) /\ Unmarked(fetches[v].before) /\ list'[v].pages = fetches[v].before.pages
    <3>1. Shows(v, fetches[v].before.pages, list[v].gaps, Sure)
      BY <2>1, <2>3 DEF CacheInv, BeforesFaithful, BeforeFaithful
    <3>2. fetches[v].before.pages \in Seq(PageOf) /\ Descend(fetches[v].before.pages, last)
      BY <2>3 DEF CacheInv, CacheOK, FetchesOK, Asked, Contents, Fetching
    <3> QED BY <1>2, <2>1, <2>3, <3>1, <3>2 DEF Shows
  <2> QED BY <1>3, <2>2, <2>3
<1>4. ASSUME NEW v \in View, fetches'[v] # NotFetching, ~fetches'[v].lost,
             fetches'[v].more, Trusted(v)', ~Changes'
      PROVE  Shows(v, fetches[v].got, fetches[v].gaps, Sure)'
  <2>1. /\ fetches[v] # NotFetching /\ fetches[v].more /\ ~fetches[v].lost
        /\ fetches'[v].got = fetches[v].got /\ fetches'[v].gaps = fetches[v].gaps
    BY <1>4
  <2>2. Trusted(v) /\ ~Changes /\ Sure' \in SUBSET Sure
    BY <1>4
  <2>3. Shows(v, fetches[v].got, fetches[v].gaps, Sure)
    BY <2>1, <2>2 DEF CacheInv, FetchesFaithful, FetchFaithful, Fetching
  <2>4. fetches[v].got \in Seq(PageOf) /\ Descend(fetches[v].got, last)
    BY <2>1 DEF CacheInv, CacheOK, FetchesOK, Asked
  <2> QED BY <1>2, <2>1, <2>2, <2>3, <2>4 DEF Shows
<1>5. ASSUME NEW v \in View, fetches'[v] # NotFetching, ~fetches'[v].lost, ~fetches'[v].more
      PROVE  Shows(v, fetches[v].got, fetches[v].gaps, mine)'
  <2>1. CASE fetches'[v].got = <<>>
    BY <2>1, EmptyFaithful DEF Shows
  <2>2. CASE fetches'[v].got # <<>>
    <3>1. /\ fetches[v] # NotFetching /\ ~fetches[v].more /\ ~fetches[v].lost /\ mine' \in SUBSET mine
          /\ fetches'[v].got = fetches[v].got /\ fetches'[v].gaps = fetches[v].gaps
      BY <1>5, <2>2
    <3>2. Shows(v, fetches[v].got, fetches[v].gaps, mine)
      BY <3>1 DEF CacheInv, FetchesFaithful, FetchFaithful, Fetching
    <3>3. fetches[v].got \in Seq(PageOf) /\ Descend(fetches[v].got, last)
      BY <3>1 DEF CacheInv, CacheOK, FetchesOK, Asked
    <3> QED BY <1>2, <3>1, <3>2, <3>3 DEF Shows
  <2> QED BY <2>1, <2>2
<1>6. ASSUME NEW v \in View, fetches'[v] # NotFetching, fetches'[v].more \/ Loaded(fetches'[v].before)
      PROVE  Loaded(list'[v])
  <2>1. CASE /\ ~fetches'[v].more /\ fetches'[v].got = <<>>
             /\ fetches'[v].before = Content(list'[v])
    BY <1>6, <2>1 DEF Content, Loaded
  <2>2. CASE /\ fetches[v] # NotFetching /\ (fetches'[v].more <=> fetches[v].more)
             /\ Loaded(list[v]) => Loaded(list'[v])
             /\ \/ fetches'[v].before = fetches[v].before
                \/ Changes' /\ fetches'[v].before.pages = list'[v].pages
    <3>1. CASE fetches'[v].before = fetches[v].before
      <4>1. fetches[v].more \/ Loaded(fetches[v].before)
        BY <1>6, <2>2, <3>1
      <4> QED BY <2>2, <4>1 DEF CacheInv, MoreLoaded, Fetching
    <3>2. CASE fetches'[v].before.pages = list'[v].pages
      <4>1. CASE Loaded(fetches'[v].before)
        BY <3>2, <4>1 DEF Loaded
      <4>2. CASE fetches'[v].more
        BY <2>2, <4>2 DEF CacheInv, MoreLoaded, Fetching
      <4> QED BY <1>6, <4>1, <4>2
    <3> QED BY <2>2, <3>1, <3>2
  <2> QED BY <1>6, <2>1, <2>2
<1>7. Erased' \intersect posts' = {}
  <2>1. last + 1 \notin Erased
    <3>1. ASSUME NEW m \in Req PROVE mut[m].post # last + 1
      <4>1. mut[m].post \in 0..MaxPost /\ mut[m].post <= last
        BY DEF CacheInv, CacheOK, MutationsOK, MutationOK, Mutation
      <4> QED BY <1>1, <4>1
    <3> QED BY <3>1 DEF Erased
  <2> QED BY <2>1 DEF CacheInv, ErasedGone
<1>8. ASSUME NEW v \in View, fetches'[v] # NotFetching, Unmarked(fetches'[v].before), Trusted(v)', ~Changes'
      PROVE  Shows(v, fetches[v].before.pages, list[v].gaps, Sure)'
  <2>1. CASE fetches'[v].before.pages = list'[v].pages
    BY <1>3, <1>8, <2>1 DEF Shows
  <2>2. CASE fetches'[v].before.pages # list'[v].pages
    <3>1. fetches[v] # NotFetching /\ fetches'[v].before = fetches[v].before
      <4>1. fetches'[v].before # Content(list'[v])
        BY <2>2 DEF Content
      <4> QED BY <1>8, <2>2, <4>1
    <3>2. Trusted(v) /\ ~Changes /\ list'[v].gaps = list[v].gaps /\ Sure' \in SUBSET Sure
      BY <1>8
    <3>3. Shows(v, fetches[v].before.pages, list[v].gaps, Sure)
      BY <1>8, <3>1, <3>2 DEF CacheInv, BeforesFaithful, BeforeFaithful, Fetching, Unmarked, Loaded
    <3>4. fetches[v].before.pages \in Seq(PageOf) /\ Descend(fetches[v].before.pages, last)
      BY <3>1 DEF CacheInv, CacheOK, FetchesOK, Asked, Contents
    <3> QED BY <1>2, <3>1, <3>2, <3>3, <3>4 DEF Shows
  <2> QED BY <2>1, <2>2
<1>9. ListsFaithful'
  BY <1>3 DEF ListsFaithful
<1>10. FetchesFaithful'
  BY <1>4, <1>5 DEF FetchesFaithful, FetchFaithful, Fetching
<1>11. BeforesFaithful'
  BY <1>8 DEF BeforesFaithful, BeforeFaithful, Fetching
<1>12. MoreLoaded' /\ ErasedGone'
  BY <1>6, <1>7 DEF MoreLoaded, ErasedGone, Fetching
<1> QED BY <1>9, <1>10, <1>11, <1>12 DEF CacheInv

\* A step that leaves the lists and the database as they are and begins no fetch.
LEMMA SameLists ==
    ASSUME UNCHANGED list, Sure' \subseteq Sure, NEW v \in View, Trusted(v)'
    PROVE  /\ Trusted(v) /\ list'[v].pages = list[v].pages /\ list'[v].gaps = list[v].gaps
           /\ Sure' \subseteq Sure
BY DEF Trusted, Loaded

\* The mutations are the same but for what no property reads.
LEMMA SameMutations ==
    ASSUME \A m \in Req : /\ mut'[m].kind = mut[m].kind /\ mut'[m].post = mut[m].post
                          /\ mut'[m].stage = mut[m].stage
    PROVE  (Changes' <=> Changes) /\ Erased' = Erased /\ Doubted' = Doubted
<1>1. Changes' <=> Changes
  BY DEF Changes, Changing
<1>2. Erased' = Erased
  BY DEF Erased, Erases
<1>3. Doubted' = Doubted
  BY DEF Doubted, Doubts
<1> QED BY <1>1, <1>2, <1>3

LEMMA MountInv == ASSUME CacheInv, CacheOK', NEW v \in View, Mount(v) PROVE CacheInv'
<1>1. UNCHANGED <<posts, mine, hidden, mark, last, list>>
  BY DEF Mount, server
<1>2. \A m \in Req : /\ mut'[m].kind = mut[m].kind /\ mut'[m].post = mut[m].post
                     /\ mut'[m].stage = mut[m].stage
  <2>1. ASSUME NEW m \in Req
        PROVE  LET r == [mut[m] EXCEPT !.card = FALSE]
               IN  r.kind = mut[m].kind /\ r.post = mut[m].post /\ r.stage = mut[m].stage
    <3>1. mut[m] \in Mutation
      BY DEF CacheInv, CacheOK, MutationsOK
    <3> QED BY <3>1 DEF Mutation
  <2> QED BY <2>1 DEF Mount
<1>3. (Changes' <=> Changes) /\ Erased' = Erased /\ Doubted' = Doubted
  BY <1>2, SameMutations
<1>4. Sure' \subseteq Sure
  BY <1>1, <1>3 DEF Sure
<1>5. ASSUME NEW w \in View
      PROVE  \/ fetches'[w] = fetches[w]
             \/ fetches'[w].got = <<>> /\ ~fetches'[w].more /\ fetches'[w].before = Content(list'[w])
  <2>1. list[v] \in Cached /\ fetches \in [View -> Asked \union {NotFetching}]
    BY DEF CacheInv, CacheOK, ListsOK, FetchesOK
  <2>2. /\ Refetch(list[v]).got = <<>> /\ ~Refetch(list[v]).more
        /\ Refetch(list[v]).before = Content(list[v])
    BY <2>1, AskedOK
  <2> QED BY <1>1, <2>1, <2>2 DEF Mount
<1> QED BY <1>1, <1>3, <1>4, <1>5, SameLists, QuietStep

LEMMA CollectInv == ASSUME CacheInv, CacheOK', NEW v \in View, Collect(v) PROVE CacheInv'
<1>1. UNCHANGED <<posts, mine, hidden, mark, last, mut, fetches>>
  BY DEF Collect, server
<1>2. (Changes' <=> Changes) /\ Erased' = Erased /\ Doubted' = Doubted
  BY <1>1 DEF Changes, Erased, Doubted
<1>3. \A w \in View : w # v => list'[w] = list[w]
  BY DEF Collect, CacheInv, CacheOK, ListsOK
<1>4. ~Loaded(list'[v]) /\ ~Fetching(v)
  BY DEF Collect, CacheInv, CacheOK, ListsOK, Loaded, NoList
<1>5. \A w \in View : Trusted(w)' => /\ Trusted(w) /\ list'[w].pages = list[w].pages
                                     /\ list'[w].gaps = list[w].gaps /\ Sure' \subseteq Sure
  BY <1>1, <1>2, <1>3, <1>4 DEF Trusted, Loaded, Sure
<1>6. \A w \in View : fetches'[w] # NotFetching =>
          /\ fetches[w] # NotFetching /\ fetches'[w] = fetches[w] /\ mine' \subseteq mine
          /\ Loaded(list[w]) => Loaded(list'[w])
  BY <1>1, <1>3, <1>4 DEF Fetching
<1> QED BY <1>1, <1>2, <1>5, <1>6, QuietStep

LEMMA PageFailsInv == ASSUME CacheInv, CacheOK', NEW v \in View, PageFails(v) PROVE CacheInv'
<1>1. UNCHANGED <<posts, mine, hidden, mark, last, mut, list>>
  BY DEF PageFails, server
<1>2. (Changes' <=> Changes) /\ Erased' = Erased /\ Doubted' = Doubted
  BY <1>1 DEF Changes, Erased, Doubted
<1>3. Sure' \subseteq Sure
  BY <1>1, <1>2 DEF Sure
<1>4. \A w \in View : fetches'[w] # NotFetching => fetches'[w] = fetches[w]
  BY DEF PageFails, CacheInv, CacheOK, FetchesOK
<1> QED BY <1>1, <1>2, <1>3, <1>4, SameLists, QuietStep

\* A mutation that begins erases nothing yet and leaves no doubt.
LEMMA BeginsQuietly ==
    ASSUME CacheInv, NEW m \in Req, mut[m].stage = "idle", NEW k, NEW p, NEW snap, Become(m, k, p, snap)
    PROVE  /\ Erased' \subseteq Erased /\ Doubted \subseteq Doubted'
           /\ ~Changes' => ~Changes
           /\ k \in Reaction \union {"delete"} => Changes'
<1> DEFINE x == [kind |-> k, post |-> p, stage |-> "sent", card |-> k \in Reaction, snap |-> snap]
<1>1. mut' = [mut EXCEPT ![m] = x]
  BY DEF Become
<1>2. x.kind = k /\ x.stage = "sent"
  OBVIOUS
<1>3. mut[m].kind = "follow"
  BY DEF CacheInv, CacheOK, MutationsOK, MutationOK
<1> HIDE DEF x
<1>4. ~Erases(x) /\ ~Changing(mut[m]) /\ ~Doubts(mut[m]) /\ (k \in Reaction \union {"delete"} => Changing(x))
  BY <1>2, <1>3, PageCacheAssumption DEF Erases, Changing, Doubts
<1> QED BY <1>1, <1>4, MutationAfter DEF CacheInv

LEMMA CancelledAre ==
    ASSUME NEW views, fetches' = Cancelled(views), NEW v \in View, fetches'[v] # NotFetching
    PROVE  fetches'[v] = fetches[v] /\ v \notin views
BY DEF Cancelled

LEMMA ReactInv == ASSUME CacheInv, CacheOK', NEW m \in Req, React(m) PROVE CacheInv'
<1>1. /\ UNCHANGED <<posts, mine, hidden, mark, last>> /\ mut[m].stage = "idle"
      /\ \A v \in View : fetches'[v] = NotFetching
  BY CancelledAre DEF React, server
<1>2. Changes' /\ Erased' \subseteq Erased
  BY <1>1, BeginsQuietly DEF React
<1> QED BY <1>1, <1>2, QuietStep

LEMMA DeleteInv == ASSUME CacheInv, CacheOK', NEW m \in Req, Delete(m) PROVE CacheInv'
<1>1. /\ UNCHANGED <<posts, mine, hidden, mark, last>> /\ mut[m].stage = "idle"
      /\ fetches' = Cancelled({"newsfeed"})
  BY DEF Delete, server
<1>2. Changes' /\ Erased' \subseteq Erased
  BY <1>1, BeginsQuietly DEF Delete
<1>3. \A v \in View : v # "newsfeed" => list'[v] = list[v]
  BY DEF Delete, CacheInv, CacheOK, ListsOK
<1>4. \A v \in View : fetches'[v] # NotFetching => fetches'[v] = fetches[v] /\ list'[v] = list[v]
  BY <1>1, <1>3, CancelledAre
<1> QED BY <1>1, <1>2, <1>4, QuietStep

\* A list that can be trusted after its fetch has been cancelled could be before, and
\* what it goes back to was fresh.
LEMMA RevertedTrust ==
    ASSUME CacheInv, NEW views, NEW v \in View,
           LET l == Reverted(views)[v] IN Loaded(l) /\ ~l.stale /\ ~l.lost
    PROVE  /\ Trusted(v) /\ Reverted(views)[v].gaps = list[v].gaps
           /\ \/ Reverted(views)[v].pages = list[v].pages
              \/ /\ Fetching(v) /\ Unmarked(fetches[v].before)
                 /\ Reverted(views)[v].pages = fetches[v].before.pages
<1> DEFINE l == Reverted(views)[v]
           before == fetches[v].before
<1>1. /\ l.gaps = list[v].gaps
      /\ \/ l = list[v]
         \/ /\ Fetching(v) /\ l.pages = before.pages /\ (l.stale <=> before.stale)
            /\ l.lost <=> list[v].lost \/ (list[v].stale /\ ~before.stale)
  BY RevertedAre DEF CacheInv
<1> HIDE DEF l
<1>2. Loaded(l) /\ ~l.stale /\ ~l.lost
  BY DEF l
<1>3. CASE l = list[v]
  BY <1>1, <1>2, <1>3 DEF Trusted, l
<1>4. CASE l # list[v]
  <2>1. /\ Fetching(v) /\ l.pages = before.pages /\ ~before.stale
        /\ ~list[v].lost /\ ~list[v].stale
    BY <1>1, <1>2, <1>4
  <2>2. Loaded(before)
    BY <1>2, <2>1 DEF Loaded
  <2>3. Loaded(list[v])
    BY <2>1, <2>2 DEF CacheInv, MoreLoaded
  <2> QED BY <1>1, <2>1, <2>2, <2>3 DEF Trusted, Unmarked, l
<1> QED BY <1>3, <1>4

LEMMA CreateFollowInv ==
    ASSUME CacheInv, CacheOK', NEW m \in Req, CreatePost(m) \/ Follow(m) PROVE CacheInv'
<1>1. /\ UNCHANGED <<posts, mine, hidden, mark, last>> /\ mut[m].stage = "idle"
      /\ Become(m, "create", 0, NoSnap) \/ Become(m, "follow", 0, NoSnap)
  BY DEF CreatePost, Follow, server
<1>2. (~Changes' => ~Changes) /\ Erased' \subseteq Erased /\ Doubted \subseteq Doubted'
  BY <1>1, BeginsQuietly
<1>3. Sure' \subseteq Sure
  BY <1>1, <1>2 DEF Sure
<1>4. CASE CreatePost(m)
  <2>1. UNCHANGED <<list, fetches>>
    BY <1>4 DEF CreatePost
  <2> QED BY <1>1, <1>2, <1>3, <2>1, SameLists, QuietStep
<1>5. CASE Follow(m)
  <2> DEFINE views == {"newsfeed"}
  <2>1. list' = Reverted(views) /\ fetches' = Cancelled(views)
    BY <1>5 DEF Follow
  <2> HIDE DEF views
  <2>2. ASSUME NEW v \in View, Trusted(v)'
        PROVE  /\ Trusted(v) /\ list'[v].gaps = list[v].gaps
               /\ \/ list'[v].pages = list[v].pages
                  \/ /\ Fetching(v) /\ Unmarked(fetches[v].before)
                     /\ list'[v].pages = fetches[v].before.pages
    BY <2>1, <2>2, RevertedTrust DEF Trusted
  <2>3. ASSUME NEW v \in View, fetches'[v] # NotFetching
        PROVE  fetches'[v] = fetches[v] /\ list'[v] = list[v]
    BY <2>1, <2>3, CancelledAre DEF Reverted
  <2> QED BY <1>1, <1>2, <1>3, <2>2, <2>3, QuietStep
<1> QED BY <1>4, <1>5

\* Pages read before a change are marked as such.
LEMMA CrossedAre ==
    ASSUME CacheOK, fetches' = Crossed, NEW v \in View, fetches'[v] # NotFetching
    PROVE  /\ fetches[v] # NotFetching /\ (fetches'[v].more <=> fetches[v].more)
           /\ fetches'[v].before = fetches[v].before
           /\ ~fetches'[v].lost => /\ fetches'[v] = fetches[v]
                                   /\ fetches[v].more \/ fetches[v].got = <<>>
<1>1. fetches'[v] = IF HasRead(fetches[v]) THEN [fetches[v] EXCEPT !.lost = TRUE] ELSE fetches[v]
  BY DEF Crossed
<1>2. fetches[v] # NotFetching
  BY <1>1 DEF HasRead
<1>3. fetches[v] \in Asked
  BY <1>2 DEF CacheOK, FetchesOK
<1>4. CASE HasRead(fetches[v])
  <2>1. /\ fetches'[v].lost /\ (fetches'[v].more <=> fetches[v].more)
        /\ fetches'[v].before = fetches[v].before
    BY <1>1, <1>3, <1>4 DEF Asked
  <2> QED BY <1>2, <2>1
<1>5. CASE ~HasRead(fetches[v])
  <2>1. fetches[v].more \/ fetches[v].got = <<>>
    BY <1>2, <1>5 DEF HasRead
  <2> QED BY <1>1, <1>2, <1>5, <2>1
<1> QED BY <1>4, <1>5

LEMMA CommitInv == ASSUME CacheInv, CacheOK', NEW m \in Req, Commit(m) PROVE CacheInv'
<1> DEFINE p == IF mut[m].kind = "create" THEN last' ELSE mut[m].post
           x == [mut[m] EXCEPT !.stage = "ok", !.post = p]
<1>1. /\ UNCHANGED <<list, mounted>> /\ fetches' = Crossed /\ mut[m].stage = "sent"
      /\ mut[m] \in Mutation /\ last \in Nat
  BY LastIsNat DEF Commit, CacheInv, CacheOK, MutationsOK
<1>2. mut' = [mut EXCEPT ![m] = x]
  BY DEF Commit, CacheInv, CacheOK, MutationsOK
<1>3. x.stage = "ok" /\ x.kind = mut[m].kind /\ x.post = p
  <2> HIDE DEF p
  <2> QED BY <1>1 DEF Mutation
<1>4. CASE Toggle(m) \/ Erase(m)
  <2>1. mut[m].kind \in Reaction \union {"delete"} /\ p = mut[m].post
    BY <1>4, PageCacheAssumption DEF Toggle, Erase
  <2> HIDE DEF x, p
  <2>2. Changes'
    BY <1>2, <1>3, <2>1, MutationAfter DEF Changing, CacheInv
  <2>3. Erased' \intersect posts' = {}
    <3>1. CASE Toggle(m)
      <4>1. ~Erases(x) /\ posts' = posts
        BY <1>3, <3>1, PageCacheAssumption DEF Toggle, Erases
      <4> QED BY <1>2, <4>1, MutationAfter DEF CacheInv, ErasedGone
    <3>2. CASE Erase(m)
      <4>1. Erased' \subseteq Erased \union {mut[m].post}
        BY <1>2, <1>3, <2>1, MutationAfter DEF CacheInv
      <4> QED BY <3>2, <4>1 DEF Erase, CacheInv, ErasedGone
    <3> QED BY <1>4, <3>1, <3>2
  <2>4. FetchesFaithful'
    <3>1. ASSUME NEW v \in View, fetches'[v] # NotFetching, ~fetches'[v].lost, ~fetches'[v].more
          PROVE  fetches'[v].got = <<>>
      BY <1>1, <3>1, CrossedAre DEF CacheInv
    <3>2. ASSUME NEW v \in View, fetches'[v] # NotFetching, ~fetches'[v].lost, ~fetches'[v].more
          PROVE  Shows(v, fetches[v].got, fetches[v].gaps, mine)'
      BY <3>1, <3>2, EmptyFaithful DEF Shows
    <3> QED BY <2>2, <3>2 DEF FetchesFaithful, FetchFaithful, Fetching
  <2>5. MoreLoaded'
    BY <1>1, CrossedAre DEF MoreLoaded, CacheInv, Fetching
  <2> QED BY <2>2, <2>3, <2>4, <2>5
          DEF CacheInv, ListsFaithful, BeforesFaithful, BeforeFaithful, ErasedGone
<1>5. CASE Add(m) \/ (mut[m].kind = "follow" /\ UNCHANGED server)
  <2>1. /\ posts' \in SUBSET (posts \union {last + 1}) /\ mine' \in SUBSET (mine \union {last + 1})
        /\ mark' = mark /\ mut[m].kind \in {"create", "follow"}
        /\ mut[m].kind = "create" => last' = last + 1
        /\ mut[m].kind = "follow" => mine' = mine
        /\ hidden' = hidden
    BY <1>5 DEF Add, server
  <2>2. mut[m].kind = "create" => p = last + 1
    BY <2>1
  <2> HIDE DEF x, p
  <2>3. ~Erases(x) /\ ~Changing(mut[m]) /\ ~Doubts(mut[m])
    BY <1>1, <1>3, <2>1, PageCacheAssumption DEF Erases, Changing, Doubts
  <2>4. Erased' \subseteq Erased /\ (~Changes' => ~Changes) /\ Doubted \subseteq Doubted'
    BY <1>2, <2>3, MutationAfter DEF CacheInv
  <2>5. mut[m].kind = "create" => last + 1 \in Doubted'
    BY <1>2, <1>3, <2>2, MutationAfter DEF CacheInv, Doubts
  <2>6. Sure' \subseteq Sure
    BY <2>1, <2>4, <2>5 DEF Sure
  <2>7. UNCHANGED list
    BY <1>1
  <2>8. ASSUME NEW v \in View, fetches'[v] # NotFetching
        PROVE  /\ fetches[v] # NotFetching /\ (fetches'[v].more <=> fetches[v].more)
               /\ Loaded(list[v]) => Loaded(list'[v])
               /\ fetches'[v].before = fetches[v].before
               /\ \/ fetches'[v].lost
                  \/ fetches'[v] = fetches[v] /\ (fetches[v].more \/ fetches[v].got = <<>>)
    <3>1. /\ fetches[v] # NotFetching /\ (fetches'[v].more <=> fetches[v].more)
          /\ fetches'[v].before = fetches[v].before
          /\ ~fetches'[v].lost => /\ fetches'[v] = fetches[v]
                                  /\ fetches[v].more \/ fetches[v].got = <<>>
      BY <1>1, <2>8, CrossedAre DEF CacheInv
    <3>2. Loaded(list[v]) => Loaded(list'[v])
      BY <1>1
    <3> QED BY <3>1, <3>2
  <2> QED BY <2>1, <2>4, <2>6, <2>7, <2>8, SameLists, QuietStep
<1> QED BY <1>4, <1>5 DEF Commit

LEMMA FailInv == ASSUME CacheInv, CacheOK', NEW m \in Req, Fail(m) PROVE CacheInv'
<1> DEFINE x == [mut[m] EXCEPT !.stage = "failed"]
<1>1. UNCHANGED <<posts, mine, hidden, mark, last, list, fetches>> /\ mut[m].stage \in {"sent", "ok"}
  BY DEF Fail, server
<1>2. mut' = [mut EXCEPT ![m] = x] /\ mut[m] \in Mutation
  BY DEF Fail, CacheInv, CacheOK, MutationsOK
<1>3. x.stage = "failed" /\ x.kind = mut[m].kind /\ x.post = mut[m].post
  BY <1>2 DEF Mutation
<1> HIDE DEF x
<1>4. /\ ~Erases(x) /\ (Changing(mut[m]) => Changing(x))
      /\ (Doubts(mut[m]) => Doubts(x))
  BY <1>1, <1>3 DEF Erases, Changing, Doubts
<1>5. Erased' \subseteq Erased /\ (~Changes' => ~Changes) /\ Doubted \subseteq Doubted'
  BY <1>2, <1>3, <1>4, MutationAfter DEF CacheInv
<1>6. Sure' \subseteq Sure
  BY <1>1, <1>5 DEF Sure
<1> QED BY <1>1, <1>5, <1>6, SameLists, QuietStep

\* A mutation that is forgotten has erased nothing and leaves no doubt.
LEMMA ForgottenAre ==
    ASSUME CacheInv, NEW m \in Req, mut[m].kind # "create", NEW s \in {"settled", "done"}, Forget(m, s)
    PROVE  /\ Erased' \subseteq Erased /\ Doubted \subseteq Doubted'
           /\ s = "settled" => Changes'
<1> DEFINE x == [Idle EXCEPT !.stage = s]
<1>1. mut' = [mut EXCEPT ![m] = x]
  BY DEF Forget
<1>2. x.kind = "follow" /\ x.stage = s
  <2>1. s \in Stage /\ last \in Nat
    BY LastIsNat DEF Stage, CacheInv, CacheOK
  <2> QED BY <2>1, IdleIsOK
<1> HIDE DEF x
<1>3. ~Erases(x) /\ ~Doubts(mut[m]) /\ (s = "settled" => Changing(x))
  BY <1>2 DEF Erases, Doubts, Changing
<1> QED BY <1>1, <1>3, MutationAfter DEF CacheInv

LEMMA ReactionEndsInv == ASSUME CacheInv, CacheOK', NEW m \in Req, ReactionEnds(m) PROVE CacheInv'
<1>1. UNCHANGED <<posts, mine, hidden, mark, last>> /\ mut[m].kind # "create"
  BY PageCacheAssumption DEF ReactionEnds, server
<1>2. Erased' \subseteq Erased /\ Changes'
  BY <1>1, ForgottenAre DEF ReactionEnds
<1>3. \A v \in View : Loaded(list[v]) => Loaded(list'[v])
  <2>1. CASE UNCHANGED list
    BY <2>1
  <2>2. CASE list' = RolledBack(m)
    <3>1. ASSUME NEW v \in View, Loaded(list[v]) PROVE Loaded(list'[v])
      <4>1. list[v] \in Cached
        BY DEF CacheInv, CacheOK, ListsOK
      <4>2. list'[v] = IF mut[m].snap[v] = <<>> THEN list[v]
                       ELSE [list[v] EXCEPT !.pages = mut[m].snap[v], !.stale = FALSE]
        BY <2>2 DEF RolledBack
      <4> QED BY <3>1, <4>1, <4>2 DEF Cached, Loaded
    <3> QED BY <3>1
  <2> QED BY <2>1, <2>2 DEF ReactionEnds
<1>4. ASSUME NEW v \in View, fetches'[v] # NotFetching
      PROVE  /\ fetches[v] # NotFetching
             /\ (fetches'[v].more <=> fetches[v].more) /\ (fetches'[v].lost <=> fetches[v].lost)
             /\ fetches'[v].got = fetches[v].got /\ fetches'[v].gaps = fetches[v].gaps
             /\ \/ fetches'[v].before = fetches[v].before
                \/ fetches'[v].before.pages = list'[v].pages
  <2>1. CASE UNCHANGED fetches
    BY <1>4, <2>1
  <2>2. CASE fetches' = Kept(list')
    <3>1. ListsOK(list', last)
      BY <1>1 DEF CacheOK
    <3> QED BY <1>4, <2>2, <3>1, KeptOK DEF CacheInv, Fetching
  <2> QED BY <2>1, <2>2 DEF ReactionEnds
<1> QED BY <1>1, <1>2, <1>3, <1>4, QuietStep

LEMMA TimerInv == ASSUME CacheInv, CacheOK', NEW m \in Req, Timer(m) PROVE CacheInv'
<1>1. /\ UNCHANGED <<posts, mine, hidden, mark, last, fetches>> /\ mut[m].kind = "follow"
      /\ list' = Invalidated(list, View) /\ mut[m].stage = "settled"
  BY DEF Timer, server, CacheInv, CacheOK, MutationsOK, MutationOK
<1>2. Erased' \subseteq Erased
  BY <1>1, ForgottenAre DEF Timer
<1>3. \A v \in View : list'[v].pages = list[v].pages /\ list'[v].stale = Loaded(list[v])
  BY <1>1, InvalidatedOK DEF CacheInv
<1>4. ASSUME NEW v \in View PROVE ~Trusted(v)' /\ (Loaded(list[v]) => Loaded(list'[v]))
  <2>1. Loaded(list'[v]) <=> Loaded(list[v])
    BY <1>3 DEF Loaded
  <2>2. Loaded(list[v]) => list'[v].stale
    BY <1>3
  <2> QED BY <2>1, <2>2 DEF Trusted
<1> QED BY <1>1, <1>2, <1>4, QuietStep

LEMMA EndsInv == ASSUME CacheInv, CacheOK', NEW m \in Req, Ends(m) PROVE CacheInv'
<1> DEFINE views == IF \/ mut[m].kind = "delete"
                       \/ mut[m].kind = "create" /\ mut[m].stage = "ok" THEN View
                    ELSE IF mut[m].stage = "ok" THEN {"newsfeed"} ELSE {}
           s == IF mut[m].stage = "ok" THEN "done" ELSE "lost"
           x == [mut[m] EXCEPT !.stage = s]
<1>1. /\ UNCHANGED <<posts, mine, hidden, mark, last>> /\ mut[m].stage \in {"ok", "failed"}
      /\ mut[m].kind \notin Reaction
      /\ list' = Invalidated(list, views) /\ fetches' = Refetched(fetches, views)
  BY DEF Ends, server
<1>2. mut' = [mut EXCEPT ![m] = x] /\ mut[m] \in Mutation
  BY DEF Ends, Goto, CacheInv, CacheOK, MutationsOK
<1>3. x.stage = s /\ x.kind = mut[m].kind /\ x.post = mut[m].post
  <2> HIDE DEF s
  <2> QED BY <1>2 DEF Mutation
<1>4. mut[m].kind \in {"delete", "create", "follow"}
  BY <1>1, <1>2 DEF Mutation, Kind
<1>5. mut[m].kind = "delete" \/ (mut[m].kind = "create" /\ mut[m].stage = "ok") => views = View
  OBVIOUS
<1> HIDE DEF x, views
<1>6. Erased' \subseteq Erased
  <2>1. Erases(x) => Erases(mut[m])
    BY <1>1, <1>3 DEF Erases
  <2> QED BY <1>2, <1>3, <2>1, MutationAfter DEF CacheInv
<1>7. \A v \in View : /\ list'[v].pages = list[v].pages /\ list'[v].lost = list[v].lost
                      /\ v \in views => list'[v].stale = Loaded(list[v])
                      /\ v \notin views => list'[v] = list[v]
  BY <1>1, InvalidatedOK DEF CacheInv
<1>8. ASSUME ~Changes', NEW v \in View, Trusted(v)'
      PROVE  ~Changes /\ Trusted(v) /\ list'[v] = list[v] /\ Sure' \subseteq Sure
  <2>1. Loaded(list'[v]) <=> Loaded(list[v])
    BY <1>7 DEF Loaded
  <2>2. v \notin views
    BY <1>7, <1>8, <2>1 DEF Trusted
  <2>3. /\ mut[m].kind \in {"create", "follow"} /\ (mut[m].kind = "create" => mut[m].stage = "failed")
        /\ list'[v] = list[v]
    BY <1>1, <1>4, <1>5, <1>7, <2>2
  <2>4. ~Changing(mut[m]) /\ (Doubts(mut[m]) => Doubts(x))
    BY <1>1, <1>3, <2>3 DEF Changing, Doubts
  <2>5. ~Changes /\ Doubted \subseteq Doubted'
    BY <1>2, <1>3, <1>8, <2>4, MutationAfter DEF CacheInv
  <2> QED BY <1>1, <1>8, <2>3, <2>5 DEF Trusted, Sure
<1>9. ASSUME NEW v \in View, fetches'[v] # NotFetching
      PROVE  \/ /\ ~fetches'[v].more /\ fetches'[v].got = <<>>
                /\ fetches'[v].before = Content(list'[v])
             \/ fetches'[v] = fetches[v] /\ (Loaded(list[v]) => Loaded(list'[v]))
  <2>1. \/ fetches'[v] = fetches[v]
        \/ /\ fetches'[v].got = <<>> /\ ~fetches'[v].more
           /\ fetches'[v].before = Content(list'[v])
    BY <1>1, RefetchedAre DEF CacheInv
  <2>2. Loaded(list'[v]) <=> Loaded(list[v])
    BY <1>7 DEF Loaded
  <2> QED BY <2>1, <2>2
<1> QED BY <1>1, <1>6, <1>8, <1>9, QuietStep

LEMMA OthersInv == ASSUME CacheInv, CacheOK', NEW m \in Req, Others(m) PROVE CacheInv'
<1> DEFINE x == [mut[m] EXCEPT !.stage = "done"]
<1>1. UNCHANGED <<mine, list, fetches>> /\ mut[m].stage = "idle" /\ (OthersPost \/ OthersDelete \/ OthersHide)
  BY DEF Others
<1>2. mut' = [mut EXCEPT ![m] = x] /\ mut[m] \in Mutation /\ mut[m].kind = "follow"
  BY DEF Others, CacheInv, CacheOK, MutationsOK, MutationOK
<1>3. x.stage = "done" /\ x.kind = "follow"
  BY <1>2 DEF Mutation
<1> HIDE DEF x
<1>4. ~Erases(x) /\ ~Changing(mut[m]) /\ ~Doubts(mut[m])
  BY <1>1, <1>2, <1>3, PageCacheAssumption DEF Erases, Changing, Doubts
<1>5. Erased' \subseteq Erased /\ (~Changes' => ~Changes) /\ Doubted \subseteq Doubted'
  BY <1>2, <1>4, MutationAfter DEF CacheInv
<1>6. /\ posts' \in SUBSET (posts \union {last + 1}) /\ hidden \intersect posts' \subseteq hidden'
      /\ \A p \in posts \intersect posts' : mark'[p] = mark[p]
  <2>1. CASE OthersPost
    BY <2>1 DEF OthersPost
  <2>2. CASE OthersDelete
    <3>1. PICK p \in posts \ mine :
            posts' = posts \ {p} /\ hidden' = hidden \ {p} /\ mark' = [mark EXCEPT ![p] = {}]
      BY <2>2 DEF OthersDelete
    <3>2. mark \in [PostId -> SUBSET Reaction]
      BY DEF CacheInv, CacheOK, ServerTypes
    <3> QED BY <3>1, <3>2
  <2>3. CASE OthersHide
    BY <2>3 DEF OthersHide
  <2> QED BY <1>1, <2>1, <2>2, <2>3
<1>7. Sure' \subseteq Sure
  BY <1>1, <1>5 DEF Sure
<1> QED BY <1>1, <1>5, <1>6, <1>7, SameLists, QuietStep

LEMMA ScrollInv == ASSUME CacheInv, CacheOK', Scroll PROVE CacheInv'
<1>1. /\ UNCHANGED <<posts, mine, hidden, mark, last, list, mut>> /\ HasNextPage(list[mounted])
      /\ fetches' = [fetches EXCEPT ![mounted] = NextPage(list[mounted])]
      /\ mounted \in View
  BY DEF Scroll, server, CacheInv, CacheOK
<1>2. (Changes' <=> Changes) /\ Erased' = Erased /\ Sure' = Sure /\ \A v \in View : Listed(v)' = Listed(v)
  BY <1>1 DEF Changes, Erased, Sure, Doubted, Listed
<1>3. \A v \in View : Trusted(v)' <=> Trusted(v)
  BY <1>1 DEF Trusted
<1>4. ListsFaithful'
  BY <1>1, <1>2, <1>3 DEF ListsFaithful, Shows, CacheInv
<1>5. list[mounted] \in Cached /\ DOMAIN fetches = View
  BY <1>1 DEF CacheInv, CacheOK, ListsOK, FetchesOK
<1>6. /\ fetches'[mounted].got = list[mounted].pages /\ fetches'[mounted].more
      /\ fetches'[mounted].gaps = list[mounted].gaps
      /\ fetches'[mounted].before.pages = list[mounted].pages
      /\ Loaded(list[mounted]) /\ \A v \in View : v # mounted => fetches'[v] = fetches[v]
  BY <1>1, <1>5, AskedOK DEF HasNextPage
<1>7. ASSUME NEW v \in View PROVE FetchFaithful(v)' /\ BeforeFaithful(v)'
  <2>1. CASE v = mounted
    BY <1>1, <1>2, <1>3, <1>6, <2>1 DEF FetchFaithful, BeforeFaithful, CacheInv, ListsFaithful, Shows
  <2>2. CASE v # mounted
    <3>1. FetchFaithful(v) /\ BeforeFaithful(v) /\ fetches'[v] = fetches[v]
      BY <1>6, <2>2 DEF CacheInv, FetchesFaithful, BeforesFaithful
    <3> QED BY <1>1, <1>2, <1>3, <3>1 DEF FetchFaithful, BeforeFaithful, Fetching, Shows
  <2> QED BY <2>1, <2>2
<1>8. MoreLoaded'
  BY <1>1, <1>6 DEF MoreLoaded, CacheInv, Fetching
<1>9. ErasedGone'
  BY <1>1, <1>2 DEF ErasedGone, CacheInv
<1> QED BY <1>4, <1>7, <1>8, <1>9 DEF CacheInv, FetchesFaithful, BeforesFaithful

LEMMA ServeInv == ASSUME CacheInv, CacheOK', NEW v \in View, Serve(v) PROVE CacheInv'
<1> DEFINE f == fetches[v]
           all == Append(f.got, Answer(v, Cursor(f.got)))
           gaps == f.gaps \union Missed(v, Cursor(f.got))
<1>1. /\ UNCHANGED <<posts, mine, hidden, mark, last, list, mut>> /\ Fetching(v) /\ ~Complete(f)
      /\ f \in Asked /\ Descend(f.got, last)
      /\ fetches' = [fetches EXCEPT ![v] = [f EXCEPT !.got = all, !.gaps = gaps]]
      /\ DOMAIN fetches = View
  BY DEF Serve, Cursor, server, CacheInv, CacheOK, FetchesOK, Fetching
<1>2. (Changes' <=> Changes) /\ Erased' = Erased /\ Sure' = Sure /\ \A w \in View : Listed(w)' = Listed(w)
  BY <1>1 DEF Changes, Erased, Sure, Doubted, Listed
<1>3. \A w \in View : Trusted(w)' <=> Trusted(w)
  BY <1>1 DEF Trusted
<1>4. ListsFaithful' /\ ErasedGone'
  BY <1>1, <1>2, <1>3 DEF ListsFaithful, Shows, ErasedGone, CacheInv
<1>5. f.got \in Seq(PageOf) /\ ~Ended(f.got) /\ ServerTypes /\ Erased \intersect posts = {} /\ Sure \in SUBSET mine
  BY <1>1 DEF Asked, Complete, Ended, CacheInv, CacheOK, ErasedGone, Sure
<1>6. ASSUME NEW told \in SUBSET mine, Shows(v, f.got, f.gaps, told)
      PROVE  Shows(v, all, gaps, told)
  BY <1>1, <1>5, <1>6, ServedFaithful DEF Shows
<1> HIDE DEF all, gaps
<1>7. /\ \A w \in View : w # v => fetches'[w] = fetches[w]
      /\ fetches'[v].got = all /\ fetches'[v].gaps = gaps /\ fetches'[v].before = f.before
      /\ (fetches'[v].more <=> f.more) /\ (fetches'[v].lost <=> f.lost)
  BY <1>1 DEF Asked
<1>8. ASSUME NEW w \in View PROVE FetchFaithful(w)'
  <2>1. FetchFaithful(w)
    BY DEF CacheInv, FetchesFaithful
  <2>2. CASE w = v
    <3>1. SUFFICES ASSUME ~f.lost
                   PROVE  IF f.more
                            THEN Trusted(v) /\ ~Changes => Shows(v, all, gaps, Sure)
                            ELSE Shows(v, all, gaps, mine)
      BY <1>1, <1>2, <1>3, <1>7, <2>2 DEF FetchFaithful, Shows
    <3>2. CASE f.more
      BY <1>1, <1>5, <1>6, <2>1, <2>2, <3>1, <3>2 DEF FetchFaithful
    <3>3. CASE ~f.more
      BY <1>1, <1>5, <1>6, <2>1, <2>2, <3>1, <3>3 DEF FetchFaithful
    <3> QED BY <3>2, <3>3
  <2>3. CASE w # v
    BY <1>1, <1>2, <1>3, <1>7, <2>1, <2>3 DEF FetchFaithful, Fetching, Shows
  <2> QED BY <2>2, <2>3
<1>9. ASSUME NEW w \in View PROVE BeforeFaithful(w)'
  <2>1. BeforeFaithful(w) /\ (fetches'[w] # NotFetching => fetches[w] # NotFetching /\ fetches'[w].before = fetches[w].before)
    BY <1>1, <1>7 DEF CacheInv, BeforesFaithful, Fetching
  <2> QED BY <1>1, <1>2, <1>3, <2>1 DEF BeforeFaithful, Fetching, Shows
<1>10. MoreLoaded'
  BY <1>1, <1>7 DEF MoreLoaded, CacheInv, Fetching
<1> QED BY <1>4, <1>8, <1>9, <1>10 DEF CacheInv, FetchesFaithful, BeforesFaithful

LEMMA PagesArriveInv == ASSUME CacheInv, CacheOK', NEW v \in View, PagesArrive(v) PROVE CacheInv'
<1> DEFINE f == fetches[v]
           lost == f.lost \/ (f.more /\ list[v].stale) \/ (f.more /\ list[v].lost)
<1>1. /\ UNCHANGED <<posts, mine, hidden, mark, last, mut>> /\ Fetching(v)
      /\ list' = [list EXCEPT ![v] = [pages |-> f.got, stale |-> FALSE, gaps |-> f.gaps, lost |-> lost]]
      /\ fetches' = [fetches EXCEPT ![v] = NotFetching]
      /\ DOMAIN fetches = View /\ DOMAIN list = View
      /\ f \in Asked /\ Descend(f.got, last)
  BY DEF PagesArrive, server, CacheInv, CacheOK, FetchesOK, ListsOK, Fetching
<1>2. (Changes' <=> Changes) /\ Erased' = Erased /\ Sure' = Sure /\ \A w \in View : Listed(w)' = Listed(w)
  BY <1>1 DEF Changes, Erased, Sure, Doubted, Listed
<1>3. /\ list'[v].pages = f.got /\ list'[v].gaps = f.gaps /\ (list'[v].lost <=> lost)
      /\ fetches'[v] = NotFetching
      /\ \A w \in View : w # v => list'[w] = list[w] /\ fetches'[w] = fetches[w]
  BY <1>1
<1>4. f.got \in Seq(PageOf) /\ last \in Nat
  BY <1>1, LastIsNat DEF Asked, CacheInv, CacheOK
<1>5. ASSUME ~Changes', Trusted(v)' PROVE Shows(v, f.got, f.gaps, Sure)
  <2>1. ~f.lost /\ (f.more => ~list[v].stale /\ ~list[v].lost) /\ FetchFaithful(v)
    BY <1>3, <1>5 DEF Trusted, CacheInv, FetchesFaithful
  <2>2. CASE f.more
    <3>1. Trusted(v) /\ ~Changes
      BY <1>1, <1>2, <1>5, <2>1, <2>2 DEF Trusted, CacheInv, MoreLoaded
    <3> QED BY <1>1, <2>1, <2>2, <3>1 DEF FetchFaithful
  <2>3. CASE ~f.more
    <3>1. Shows(v, f.got, f.gaps, mine)
      BY <1>1, <2>1, <2>3 DEF FetchFaithful
    <3>2. Sure \in SUBSET mine
      BY DEF Sure
    <3> HIDE DEF f
    <3> QED BY <1>1, <1>4, <3>1, <3>2, StillFaithful DEF Shows
  <2> QED BY <2>2, <2>3
<1>6. \A w \in View : w # v => (Trusted(w)' <=> Trusted(w))
  BY <1>3 DEF Trusted
<1>7. ASSUME ~Changes', NEW w \in View, Trusted(w)'
      PROVE  Shows(w, list[w].pages, list[w].gaps, Sure)'
  <2>1. CASE w = v
    BY <1>1, <1>2, <1>3, <1>5, <1>7, <2>1 DEF Shows
  <2>2. CASE w # v
    BY <1>1, <1>2, <1>3, <1>6, <1>7, <2>2 DEF CacheInv, ListsFaithful, Shows
  <2> QED BY <2>1, <2>2
<1>8. ListsFaithful'
  BY <1>7 DEF ListsFaithful
<1>9. ASSUME NEW w \in View PROVE FetchFaithful(w)' /\ BeforeFaithful(w)'
  <2>1. CASE w = v
    BY <1>3, <2>1 DEF FetchFaithful, BeforeFaithful, Fetching
  <2>2. CASE w # v
    <3>1. FetchFaithful(w) /\ BeforeFaithful(w) /\ fetches'[w] = fetches[w] /\ list'[w] = list[w]
      BY <1>3, <2>2 DEF CacheInv, FetchesFaithful, BeforesFaithful
    <3> QED BY <1>1, <1>2, <1>6, <2>2, <3>1 DEF FetchFaithful, BeforeFaithful, Fetching, Shows
  <2> QED BY <2>1, <2>2
<1>10. MoreLoaded'
  BY <1>3 DEF MoreLoaded, CacheInv, Fetching
<1>11. ErasedGone'
  BY <1>1, <1>2 DEF ErasedGone, CacheInv
<1> QED BY <1>8, <1>9, <1>10, <1>11 DEF CacheInv, FetchesFaithful, BeforesFaithful

LEMMA InitCacheInv == CacheInit => CacheInv
<1> SUFFICES ASSUME CacheInit PROVE CacheInv
  OBVIOUS
<1>1. CacheOK
  BY InitCacheOK
<1>2. \A v \in View : ~Loaded(list[v])
  BY DEF CacheInit, Loaded, NoList
<1>3. \A v \in View : Fetching(v) => /\ fetches[v].got = <<>> /\ ~fetches[v].more
                                     /\ ~Loaded(fetches[v].before)
  <2>1. NoList \in Cached
    BY EmptySeq DEF NoList, Cached
  <2>2. Refetch(NoList).got = <<>> /\ ~Refetch(NoList).more /\ ~Loaded(Refetch(NoList).before)
    BY <2>1, AskedOK DEF NoList, Loaded
  <2> QED BY <2>2 DEF CacheInit, Fetching
<1>4. Erased = {}
  <2>1. \A m \in Req : mut[m].stage = "idle"
    BY DEF CacheInit, Idle
  <2> QED BY <2>1 DEF Erased, Erases
<1>5. ListsFaithful /\ FetchesFaithful /\ BeforesFaithful /\ MoreLoaded /\ ErasedGone
  BY <1>2, <1>3, <1>4, EmptyFaithful
     DEF ListsFaithful, Trusted, FetchesFaithful, FetchFaithful, Shows, BeforesFaithful,
         BeforeFaithful, Unmarked, MoreLoaded, ErasedGone
<1> QED BY <1>1, <1>5 DEF CacheInv

LEMMA CacheInvStep == CacheInv /\ [CacheNext]_cacheVars => CacheInv'
<1> SUFFICES ASSUME CacheInv, [CacheNext]_cacheVars PROVE CacheInv'
  OBVIOUS
<1>1. CacheOK'
  BY CacheOKStep DEF CacheInv
<1>2. ASSUME NEW v \in View, Mount(v) \/ Collect(v) \/ FetchStep(v) PROVE CacheInv'
  BY <1>1, <1>2, MountInv, CollectInv, ServeInv, PagesArriveInv, PageFailsInv DEF FetchStep
<1>3. ASSUME NEW m \in Req, Mutate(m) \/ Proceed(m) \/ Others(m) PROVE CacheInv'
  BY <1>1, <1>3, ReactInv, DeleteInv, CreateFollowInv, CommitInv, FailInv, ReactionEndsInv, TimerInv,
     EndsInv, OthersInv DEF Mutate, Proceed
<1>4. CASE UNCHANGED cacheVars
  <2>1. UNCHANGED <<posts, mine, hidden, mark, last, list, fetches, mut>>
    BY <1>4 DEF cacheVars
  <2>2. (Changes' <=> Changes) /\ Erased' = Erased /\ Sure' = Sure
    BY <2>1 DEF Changes, Erased, Sure, Doubted
  <2> QED BY <1>1, <2>1, <2>2, SameLists, QuietStep
<1> QED BY <1>1, <1>2, <1>3, <1>4, ScrollInv DEF CacheNext

LEMMA CacheInvariance == CacheSpec => []CacheInv
BY InitCacheInv, CacheInvStep, PTL DEF CacheSpec

LEMMA RestIsSettled ==
    ASSUME NothingPending
    PROVE  ~Changes /\ Told \subseteq Sure
<1>1. \A m \in Req : mut[m].stage \in {"idle", "done", "lost"}
  BY DEF NothingPending
<1>2. ~Changes
  BY <1>1 DEF Changes, Changing
<1>3. Told \subseteq Sure
  BY <1>1 DEF Told, Sure, Doubted, Doubts
<1> QED BY <1>2, <1>3

\* What lies between two posts of a list is not below its cursor.
LEMMA BetweenIsShown ==
    ASSUME CacheInv, NEW v \in View, NothingPending, Trusted(v),
           NEW p \in Listed(v), \E q \in Shown(v) : q > p,
           (\E q \in Shown(v) : q < p) \/ Last(list[v].pages).next = End
    PROVE  p \in Shown(v) \union list[v].gaps
<1> DEFINE pages == list[v].pages
<1>1. /\ Shows(v, pages, list[v].gaps, Sure) /\ pages # <<>>
      /\ pages \in Seq(PageOf) /\ Descend(pages, last)
  BY RestIsSettled DEF CacheInv, ListsFaithful, Trusted, Loaded, CacheOK, ListsOK, Cached
<1>2. Joins(pages, list[v].gaps, Listed(v)) /\ Shown(v) = Ids(pages)
  BY <1>1 DEF Shows, Faithful, Shown
<1>3. p \in 1..last /\ last \in Nat
  BY ListedAre, LastIsNat DEF CacheInv, CacheOK, ServerTypes
<1>4. Last(pages).next = End \/ p >= Last(pages).next
  <2>1. ASSUME NEW q \in Ids(pages), q < p, Last(pages).next # End PROVE p >= Last(pages).next
    <3>1. Last(pages).next \in 0..MaxPost /\ MaxPost \in Nat
      BY <1>1, LastOf, PageCacheAssumption DEF PageOf
    <3>2. q >= Last(pages).next /\ q \in 1..last
      BY <1>1, <2>1 DEF Descend
    <3> HIDE DEF pages
    <3> QED BY <1>3, <2>1, <3>1, <3>2
  <2> QED BY <1>2, <2>1
<1> QED BY <1>2, <1>4 DEF Joins

\* The pages of a list go from the newest post to the oldest without an overlap
\* (useNewsfeed, useUserPosts), and at rest a list that can be trusted has no gap but what
\* a cursor that had been deleted or soft-deleted cost it: for any number of posts and any
\* limit, whatever is created, deleted, soft-deleted and refetched between the fetches of
\* two pages.
THEOREM PagesAreInOrder == CacheSpec => []PagesJoin
<1>1. CacheInv => PagesJoin
  <2> SUFFICES ASSUME CacheInv, NEW v \in View
               PROVE  /\ \A i, j \in DOMAIN list[v].pages : i < j =>
                           \A p \in DOMAIN list[v].pages[i].rows, q \in DOMAIN list[v].pages[j].rows : p > q
                      /\ NothingPending /\ Trusted(v) =>
                           \A p \in Listed(v) :
                               /\ \E q \in Shown(v) : q > p
                               /\ (\E q \in Shown(v) : q < p) \/ Last(list[v].pages).next = End
                               => p \in Shown(v) \union list[v].gaps
    BY DEF PagesJoin
  <2>1. Descend(list[v].pages, last)
    BY DEF CacheInv, CacheOK, ListsOK
  <2> QED BY <2>1, BetweenIsShown DEF Descend
<1> QED BY <1>1, CacheInvariance, PTL

\* What the user has done is what a trusted list shows at rest: the reactions as the
\* database has them, nothing that was deleted, and what was posted since, but for such a
\* gap (useLikePost, useRepost, useDeletePost, usePost), for any number of mutations that
\* overlap, are rolled back over each other or lose their answers, and whose cancelled
\* fetches put back what was cached before.
THEOREM OwnChangesAreShown == CacheSpec => []OwnChangesShown
<1>1. CacheInv => OwnChangesShown
  <2> SUFFICES ASSUME CacheInv, NothingPending, NEW v \in View, Trusted(v)
               PROVE  /\ v = "newsfeed" =>
                           \A i \in DOMAIN list[v].pages : \A p \in DOMAIN list[v].pages[i].rows :
                               p \in posts => list[v].pages[i].rows[p] = mark[p]
                      /\ \A m \in Req : mut[m].kind = "delete" /\ mut[m].stage = "done"
                                           => mut[m].post \notin Shown(v)
                      /\ \A p \in Told : (\E q \in Shown(v) : q < p) => p \in Shown(v) \union list[v].gaps
    BY DEF OwnChangesShown
  <2>1. /\ (v = "newsfeed" => Marked(list[v].pages, posts, mark))
        /\ Shown(v) \intersect Erased = {} /\ Reach(list[v].pages, Sure)
    BY RestIsSettled DEF CacheInv, ListsFaithful, Shows, Faithful, Trusted, Loaded, Shown
  <2>2. ASSUME NEW m \in Req, mut[m].kind = "delete", mut[m].stage = "done"
        PROVE  mut[m].post \notin Shown(v)
    <3>1. mut[m].post \in Erased
      BY <2>2 DEF Erased, Erases
    <3> QED BY <2>1, <3>1
  <2>3. ASSUME NEW p \in Told, NEW q \in Shown(v), q < p PROVE p \in Shown(v) \union list[v].gaps
    <3>1. p \in Sure /\ p \in mine /\ p \in Listed(v)
      BY RestIsSettled, ListedAre DEF Told, CacheInv, CacheOK
    <3>2. PICK x \in Shown(v) : x >= p
      BY <2>1, <2>3, <3>1 DEF Reach, Shown
    <3>3. p \in 1..last /\ x \in 1..last /\ last \in Nat
      BY <3>1, ShownAre, ListedAre, LastIsNat DEF CacheInv, CacheOK, ServerTypes
    <3>4. CASE x = p
      BY <3>4
    <3>5. CASE x > p
      BY <2>3, <3>1, <3>5, BetweenIsShown
    <3> QED BY <3>2, <3>3, <3>4, <3>5
  <2> QED BY <2>1, <2>2, <2>3 DEF Marked
<1> QED BY <1>1, CacheInvariance, PTL
=============================================================================
