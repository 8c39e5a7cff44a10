--------------------------- MODULE MessagesProofs ---------------------------
(***************************************************************************)
(* Proofs about Conversations and Messages, for any users, lists, sockets    *)
(* and any number of overlapping calls.                                      *)
(***************************************************************************)
EXTENDS Messages, FiniteSetTheorems, TLAPS

Kinds == {"create", "update", "add", "leave", "send"} \union Toggles

Begun == {r \in Call : pc[r] # "idle"}

RoomTypes ==
    /\ mix \in Mixes
    /\ type \in [Conv -> {None, "direct", "group"}]
    /\ role \in [Conv -> [User -> {None, "member", "owner"}]]
    /\ left \in [Conv -> SUBSET User]
    /\ \A c \in Conv : left[c] \subseteq Rows(c)
    /\ flags \in [Conv -> [User -> SUBSET Flag]]
    /\ name \in [Conv -> Call \union {None}]
    /\ notes \subseteq Call /\ met \subseteq SUBSET Call

CallTypes ==
    /\ pc \in [Call -> {"idle"} \union Running \union Final]
    /\ DOMAIN op = Call
    /\ IsFiniteSet(Begun)

\* What a call asks for is about a conversation there is.
Asks(what) ==
    /\ what.kind \in Kinds
    /\ what.kind = "create" => what.type \in {"direct", "group"} /\ what.list \in Lists
    /\ what.kind # "create" => what.conv \in Conv /\ what.by \in User /\ type[what.conv] # None
    /\ what.kind = "add" => what.whom \in User

\* The kinds of calls that may be at a step, and what they have found by then.
Stages(r) ==
    /\ pc[r] = "idle" => op[r] = NoOp
    /\ pc[r] # "idle" => Asks(op[r])
    /\ pc[r] = "exists" => Kind(r, "add")
    /\ pc[r] = "write" => op[r].kind \in {"update", "add", "leave"} \union Toggles
    /\ pc[r] = "note" => op[r].kind \in {"add", "leave"}
    /\ pc[r] = "insert" => op[r].kind \in {"create", "send"}
    /\ pc[r] \in {"bump", "push", "commit", "send"} => Kind(r, "send")
    /\ Kind(r, "add") /\ pc[r] \in {"exists", "write", "note"} => IsGroup(r)
    /\ Kind(r, "leave") /\ pc[r] = "write" => HasRow(r)
    /\ Kind(r, "send") /\ pc[r] \in {"insert", "bump", "push"} => op[r].others \subseteq User

MetWhenTwo ==
    \A q, r \in Call : pc[q] \in Running /\ pc[r] \in Running /\ q # r => {q, r} \in met

\* A conversation is there from its creation on.
Origins ==
    /\ \A c \in Conv : type[c] = None => Rows(c) = {}
    /\ \A c \in Call : type[c] # None => pc[c] = "done" /\ Kind(c, "create")
    /\ \A r \in notes : pc[r] = "done"

Owned ==
    \A c \in Conv, u \in User :
        type[c] = "group" => (role[c][u] = "owner" <=> u = Head(First(c)))

\* The toggles of a setting that have been written.
Toggled(k, c, u) ==
    {r \in Call : pc[r] = "done" /\ Kind(r, k) /\ op[r].conv = c /\ op[r].by = u}

MetOneOf(r, S) == \E q \in S : {q, r} \in met

\* What a call has read is still so when it writes, but for the writes of calls it
\* overlapped with.
StillTrue(r) ==
    /\ pc[r] = "insert" /\ Kind(r, "create") /\ op[r].type = "direct" =>
         \A d \in ExistingDirect(Listed(op[r].list)) : {d, r} \in met
    /\ pc[r] = "write" /\ Kind(r, "add") =>
         \/ op[r].whom \notin Present(op[r].conv)
         \/ MetOneOf(r, Changed(op[r].conv, op[r].whom))
    /\ pc[r] = "write" /\ Kind(r, "leave") =>
         \/ op[r].by \in Present(op[r].conv)
         \/ MetOneOf(r, Changed(op[r].conv, op[r].by))
    /\ pc[r] = "write" /\ op[r].kind \in Toggles =>
         \/ op[r].set <=> FlagOf(op[r].kind) \notin flags[op[r].conv][op[r].by]
         \/ MetOneOf(r, Toggled(op[r].kind, op[r].conv, op[r].by))

\* The changes of a user that have stopped nowhere and met no other.
Sure(c, u) ==
    {r \in Changed(c, u) : pc[r] # "failed" /\ \A q \in Changed(c, u) : {q, r} \notin met}

\* Whether u takes part in c is what the changes in W make of it, and every sure one
\* is among them.
Account(c, u, W) ==
    /\ W \subseteq Changed(c, u) /\ Sure(c, u) \subseteq W
    /\ Cardinality(W \intersect Changes("add", c, u)) + (IF u \in Listed(First(c)) THEN 1 ELSE 0)
         = Cardinality(W \intersect Changes("leave", c, u)) + (IF u \in Present(c) THEN 1 ELSE 0)

Balance ==
    \A c \in Conv, u \in User : type[c] = "group" => \E W : Account(c, u, W)

Ground ==
    /\ RoomTypes /\ CallTypes
    /\ \A r \in Call : Stages(r)
    /\ MetWhenTwo /\ Origins

RoomsInv ==
    /\ Ground
    /\ \A r \in Call : StillTrue(r)
    /\ Owned /\ Balance /\ DirectOnce /\ FlagsCount

-----------------------------------------------------------------------------
(***************************************************************************)
(* What a step does to the conversations: it begins a call, it moves one on   *)
(* and leaves who takes part alone, or it is one of the four that write.     *)
(***************************************************************************)
Begins(r) ==
    /\ pc[r] = "idle" /\ pc' = [pc EXCEPT ![r] = "find"]
    /\ \E what : op' = [op EXCEPT ![r] = what] /\ Asks(what)
    /\ met' = met \union {{q, r} : q \in InFlight}
    /\ UNCHANGED <<mix, rooms>>

\* The call stays the one it is, whatever it has read.
KeepsCall(r) ==
    /\ DOMAIN op' = Call /\ \A q \in Call \ {r} : op'[q] = op[q]
    /\ op'[r].kind = op[r].kind
    /\ op[r].kind # "create" => op'[r].conv = op[r].conv /\ op'[r].by = op[r].by
    /\ op[r].kind \in {"create", "add", "leave"} \/ pc[r] # "find" => op'[r] = op[r]

Moves(r) ==
    /\ pc[r] \in Running
    /\ \E l \in (Running \ {"find"}) \union Final : pc' = [pc EXCEPT ![r] = l]
    /\ KeepsCall(r)
    /\ UNCHANGED <<mix, type, role, left, flags, met>>
    /\ name' \in [Conv -> Call \union {None}]
    /\ \/ notes' = notes
       \/ notes' = notes \union {r} /\ pc[r] = "note" /\ pc'[r] = "done"
    /\ op[r].kind \in {"add", "leave"} =>
         \/ pc'[r] \in {"exists", "write", "rejected", "failed"} /\ pc[r] # "note"
         \/ pc'[r] = "failed"
         \/ pc[r] = "note" /\ pc'[r] = "done" /\ r \in notes'
    /\ op[r].kind \in Toggles => pc'[r] # "done"

WritesRooms(r) ==
    InsertConversation(r) \/ UpsertParticipant(r) \/ MarkLeft(r) \/ WriteFlag(r)

ConversationChange(r) ==
    \/ Begins(r)
    \/ Moves(r) /\ Stages(r)' /\ StillTrue(r)'
    \/ WritesRooms(r)

LEMMA ListOK ==
    \A l \in Lists \union {Couple} :
        Head(l) \in Listed(l) /\ Listed(l) \subseteq User /\ Head(l) \in User
BY ConversationsAssumption DEF Listed

\* A call is well under way, or has been before.
LEMMA CallShape ==
    ASSUME Ground, NEW r \in Call
    PROVE  /\ pc[r] \in {"idle"} \union Running \union Final
           /\ Stages(r) /\ DOMAIN op = Call
           /\ pc[r] \in Running => Asks(op[r])
BY DEF Ground, CallTypes, Stages, Running

\* The calls that begin.
LEMMA BeginsToo ==
    ASSUME Ground, NEW r \in Call, NEW what, Start(r, what), Asks(what)
    PROVE  Begins(r)
BY DEF Start, Goto, Begins, Ground, CallTypes

LEMMA CallsBegin ==
    ASSUME Ground, NEW r \in Call,
           \/ Create(r) \/ Add(r)
           \/ \E k \in {"update", "leave"} \union Toggles : OnConversation(r, k)
           \/ CreateMessage(r)
    PROVE  Begins(r)
<1>1. CASE Create(r)
  <2>1. PICK t \in {"direct", "group"}, l \in Lists : Start(r, [kind |-> "create", type |-> t, list |-> l])
    BY <1>1 DEF Create
  <2>2. Asks([kind |-> "create", type |-> t, list |-> l])
    BY DEF Asks, Kinds
  <2> QED BY <2>1, <2>2, BeginsToo
<1>2. CASE Add(r)
  <2>1. PICK c \in Known, u \in User, v \in User :
          Start(r, [kind |-> "add", conv |-> c, by |-> u, whom |-> v])
    BY <1>2 DEF Add
  <2>2. Asks([kind |-> "add", conv |-> c, by |-> u, whom |-> v])
    BY <2>1 DEF Asks, Kinds, Known
  <2> QED BY <2>1, <2>2, BeginsToo
<1>3. ASSUME NEW k \in {"update", "leave"} \union Toggles, OnConversation(r, k) PROVE Begins(r)
  <2>1. PICK c \in Known, u \in User : Start(r, [kind |-> k, conv |-> c, by |-> u])
    BY <1>3 DEF OnConversation
  <2>2. Asks([kind |-> k, conv |-> c, by |-> u])
    BY <2>1 DEF Asks, Kinds, Toggles, Known
  <2> QED BY <2>1, <2>2, BeginsToo
<1>4. CASE CreateMessage(r)
  <2>1. PICK c \in Known, u \in User, q \in messages \union {None} : \E m \in Rows(c) \union {None} :
          Start(r, [kind |-> "send", conv |-> c, by |-> u, mention |-> m, reply |-> q])
    BY <1>4 DEF CreateMessage
  <2>2. PICK m \in Rows(c) \union {None} :
          Start(r, [kind |-> "send", conv |-> c, by |-> u, mention |-> m, reply |-> q])
    BY <2>1
  <2>3. Asks([kind |-> "send", conv |-> c, by |-> u, mention |-> m, reply |-> q])
    BY <2>2 DEF Asks, Kinds, Known
  <2> QED BY <2>2, <2>3, BeginsToo
<1> QED BY <1>1, <1>2, <1>3, <1>4

\* The calls that are moved on without reading anything they will write by.
LEMMA CallsMove ==
    ASSUME Ground, NEW r \in Call, NEW l \in (Running \ {"find"}) \union Final,
           pc[r] \in Running, pc' = [pc EXCEPT ![r] = l],
           UNCHANGED <<mix, type, role, left, flags, op, met>>,
           name' \in [Conv -> Call \union {None}],
           \/ notes' = notes
           \/ notes' = notes \union {r} /\ pc[r] = "note" /\ l = "done",
           op[r].kind \in {"add", "leave"} =>
             \/ l \in {"exists", "write", "rejected", "failed"} /\ pc[r] # "note"
             \/ l = "failed"
             \/ pc[r] = "note" /\ l = "done" /\ r \in notes',
           op[r].kind \in Toggles => l # "done"
    PROVE  Moves(r) /\ pc'[r] = l
BY DEF Moves, KeepsCall, Ground, CallTypes

\* A call that ends, or goes on without a reading, has nothing to rely on.
LEMMA NothingToRelyOn ==
    ASSUME Ground, NEW r \in Call, Moves(r), op' = op,
           \/ pc'[r] \in Final
           \/ pc'[r] \in {"bump", "push", "commit"} /\ pc[r] \in {"insert", "bump", "push"}
              /\ Kind(r, "send")
           \/ pc'[r] = "send" /\ Kind(r, "send")
    PROVE  Stages(r)' /\ StillTrue(r)'
<1>1. Stages(r) /\ pc[r] \in Running /\ UNCHANGED <<type, role>>
  BY CallShape DEF Moves
<1>2. Asks(op[r])
  BY CallShape, <1>1
<1>3. Asks(op[r])'
  BY <1>1, <1>2 DEF Asks
<1>4. Kind(r, "send")' = Kind(r, "send")
  BY DEF Kind
<1>5. Stages(r)'
  <2>1. CASE pc'[r] \in Final
    BY <2>1, <1>3 DEF Stages, Final
  <2>2. CASE pc'[r] \in {"bump", "push", "commit"} /\ pc[r] \in {"insert", "bump", "push"}
             /\ Kind(r, "send")
    BY <2>2, <1>1, <1>3, <1>4 DEF Stages, Kind, Toggles
  <2>3. CASE pc'[r] = "send" /\ Kind(r, "send")
    BY <2>3, <1>3, <1>4 DEF Stages
  <2> QED BY <2>1, <2>2, <2>3
<1>6. StillTrue(r)'
  BY DEF StillTrue, Final
<1> QED BY <1>5, <1>6

LEMMA SendsMove ==
    ASSUME Ground, NEW r \in Call,
           \/ InsertMessage(r) \/ UpdateConversation(r) \/ PushUnread(r) \/ Commit(r)
           \/ SendToConversation(r) \/ Rollback(r) \/ StopBeforeSend(r)
    PROVE  Moves(r) /\ Stages(r)' /\ StillTrue(r)' /\ op' = op
<1>1. PICK l \in {"bump", "push", "commit", "send", "done", "failed"} :
        /\ pc' = [pc EXCEPT ![r] = l]
        /\ pc[r] \in {"insert", "bump", "push", "commit", "send"}
        /\ \/ l \in {"done", "failed"}
           \/ l \in {"bump", "push", "commit"} /\ pc[r] \in {"insert", "bump", "push"}
           \/ l = "send" /\ pc[r] = "commit"
  BY DEF InsertMessage, UpdateConversation, PushUnread, Commit, SendToConversation,
         Rollback, StopBeforeSend, Goto
<1>2. UNCHANGED <<mix, type, role, left, flags, name, notes, op, met>>
  BY DEF InsertMessage, UpdateConversation, PushUnread, Commit, SendToConversation,
         Rollback, StopBeforeSend, rooms
<1>3. Stages(r) /\ pc[r] \in Running
  BY <1>1, CallShape DEF Running
<1>4. Kind(r, "send")
  BY <1>1, <1>3 DEF Stages, InsertMessage, UpdateConversation, PushUnread, Commit,
         SendToConversation, Rollback, StopBeforeSend
<1>5. Moves(r) /\ pc'[r] = l
  <2>1. l \in (Running \ {"find"}) \union Final /\ name' \in [Conv -> Call \union {None}]
    BY <1>2 DEF Running, Final, Ground, RoomTypes
  <2>2. op[r].kind \notin {"add", "leave"} \union Toggles
    BY <1>4 DEF Kind, Toggles
  <2> QED BY <1>1, <1>2, <1>3, <2>1, <2>2, CallsMove
<1>6. \/ pc'[r] \in Final
      \/ pc'[r] \in {"bump", "push", "commit"} /\ pc[r] \in {"insert", "bump", "push"}
      \/ pc'[r] = "send"
  BY <1>1, <1>5 DEF Final
<1> QED BY <1>2, <1>4, <1>5, <1>6, NothingToRelyOn

LEMMA FindForSendMoves ==
    ASSUME Ground, NEW r \in Call, FindForSend(r)
    PROVE  Moves(r) /\ Stages(r)' /\ StillTrue(r)'
<1>1. /\ pc[r] = "find" /\ Kind(r, "send") /\ pc[r] \in Running
      /\ UNCHANGED <<mix, type, role, left, flags, name, notes, met>>
  BY DEF FindForSend, rooms, Running
<1>2. Stages(r) /\ Asks(op[r]) /\ op[r].conv \in Conv
  BY <1>1, CallShape DEF Asks, Kind
<1>3. /\ DOMAIN op' = Call /\ \A q \in Call \ {r} : op'[q] = op[q]
      /\ op'[r].kind = "send" /\ op'[r].conv = op[r].conv /\ op'[r].by = op[r].by
      /\ \/ pc' = [pc EXCEPT ![r] = "insert"] /\ op'[r].others = Present(op[r].conv) \ {op[r].by}
         \/ pc' = [pc EXCEPT ![r] = "rejected"]
  BY <1>1 DEF FindForSend, Goto, Ground, CallTypes, Kind
<1>4. pc'[r] = "rejected" \/ (pc'[r] = "insert" /\ op'[r].others \subseteq User)
  BY <1>2, <1>3 DEF Ground, CallTypes, Present, Rows
<1>5. Moves(r)
  <2>1. "insert" \in (Running \ {"find"}) \union Final /\ "rejected" \in (Running \ {"find"}) \union Final
    BY DEF Running, Final
  <2>2. name' \in [Conv -> Call \union {None}]
    BY <1>1 DEF Ground, RoomTypes
  <2>3. KeepsCall(r)
    BY <1>1, <1>3 DEF KeepsCall, Kind
  <2>4. op[r].kind \notin {"add", "leave"} \union Toggles
    BY <1>1 DEF Kind, Toggles
  <2> QED BY <1>1, <1>3, <2>1, <2>2, <2>3, <2>4 DEF Moves
<1>6. Asks(op[r])'
  BY <1>1, <1>2, <1>3 DEF Asks, Kinds, Kind
<1>7. Stages(r)'
  BY <1>3, <1>4, <1>6 DEF Stages, Kind
<1>8. StillTrue(r)'
  BY <1>3, <1>4 DEF StillTrue, Kind, Toggles
<1> QED BY <1>5, <1>7, <1>8

\* What create, add, leave and update have read before they write.
LEMMA LooksMove ==
    ASSUME Ground, NEW r \in Call,
           \/ FindForCreate(r) \/ FindForUpdate(r) \/ FindForAdd(r) \/ FindNewcomer(r)
           \/ FindForLeave(r)
    PROVE  Moves(r) /\ Stages(r)' /\ StillTrue(r)'
<1> DEFINE Grounds(l) ==
        /\ l = "insert" => Kind(r, "create") /\ (op[r].type = "direct" => ExistingDirect(Listed(op[r].list)) = {})
        /\ l = "exists" => Kind(r, "add") /\ IsGroup(r)
        /\ l = "write" => \/ Kind(r, "update")
                          \/ Kind(r, "add") /\ IsGroup(r) /\ op[r].whom \notin Present(op[r].conv)
                          \/ Kind(r, "leave") /\ op[r].by \in Present(op[r].conv)
        /\ l = "done" => Kind(r, "create")
<1>1. PICK l \in {"insert", "exists", "write", "rejected", "done"} :
        pc' = [pc EXCEPT ![r] = l] /\ pc[r] \in {"find", "exists"} /\ Grounds(l)
  <2>1. CASE FindForCreate(r)
    <3> DEFINE l == IF op[r].type = "direct" /\ Len(op[r].list) # 2 THEN "rejected"
                    ELSE IF op[r].type = "direct" /\ ExistingDirect(Listed(op[r].list)) # {} THEN "done"
                    ELSE "insert"
    <3>1. pc' = [pc EXCEPT ![r] = l] /\ pc[r] = "find" /\ Kind(r, "create")
      BY <2>1 DEF FindForCreate, Look, Goto
    <3>2. l \in {"insert", "rejected", "done"}
      OBVIOUS
    <3>3. l = "insert" => (op[r].type = "direct" => ExistingDirect(Listed(op[r].list)) = {})
      OBVIOUS
    <3> HIDE DEF l
    <3> QED BY <3>1, <3>2, <3>3
  <2>2. CASE FindForUpdate(r)
    BY <2>2 DEF FindForUpdate, Look, Goto
  <2>3. CASE FindForAdd(r)
    BY <2>3 DEF FindForAdd, Look, Goto
  <2>4. CASE FindNewcomer(r)
    <3>1. Kind(r, "add") /\ IsGroup(r)
      BY <2>4, CallShape DEF FindNewcomer, Stages
    <3> QED BY <2>4, <3>1 DEF FindNewcomer, Goto
  <2>5. CASE FindForLeave(r)
    BY <2>5 DEF FindForLeave, Look, Goto
  <2> QED BY <2>1, <2>2, <2>3, <2>4, <2>5
<1>2. UNCHANGED <<mix, type, role, left, flags, name, notes, op, met>>
  BY DEF FindForCreate, FindForUpdate, FindForAdd, FindNewcomer, FindForLeave, Look, rooms
<1>3. pc[r] \in Running /\ Asks(op[r])
  BY <1>1, CallShape DEF Running
<1>4. op[r].kind \in {"create", "update", "add", "leave"}
  BY CallShape DEF FindForCreate, FindForUpdate, FindForAdd, FindNewcomer, FindForLeave, Look,
       Stages, Kind
<1>5. Moves(r) /\ pc'[r] = l
  <2>1. l \in (Running \ {"find"}) \union Final /\ name' \in [Conv -> Call \union {None}]
    BY <1>2 DEF Running, Final, Ground, RoomTypes
  <2>2. op[r].kind \in {"add", "leave"} => l \in {"exists", "write", "rejected"}
    BY <1>1 DEF Kind
  <2>3. op[r].kind \notin Toggles
    BY <1>4 DEF Toggles
  <2> QED BY <1>1, <1>2, <1>3, <2>1, <2>2, <2>3, CallsMove
<1>6. Asks(op[r])'
  BY <1>2, <1>3 DEF Asks
<1>7. Stages(r)'
  <2>1. l = "write" /\ Kind(r, "leave") => HasRow(r)
    BY <1>1, <1>3 DEF Present, Rows, HasRow, Asks, Kind
  <2> QED BY <1>1, <1>2, <1>5, <1>6, <2>1 DEF Stages, Kind, IsGroup, HasRow
<1>8. StillTrue(r)'
  <2>1. UNCHANGED <<Kind(r, "create"), Kind(r, "add"), Kind(r, "leave"), Present(op[r].conv),
                    ExistingDirect(Listed(op[r].list)), op[r]>>
    BY <1>2 DEF Kind, Present, Rows, ExistingDirect, Listed
  <2> QED BY <1>1, <1>4, <1>5, <2>1 DEF StillTrue, Kind, Toggles
<1> QED BY <1>5, <1>7, <1>8

LEMMA EndsMove ==
    ASSUME Ground, NEW r \in Call, WriteName(r) \/ WriteNote(r) \/ Stop(r)
    PROVE  Moves(r) /\ Stages(r)' /\ StillTrue(r)' /\ op' = op
<1>1. PICK l \in {"done", "failed"} :
        /\ pc' = [pc EXCEPT ![r] = l]
        /\ pc[r] \in {"exists", "write", "note", "insert"}
        /\ \/ l = "done" /\ pc[r] = "write" /\ Kind(r, "update") /\ notes' = notes
           \/ l = "done" /\ pc[r] = "note" /\ notes' = notes \union {r}
           \/ l = "failed" /\ notes' = notes
  BY DEF WriteName, WriteNote, Stop, Goto, rooms
<1>2. UNCHANGED <<mix, type, role, left, flags, op, met>>
  BY DEF WriteName, WriteNote, Stop, rooms
<1>3. pc[r] \in Running /\ Stages(r) /\ Asks(op[r])
  BY <1>1, CallShape DEF Running
<1>4. name' \in [Conv -> Call \union {None}]
  <2>1. name' = name \/ name' = [name EXCEPT ![op[r].conv] = r]
    BY DEF WriteName, WriteNote, Stop, rooms
  <2> QED BY <2>1 DEF Ground, RoomTypes
<1>5. Moves(r) /\ pc'[r] = l
  <2>1. l \in (Running \ {"find"}) \union Final
    BY DEF Final
  <2>2. op[r].kind \in {"add", "leave"} => l = "failed" \/ (pc[r] = "note" /\ l = "done" /\ r \in notes')
    BY <1>1 DEF Kind
  <2>3. op[r].kind \in Toggles => l # "done"
    BY <1>1, <1>3 DEF Stages, Kind, Toggles
  <2> QED BY <1>1, <1>2, <1>3, <1>4, <2>1, <2>2, <2>3, CallsMove
<1> QED BY <1>2, <1>5, NothingToRelyOn DEF Final

LEMMA FindForToggleMoves ==
    ASSUME Ground, NEW r \in Call, FindForToggle(r)
    PROVE  Moves(r) /\ Stages(r)' /\ StillTrue(r)'
<1>1. /\ pc[r] = "find" /\ op[r].kind \in Toggles /\ pc[r] \in Running
      /\ UNCHANGED <<mix, type, role, left, flags, name, notes, met>>
  BY DEF FindForToggle, rooms, Running
<1>2. Asks(op[r])
  BY <1>1, CallShape
<1>3. /\ DOMAIN op' = Call /\ \A q \in Call \ {r} : op'[q] = op[q]
      /\ op'[r].kind = op[r].kind /\ op'[r].conv = op[r].conv /\ op'[r].by = op[r].by
      /\ \/ /\ pc' = [pc EXCEPT ![r] = "write"]
            /\ op'[r].set <=> FlagOf(op[r].kind) \notin flags[op[r].conv][op[r].by]
         \/ pc' = [pc EXCEPT ![r] = "rejected"]
  <2>1. CASE HasRow(r)
    <3>1. op' = [op EXCEPT ![r] = [kind |-> @.kind, conv |-> @.conv, by |-> @.by,
                         set |-> FlagOf(@.kind) \notin flags[@.conv][@.by]]]
      BY <2>1 DEF FindForToggle
    <3>2. DOMAIN op' = Call /\ \A q \in Call \ {r} : op'[q] = op[q]
      BY <3>1 DEF Ground, CallTypes
    <3>3. op'[r] = [kind |-> op[r].kind, conv |-> op[r].conv, by |-> op[r].by,
                    set |-> FlagOf(op[r].kind) \notin flags[op[r].conv][op[r].by]]
      BY <3>1 DEF Ground, CallTypes
    <3> DEFINE unset == FlagOf(op[r].kind) \notin flags[op[r].conv][op[r].by]
    <3>4. op'[r].set = unset
      BY <3>3
    <3>5. op'[r].set <=> unset
      BY <3>4
    <3>6. op'[r].kind = op[r].kind /\ op'[r].conv = op[r].conv /\ op'[r].by = op[r].by
      BY <3>3
    <3>7. pc' = [pc EXCEPT ![r] = "write"]
      BY <2>1 DEF FindForToggle, Goto
    <3> QED BY <3>2, <3>5, <3>6, <3>7
  <2>2. CASE ~HasRow(r)
    BY <2>2 DEF FindForToggle, Goto, Ground, CallTypes
  <2> QED BY <2>1, <2>2
<1>4. pc'[r] \in {"rejected", "write"}
  BY <1>3 DEF Ground, CallTypes
<1>5. op[r].kind \notin {"create", "add", "leave", "send"}
  BY <1>1 DEF Toggles
<1>6. Moves(r)
  <2>1. "write" \in (Running \ {"find"}) \union Final /\ "rejected" \in (Running \ {"find"}) \union Final
    BY DEF Running, Final
  <2>2. name' \in [Conv -> Call \union {None}]
    BY <1>1 DEF Ground, RoomTypes
  <2>3. KeepsCall(r)
    BY <1>1, <1>3, <1>5 DEF KeepsCall
  <2> QED BY <1>1, <1>3, <1>4, <1>5, <2>1, <2>2, <2>3 DEF Moves
<1>7. Asks(op[r])'
  BY <1>1, <1>2, <1>3, <1>5 DEF Asks
<1>8. Stages(r)'
  BY <1>1, <1>3, <1>4, <1>5, <1>7 DEF Stages, Kind
<1>9. StillTrue(r)'
  <2>1. pc'[r] = "write" =>
          (op'[r].set <=> FlagOf(op'[r].kind) \notin flags'[op'[r].conv][op'[r].by])
    <3>1. ASSUME pc'[r] = "write" PROVE op'[r].set <=> FlagOf(op[r].kind) \notin flags[op[r].conv][op[r].by]
      BY <3>1, <1>3 DEF Ground, CallTypes
    <3> QED BY <3>1, <1>1, <1>3
  <2> QED BY <1>3, <1>4, <1>5, <2>1 DEF StillTrue, Kind
<1> QED BY <1>6, <1>8, <1>9

\* Every step is one of these to the conversations.
LEMMA ConversationChanges ==
    ASSUME Ground, NEW r \in Call, ConversationStep(r) \/ SendStep(r)
    PROVE  ConversationChange(r)
<1>1. CASE Create(r) \/ Add(r) \/ (\E k \in {"update", "leave"} \union Toggles : OnConversation(r, k))
           \/ CreateMessage(r)
  BY <1>1, CallsBegin DEF ConversationChange
<1>2. CASE \/ FindForCreate(r) \/ FindForUpdate(r) \/ FindForAdd(r) \/ FindNewcomer(r)
           \/ FindForLeave(r)
  BY <1>2, LooksMove DEF ConversationChange
<1>3. CASE WriteName(r) \/ WriteNote(r) \/ Stop(r)
  BY <1>3, EndsMove DEF ConversationChange
<1>4. CASE FindForToggle(r)
  BY <1>4, FindForToggleMoves DEF ConversationChange
<1>5. CASE FindForSend(r)
  BY <1>5, FindForSendMoves DEF ConversationChange
<1>6. CASE \/ InsertMessage(r) \/ UpdateConversation(r) \/ PushUnread(r) \/ Commit(r)
           \/ SendToConversation(r) \/ Rollback(r) \/ StopBeforeSend(r)
  BY <1>6, SendsMove DEF ConversationChange
<1>7. CASE WritesRooms(r)
  BY <1>7 DEF ConversationChange
<1> QED BY <1>1, <1>2, <1>3, <1>4, <1>5, <1>6, <1>7 DEF ConversationStep, SendStep, WritesRooms

-----------------------------------------------------------------------------
(***************************************************************************)
(* Ground: the types, the stages of the calls, and who has met whom.        *)
(***************************************************************************)

\* The four that write.
LEMMA InsertConversationFacts ==
    ASSUME Ground, NEW r \in Call, InsertConversation(r)
    PROVE  /\ pc[r] = "insert" /\ Kind(r, "create") /\ Asks(op[r])
           /\ r \in Conv /\ type[r] = None /\ Rows(r) = {} /\ left[r] = {}
           /\ op[r].type \in {"direct", "group"} /\ op[r].list \in Lists
           /\ type' \in [Conv -> {None, "direct", "group"}] /\ type'[r] = op[r].type
           /\ \A c \in Conv \ {r} : type'[c] = type[c] /\ role'[c] = role[c]
           /\ role' \in [Conv -> [User -> {None, "member", "owner"}]]
           /\ role'[r] = RoleOf(op[r].type, op[r].list)
           /\ UNCHANGED <<mix, left, flags, notes, op, met>>
           /\ name' \in [Conv -> Call \union {None}]
           /\ pc' = [pc EXCEPT ![r] = "done"] /\ pc'[r] = "done"
<1>1. pc[r] = "insert" /\ Kind(r, "create") /\ pc' = [pc EXCEPT ![r] = "done"] /\ r \in Conv
      /\ UNCHANGED <<mix, left, flags, notes, op, met>>
  BY DEF InsertConversation, Goto, Conv
<1>2. Asks(op[r])
  BY <1>1, CallShape DEF Running
<1>3. op[r].type \in {"direct", "group"} /\ op[r].list \in Lists
  BY <1>1, <1>2 DEF Asks, Kind
<1>4. type[r] = None /\ Rows(r) = {}
  BY <1>1 DEF Ground, Origins
<1>5. left[r] = {}
  BY <1>4, <1>1 DEF Ground, RoomTypes
<1>6. RoleOf(op[r].type, op[r].list) \in [User -> {None, "member", "owner"}]
  BY DEF RoleOf
<1>7. /\ type' \in [Conv -> {None, "direct", "group"}] /\ type'[r] = op[r].type
      /\ \A c \in Conv \ {r} : type'[c] = type[c]
  BY <1>1, <1>3 DEF InsertConversation, Ground, RoomTypes
<1>8. /\ role' \in [Conv -> [User -> {None, "member", "owner"}]]
      /\ role'[r] = RoleOf(op[r].type, op[r].list)
      /\ \A c \in Conv \ {r} : role'[c] = role[c]
  BY <1>1, <1>6 DEF InsertConversation, Ground, RoomTypes
<1>9. name' \in [Conv -> Call \union {None}]
  BY DEF InsertConversation, Ground, RoomTypes
<1>10. pc'[r] = "done"
  BY <1>1 DEF Ground, CallTypes
<1> QED BY <1>1, <1>2, <1>3, <1>4, <1>5, <1>7, <1>8, <1>9, <1>10

LEMMA UpsertFacts ==
    ASSUME Ground, NEW r \in Call, UpsertParticipant(r)
    PROVE  /\ pc[r] = "write" /\ Kind(r, "add") /\ Asks(op[r])
           /\ op[r].conv \in Conv /\ op[r].whom \in User /\ type[op[r].conv] = "group"
           /\ role' \in [Conv -> [User -> {None, "member", "owner"}]]
           /\ left' \in [Conv -> SUBSET User]
           /\ \A c \in Conv, u \in User :
                IF c = op[r].conv /\ u = op[r].whom
                  THEN /\ role'[c][u] = IF role[c][u] = None THEN "member" ELSE role[c][u]
                       /\ u \notin left'[c]
                  ELSE role'[c][u] = role[c][u] /\ (u \in left'[c] <=> u \in left[c])
           /\ UNCHANGED <<mix, type, flags, name, notes, op, met>>
           /\ pc' = [pc EXCEPT ![r] = "note"] /\ pc'[r] = "note"
<1>1. pc[r] = "write" /\ Kind(r, "add") /\ pc' = [pc EXCEPT ![r] = "note"]
      /\ UNCHANGED <<mix, type, flags, name, notes, op, met>>
  BY DEF UpsertParticipant, Goto
<1>2. Asks(op[r]) /\ Stages(r)
  BY <1>1, CallShape DEF Running
<1>3. op[r].conv \in Conv /\ op[r].whom \in User /\ type[op[r].conv] = "group"
  BY <1>1, <1>2 DEF Asks, Kind, Stages, IsGroup
<1> DEFINE c0 == op[r].conv
           v0 == op[r].whom
<1>4. /\ role' = [role EXCEPT ![c0][v0] = IF @ = None THEN "member" ELSE @]
      /\ left' = [left EXCEPT ![c0] = @ \ {v0}]
  BY DEF UpsertParticipant
<1>5. c0 \in Conv /\ v0 \in User
  BY <1>3
<1> HIDE DEF c0, v0
<1>6. /\ role \in [Conv -> [User -> {None, "member", "owner"}]]
      /\ left \in [Conv -> SUBSET User]
  BY DEF Ground, RoomTypes
<1>7. role' \in [Conv -> [User -> {None, "member", "owner"}]] /\ left' \in [Conv -> SUBSET User]
  BY <1>4, <1>5, <1>6
<1>8. ASSUME NEW c \in Conv, NEW u \in User
      PROVE  IF c = c0 /\ u = v0
               THEN /\ role'[c][u] = IF role[c][u] = None THEN "member" ELSE role[c][u]
                    /\ u \notin left'[c]
               ELSE role'[c][u] = role[c][u] /\ (u \in left'[c] <=> u \in left[c])
  BY <1>4, <1>5, <1>6
<1>9. pc'[r] = "note"
  BY <1>1 DEF Ground, CallTypes
<1> QED BY <1>1, <1>2, <1>3, <1>7, <1>8, <1>9 DEF c0, v0

LEMMA MarkLeftFacts ==
    ASSUME Ground, NEW r \in Call, MarkLeft(r)
    PROVE  /\ pc[r] = "write" /\ Kind(r, "leave") /\ Asks(op[r])
           /\ op[r].conv \in Conv /\ op[r].by \in User /\ type[op[r].conv] # None
           /\ op[r].by \in Rows(op[r].conv)
           /\ left' \in [Conv -> SUBSET User]
           /\ \A c \in Conv : left'[c] = IF c = op[r].conv THEN left[c] \union {op[r].by} ELSE left[c]
           /\ UNCHANGED <<mix, type, role, flags, name, notes, op, met>>
           /\ pc' = [pc EXCEPT ![r] = IF IsGroup(r) THEN "note" ELSE "done"]
           /\ pc'[r] = IF IsGroup(r) THEN "note" ELSE "done"
<1>1. pc[r] = "write" /\ Kind(r, "leave")
      /\ pc' = [pc EXCEPT ![r] = IF IsGroup(r) THEN "note" ELSE "done"]
      /\ UNCHANGED <<mix, type, role, flags, name, notes, op, met>>
  BY DEF MarkLeft, Goto
<1>2. Asks(op[r]) /\ Stages(r)
  BY <1>1, CallShape DEF Running
<1>3. op[r].conv \in Conv /\ op[r].by \in User /\ type[op[r].conv] # None
  BY <1>1, <1>2 DEF Asks, Kind
<1>4. op[r].by \in Rows(op[r].conv)
  BY <1>1, <1>2, <1>3 DEF Stages, HasRow, Rows
<1>5. left' = [left EXCEPT ![op[r].conv] = @ \union {op[r].by}]
  BY DEF MarkLeft
<1>6. /\ left' \in [Conv -> SUBSET User]
      /\ \A c \in Conv : left'[c] = IF c = op[r].conv THEN left[c] \union {op[r].by} ELSE left[c]
  BY <1>3, <1>5 DEF Ground, RoomTypes
<1>7. pc'[r] = IF IsGroup(r) THEN "note" ELSE "done"
  BY <1>1 DEF Ground, CallTypes
<1> QED BY <1>1, <1>2, <1>3, <1>4, <1>6, <1>7

LEMMA WriteFlagFacts ==
    ASSUME Ground, NEW r \in Call, WriteFlag(r)
    PROVE  /\ pc[r] = "write" /\ op[r].kind \in Toggles /\ Asks(op[r])
           /\ op[r].conv \in Conv /\ op[r].by \in User
           /\ flags' \in [Conv -> [User -> SUBSET Flag]]
           /\ \A c \in Conv, u \in User, f \in Flag :
                f \in flags'[c][u] <=>
                  IF c = op[r].conv /\ u = op[r].by /\ f = FlagOf(op[r].kind)
                    THEN op[r].set ELSE f \in flags[c][u]
           /\ UNCHANGED <<mix, type, role, left, name, notes, op, met>>
           /\ pc' = [pc EXCEPT ![r] = "done"] /\ pc'[r] = "done"
<1>1. pc[r] = "write" /\ op[r].kind \in Toggles /\ pc' = [pc EXCEPT ![r] = "done"]
      /\ UNCHANGED <<mix, type, role, left, name, notes, op, met>>
  BY DEF WriteFlag, Goto
<1>2. Asks(op[r])
  BY <1>1, CallShape DEF Running
<1>3. op[r].conv \in Conv /\ op[r].by \in User
  BY <1>1, <1>2 DEF Asks, Toggles
<1> DEFINE c0 == op[r].conv
           v0 == op[r].by
           f0 == FlagOf(op[r].kind)
<1>4. flags' = [flags EXCEPT ![c0][v0] = IF op[r].set THEN @ \union {f0} ELSE @ \ {f0}]
  BY DEF WriteFlag
<1>5. c0 \in Conv /\ v0 \in User /\ f0 \in Flag
  BY <1>3 DEF FlagOf, Flag
<1> HIDE DEF c0, v0, f0
<1>6. flags \in [Conv -> [User -> SUBSET Flag]]
  BY DEF Ground, RoomTypes
<1>7. flags' \in [Conv -> [User -> SUBSET Flag]]
  BY <1>4, <1>5, <1>6
<1>8. ASSUME NEW c \in Conv, NEW u \in User, NEW f \in Flag
      PROVE  f \in flags'[c][u] <=>
               IF c = c0 /\ u = v0 /\ f = f0 THEN op[r].set ELSE f \in flags[c][u]
  BY <1>4, <1>5, <1>6
<1>9. pc'[r] = "done"
  BY <1>1 DEF Ground, CallTypes
<1> QED BY <1>1, <1>2, <1>3, <1>7, <1>8, <1>9 DEF c0, v0, f0

\* What every step keeps of the other calls, and of the conversations there are.
Keeps(r) ==
    /\ pc' \in [Call -> {"idle"} \union Running \union Final] /\ pc'[r] # "idle"
    /\ DOMAIN op' = Call
    /\ \A q \in Call \ {r} : pc'[q] = pc[q] /\ op'[q] = op[q]
    /\ mix' = mix /\ met \subseteq met' /\ met' \subseteq SUBSET Call
    /\ type' \in [Conv -> {None, "direct", "group"}]
    /\ role' \in [Conv -> [User -> {None, "member", "owner"}]]
    /\ \A c \in Conv : type[c] # None => type'[c] = type[c]
    /\ \A c \in Conv, u \in User : role[c][u] # None => role'[c][u] # None

LEMMA ChangeKeeps ==
    ASSUME Ground, NEW r \in Call, ConversationChange(r)
    PROVE  Keeps(r)
<1>0. /\ pc \in [Call -> {"idle"} \union Running \union Final] /\ DOMAIN op = Call
      /\ met \subseteq SUBSET Call
      /\ type \in [Conv -> {None, "direct", "group"}]
      /\ role \in [Conv -> [User -> {None, "member", "owner"}]]
  BY DEF Ground, RoomTypes, CallTypes
<1>1. CASE Begins(r)
  <2>1. "find" \in Running /\ "find" # "idle"
    BY DEF Running
  <2>2. met \subseteq met' /\ met' \subseteq SUBSET Call
    BY <1>0, <1>1 DEF Begins, InFlight
  <2>3. DOMAIN op' = Call /\ \A q \in Call \ {r} : op'[q] = op[q]
    BY <1>0, <1>1 DEF Begins
  <2>4. pc' = [pc EXCEPT ![r] = "find"] /\ UNCHANGED <<mix, type, role>>
    BY <1>1 DEF Begins, rooms
  <2> QED BY <1>0, <2>1, <2>2, <2>3, <2>4 DEF Keeps
<1>2. CASE Moves(r)
  <2>1. PICK l \in (Running \ {"find"}) \union Final : pc' = [pc EXCEPT ![r] = l]
    BY <1>2 DEF Moves
  <2>2. l # "idle"
    BY DEF Running, Final
  <2>3. DOMAIN op' = Call /\ (\A q \in Call \ {r} : op'[q] = op[q])
        /\ UNCHANGED <<mix, type, role, met>>
    BY <1>2 DEF Moves, KeepsCall
  <2> QED BY <1>0, <2>1, <2>2, <2>3 DEF Keeps
<1>3. CASE InsertConversation(r)
  <2>1. \A c \in Conv : type[c] # None => type'[c] = type[c]
    BY <1>3, InsertConversationFacts
  <2>2. \A c \in Conv, u \in User : role[c][u] # None => role'[c][u] # None
    <3>1. \A u \in User : role[r][u] = None
      BY <1>3, InsertConversationFacts DEF Rows
    <3> QED BY <1>3, <3>1, InsertConversationFacts
  <2>3. "done" \in Final
    BY DEF Final
  <2> QED BY <1>0, <1>3, <2>1, <2>2, <2>3, InsertConversationFacts DEF Keeps
<1>4. CASE UpsertParticipant(r)
  <2>1. "note" \in Running
    BY DEF Running
  <2>2. \A c \in Conv, u \in User : role[c][u] # None => role'[c][u] # None
    BY <1>4, UpsertFacts
  <2> QED BY <1>0, <1>4, <2>1, <2>2, UpsertFacts DEF Keeps
<1>5. CASE MarkLeft(r)
  <2>1. "note" \in Running /\ "done" \in Final
    BY DEF Running, Final
  <2>2. PICK l \in {"note", "done"} : pc' = [pc EXCEPT ![r] = l]
    BY <1>5, MarkLeftFacts
  <2>3. UNCHANGED <<mix, type, role, op, met>>
    BY <1>5, MarkLeftFacts
  <2> QED BY <1>0, <2>1, <2>2, <2>3 DEF Keeps
<1>6. CASE WriteFlag(r)
  <2>1. "done" \in Final
    BY DEF Final
  <2> QED BY <1>0, <1>6, <2>1, WriteFlagFacts DEF Keeps
<1> QED BY <1>1, <1>2, <1>3, <1>4, <1>5, <1>6 DEF ConversationChange, WritesRooms

LEMMA OthersStay ==
    ASSUME Ground, NEW r \in Call, Keeps(r), NEW q \in Call, q # r
    PROVE  Stages(q)'
<1>1. Stages(q) /\ pc'[q] = pc[q] /\ op'[q] = op[q]
  BY CallShape DEF Keeps
<1>2. CASE pc[q] = "idle"
  BY <1>1, <1>2 DEF Stages, NoOp, Kind, Kinds, Toggles, None
<1>3. CASE pc[q] # "idle"
  <2>1. Asks(op[q])
    BY <1>1, <1>3 DEF Stages
  <2>2. Asks(op[q])'
    BY <1>1, <2>1 DEF Asks, Keeps
  <2>3. Kind(q, "add") /\ pc[q] \in {"exists", "write", "note"} => IsGroup(q)'
    BY <1>1, <2>1 DEF Stages, Asks, Keeps, IsGroup, Kind, None
  <2>4. Kind(q, "leave") /\ pc[q] = "write" => HasRow(q)'
    BY <1>1, <2>1 DEF Stages, Asks, Keeps, HasRow, Kind
  <2> QED BY <1>1, <1>3, <2>2, <2>3, <2>4 DEF Stages, Kind
<1> QED BY <1>2, <1>3

LEMMA ChangeKeepsRooms ==
    ASSUME Ground, NEW r \in Call, ConversationChange(r)
    PROVE  RoomTypes'
<1>1. CASE Begins(r)
  <2>1. UNCHANGED <<mix, type, role, left, flags, name, notes>> /\ met' \subseteq SUBSET Call
    BY <1>1, ChangeKeeps DEF Begins, rooms, Keeps
  <2>2. RoomTypes
    BY DEF Ground
  <2> QED BY <2>1, <2>2 DEF RoomTypes, Rows
<1>2. CASE Moves(r)
  <2>1. notes' \subseteq Call /\ UNCHANGED <<mix, type, role, left, flags, met>>
        /\ name' \in [Conv -> Call \union {None}]
    BY <1>2 DEF Moves, Ground, RoomTypes
  <2>2. RoomTypes
    BY DEF Ground
  <2> QED BY <2>1, <2>2 DEF RoomTypes, Rows
<1>3. CASE InsertConversation(r)
  <2>1. RoomTypes
    BY DEF Ground
  <2>2. \A c \in Conv : left'[c] \subseteq Rows(c)'
    <3> SUFFICES ASSUME NEW c \in Conv PROVE left'[c] \subseteq Rows(c)'
      OBVIOUS
    <3>1. CASE c = r
      BY <1>3, <3>1, InsertConversationFacts
    <3>2. CASE c # r
      BY <1>3, <2>1, <3>2, InsertConversationFacts DEF Rows, RoomTypes
    <3> QED BY <3>1, <3>2
  <2>3. UNCHANGED <<mix, left, flags, notes, met>>
    BY <1>3, InsertConversationFacts
  <2> QED BY <1>3, <2>1, <2>2, <2>3, InsertConversationFacts DEF RoomTypes
<1>4. CASE UpsertParticipant(r)
  <2>1. RoomTypes
    BY DEF Ground
  <2>2. \A c \in Conv : left'[c] \subseteq Rows(c)'
    <3> SUFFICES ASSUME NEW c \in Conv, NEW u \in left'[c] PROVE role'[c][u] # None
      BY <1>4, UpsertFacts DEF Rows
    <3>1. u \in User /\ u \in left[c]
      BY <1>4, UpsertFacts
    <3>2. role[c][u] # None
      BY <2>1, <3>1 DEF RoomTypes, Rows
    <3> QED BY <1>4, <3>1, <3>2, ChangeKeeps DEF Keeps
  <2>3. UNCHANGED <<mix, type, flags, name, notes, met>>
    BY <1>4, UpsertFacts
  <2> QED BY <1>4, <2>1, <2>2, <2>3, UpsertFacts DEF RoomTypes
<1>5. CASE MarkLeft(r)
  <2>1. RoomTypes
    BY DEF Ground
  <2>2. UNCHANGED <<mix, type, role, flags, name, notes, met>>
    BY <1>5, MarkLeftFacts
  <2>3. \A c \in Conv : left'[c] \subseteq Rows(c)'
    <3> SUFFICES ASSUME NEW c \in Conv PROVE left'[c] \subseteq Rows(c)'
      OBVIOUS
    <3>1. Rows(c)' = Rows(c) /\ left[c] \subseteq Rows(c)
      BY <2>1, <2>2 DEF RoomTypes, Rows
    <3>2. left'[c] = IF c = op[r].conv THEN left[c] \union {op[r].by} ELSE left[c]
      BY <1>5, MarkLeftFacts
    <3>3. op[r].by \in Rows(op[r].conv)
      BY <1>5, MarkLeftFacts
    <3> QED BY <3>1, <3>2, <3>3
  <2> QED BY <1>5, <2>1, <2>2, <2>3, MarkLeftFacts DEF RoomTypes
<1>6. CASE WriteFlag(r)
  <2>1. RoomTypes
    BY DEF Ground
  <2>2. UNCHANGED <<mix, type, role, left, name, notes, met>> /\ flags' \in [Conv -> [User -> SUBSET Flag]]
    BY <1>6, WriteFlagFacts
  <2> QED BY <2>1, <2>2 DEF RoomTypes, Rows
<1> QED BY <1>1, <1>2, <1>3, <1>4, <1>5, <1>6 DEF ConversationChange, WritesRooms

LEMMA ChangeKeepsStages ==
    ASSUME Ground, NEW r \in Call, ConversationChange(r)
    PROVE  Stages(r)'
<1>1. CASE Begins(r)
  <2>1. PICK what : op' = [op EXCEPT ![r] = what] /\ Asks(what)
    BY <1>1 DEF Begins
  <2>2. op'[r] = what /\ pc'[r] = "find" /\ UNCHANGED type
    BY <1>1, <2>1 DEF Begins, rooms, Ground, CallTypes
  <2>3. Asks(op[r])'
    BY <2>1, <2>2 DEF Asks
  <2> QED BY <2>2, <2>3 DEF Stages
<1>2. CASE Moves(r) /\ Stages(r)'
  BY <1>2
<1>3. ASSUME Asks(op[r]), op' = op, pc'[r] = "done" PROVE Stages(r)'
  <2>1. Asks(op[r])'
    BY <1>3, ChangeKeeps DEF Asks, Keeps
  <2> QED BY <1>3, <2>1 DEF Stages
<1>4. ASSUME Asks(op[r]), op' = op, pc'[r] = "note", op[r].kind \in {"add", "leave"}, type[op[r].conv] = "group"
      PROVE  Stages(r)'
  <2>1. Asks(op[r])'
    BY <1>4, ChangeKeeps DEF Asks, Keeps
  <2>2. IsGroup(r)'
    BY <1>4, ChangeKeeps DEF Asks, Keeps, IsGroup, None
  <2> QED BY <1>4, <2>1, <2>2 DEF Stages, Kind
<1>5. CASE InsertConversation(r)
  BY <1>3, <1>5, InsertConversationFacts
<1>6. CASE UpsertParticipant(r)
  BY <1>4, <1>6, UpsertFacts DEF Kind
<1>7. CASE MarkLeft(r)
  BY <1>3, <1>4, <1>7, MarkLeftFacts DEF Kind, IsGroup
<1>8. CASE WriteFlag(r)
  BY <1>3, <1>8, WriteFlagFacts
<1> QED BY <1>1, <1>2, <1>5, <1>6, <1>7, <1>8 DEF ConversationChange, WritesRooms

LEMMA ChangeKeepsMet ==
    ASSUME Ground, NEW r \in Call, ConversationChange(r)
    PROVE  MetWhenTwo'
<1> SUFFICES ASSUME NEW p \in Call, NEW q \in Call, p # q,
                    pc'[p] \in Running, pc'[q] \in Running
             PROVE  {p, q} \in met'
  BY DEF MetWhenTwo
<1>1. CASE Begins(r)
  <2>1. \A s \in Call : pc'[s] \in Running => s = r \/ s \in InFlight
    BY <1>1 DEF Begins, InFlight, Ground, CallTypes
  <2>2. met' = met \union {{s, r} : s \in InFlight}
    BY <1>1 DEF Begins
  <2>3. CASE p # r /\ q # r
    <3>1. {p, q} \in met
      BY <2>1, <2>3 DEF Ground, MetWhenTwo, InFlight
    <3> QED BY <2>2, <3>1
  <2>4. CASE p = r \/ q = r
    <3>1. PICK s \in InFlight : {p, q} = {s, r}
      BY <2>1, <2>4
    <3> QED BY <2>2, <3>1
  <2> QED BY <2>3, <2>4
<1>2. CASE pc[r] \in Running
  <2>1. pc[p] \in Running /\ pc[q] \in Running
    BY <1>2, ChangeKeeps DEF Keeps
  <2>2. {p, q} \in met
    BY <2>1 DEF Ground, MetWhenTwo
  <2> QED BY <2>2, ChangeKeeps DEF Keeps
<1>3. \/ Begins(r) \/ pc[r] \in Running
  <2>1. "insert" \in Running /\ "write" \in Running
    BY DEF Running
  <2> QED BY <2>1 DEF ConversationChange, Moves, WritesRooms, InsertConversation, UpsertParticipant,
                      MarkLeft, WriteFlag
<1> QED BY <1>1, <1>2, <1>3

LEMMA ChangeKeepsOrigins ==
    ASSUME Ground, NEW r \in Call, ConversationChange(r)
    PROVE  Origins'
<1>0. Origins /\ Keeps(r)
  BY ChangeKeeps DEF Ground
<1>1. \A q \in Call : pc[q] = "done" => pc'[q] = "done" /\ op'[q] = op[q]
  <2>1. pc[r] # "done"
    BY DEF ConversationChange, Begins, Moves, Running, WritesRooms, InsertConversation,
           UpsertParticipant, MarkLeft, WriteFlag
  <2> QED BY <1>0, <2>1 DEF Keeps
<1>2. \A q \in notes' : pc'[q] = "done"
  <2>1. notes' = notes \/ (notes' = notes \union {r} /\ pc'[r] = "done")
    <3>1. CASE Begins(r)
      BY <3>1 DEF Begins, rooms
    <3>2. CASE Moves(r)
      BY <3>2 DEF Moves
    <3>3. CASE WritesRooms(r)
      BY <3>3 DEF WritesRooms, InsertConversation, UpsertParticipant, MarkLeft, WriteFlag
    <3> QED BY <3>1, <3>2, <3>3 DEF ConversationChange
  <2>2. notes \subseteq Call
    BY DEF Ground, RoomTypes
  <2> QED BY <1>0, <1>1, <2>1, <2>2 DEF Origins
<1>3. CASE InsertConversation(r)
  <2>1. ASSUME NEW c \in Conv, type'[c] = None PROVE Rows(c)' = {}
    <3>1. c # r
      BY <1>3, <2>1, InsertConversationFacts DEF None
    <3>2. role'[c] = role[c] /\ type'[c] = type[c]
      BY <1>3, <3>1, InsertConversationFacts
    <3> QED BY <1>0, <2>1, <3>2 DEF Origins, Rows
  <2>2. ASSUME NEW c \in Call, type'[c] # None PROVE pc'[c] = "done" /\ Kind(c, "create")'
    <3>1. CASE c = r
      BY <1>3, <3>1, InsertConversationFacts DEF Kind
    <3>2. CASE c # r
      BY <1>0, <1>1, <1>3, <2>2, <3>2, InsertConversationFacts DEF Origins, Kind, Conv
    <3> QED BY <3>1, <3>2
  <2> QED BY <1>2, <2>1, <2>2 DEF Origins
<1>4. ASSUME UNCHANGED type, \A c \in Conv : type[c] = None => Rows(c)' = Rows(c) PROVE Origins'
  <2>1. \A c \in Conv : type'[c] = None => Rows(c)' = {}
    BY <1>0, <1>4 DEF Origins
  <2>2. \A c \in Call : type'[c] # None => pc'[c] = "done" /\ Kind(c, "create")'
    BY <1>0, <1>1, <1>4 DEF Origins, Kind
  <2> QED BY <1>2, <2>1, <2>2 DEF Origins
<1>5. CASE Begins(r)
  BY <1>4, <1>5 DEF Begins, rooms, Rows
<1>6. CASE Moves(r)
  BY <1>4, <1>6 DEF Moves, Rows
<1>7. CASE UpsertParticipant(r)
  <2>1. ASSUME NEW c \in Conv, type[c] = None PROVE Rows(c)' = Rows(c)
    <3>1. c # op[r].conv
      BY <1>7, <2>1, UpsertFacts DEF None
    <3>2. \A u \in User : role'[c][u] = role[c][u]
      BY <1>7, <3>1, UpsertFacts
    <3> QED BY <3>2 DEF Rows
  <2> QED BY <1>4, <1>7, <2>1, UpsertFacts
<1>8. CASE MarkLeft(r)
  BY <1>4, <1>8, MarkLeftFacts DEF Rows
<1>9. CASE WriteFlag(r)
  BY <1>4, <1>9, WriteFlagFacts DEF Rows
<1> QED BY <1>3, <1>5, <1>6, <1>7, <1>8, <1>9 DEF ConversationChange, WritesRooms

LEMMA ChangeKeepsGround ==
    ASSUME Ground, NEW r \in Call, ConversationChange(r)
    PROVE  Ground'
<1>1. CallTypes'
  <2>1. Begun' \in SUBSET (Begun \union {r})
    BY ChangeKeeps DEF Begun, Keeps
  <2>2. IsFiniteSet(Begun \union {r})
    BY FS_AddElement DEF Ground, CallTypes
  <2>3. IsFiniteSet(Begun')
    BY <2>1, <2>2, FS_Subset
  <2> QED BY <2>3, ChangeKeeps DEF CallTypes, Keeps
<1>2. \A q \in Call : Stages(q)'
  BY ChangeKeepsStages, ChangeKeeps, OthersStay
<1> QED BY <1>1, <1>2, ChangeKeepsRooms, ChangeKeepsMet, ChangeKeepsOrigins DEF Ground

LEMMA InitGround == Init => Ground
<1> SUFFICES ASSUME Init PROVE Ground
  OBVIOUS
<1>1. ConversationsInit
  BY DEF Init
<1>2. type \in [Conv -> {None, "direct", "group"}] /\ \A c \in Conv \ {Earlier} : type[c] = None
  BY <1>1 DEF ConversationsInit
<1>3. role \in [Conv -> [User -> {None, "member", "owner"}]]
  BY <1>1 DEF ConversationsInit, RoleOf
<1>4. RoomTypes
  BY <1>1, <1>2, <1>3 DEF ConversationsInit, RoomTypes, Flag
<1>5. Begun = {} /\ InFlight = {} /\ \A r \in Call : pc[r] = "idle" /\ op[r] = NoOp
  BY <1>1 DEF ConversationsInit, Begun, InFlight, Running
<1>6. CallTypes
  BY <1>1, <1>5, FS_EmptySet DEF ConversationsInit, CallTypes
<1>7. \A r \in Call : Stages(r)
  BY <1>5 DEF Stages, NoOp, Kind, Kinds, Toggles, None
<1>8. MetWhenTwo
  BY <1>5 DEF MetWhenTwo, InFlight
<1>9. Origins
  <2>1. \A c \in Conv : type[c] = None => Rows(c) = {}
    BY <1>1 DEF ConversationsInit, Rows, RoleOf
  <2>2. \A c \in Call : type[c] = None
    BY <1>2, ConversationsAssumption DEF Conv
  <2> QED BY <1>1, <2>1, <2>2 DEF Origins, ConversationsInit
<1> QED BY <1>4, <1>6, <1>7, <1>8, <1>9 DEF Ground

-----------------------------------------------------------------------------
(***************************************************************************)
(* What a call alone may rely on, the owners, and direct conversations.      *)
(***************************************************************************)
\* What is written stays written.
LEMMA ChangedGrows ==
    ASSUME Ground, NEW r \in Call, ConversationChange(r)
    PROVE  /\ \A c, u : Changed(c, u) \subseteq Changed(c, u)'
           /\ \A k, c, u : Toggled(k, c, u) \subseteq Toggled(k, c, u)'
<1>1. \A q \in Call \ {r} : pc'[q] = pc[q] /\ op'[q] = op[q]
  BY ChangeKeeps DEF Keeps
<1>2. pc[r] \notin {"failed", "done"}
  BY DEF ConversationChange, Begins, Moves, Running, WritesRooms, InsertConversation,
         UpsertParticipant, MarkLeft, WriteFlag
<1>3. ASSUME op[r].kind \in {"add", "leave"}, pc[r] = "note"
      PROVE  op'[r] = op[r] /\ pc'[r] \in {"failed", "done"}
  <2>1. Moves(r)
    BY <1>3 DEF ConversationChange, Begins, WritesRooms, InsertConversation, UpsertParticipant,
                MarkLeft, WriteFlag
  <2> QED BY <1>3, <2>1 DEF Moves, KeepsCall
<1>4. \A k \in {"add", "leave"} : \A c, u : Changes(k, c, u) \subseteq Changes(k, c, u)'
  BY <1>1, <1>2, <1>3 DEF Changes, Kind
<1>5. \A k, c, u : Toggled(k, c, u) \subseteq Toggled(k, c, u)'
  BY <1>1, <1>2 DEF Toggled, Kind
<1> QED BY <1>4, <1>5 DEF Changed

\* What a step may take from under the others: an existing conversation, who takes
\* part, a setting, each by a write of its own.
LEMMA WhatAStepDisturbs ==
    ASSUME Ground, NEW r \in Call, ConversationChange(r)
    PROVE  /\ \A S : \A d \in ExistingDirect(S)' : d \in ExistingDirect(S) \/ (d = r /\ WritesRooms(r))
           /\ \A c \in Conv, u \in User : type[c] # None =>
                \/ u \in Present(c)' <=> u \in Present(c)
                \/ WritesRooms(r) /\ r \in Changed(c, u)'
           /\ \A k \in Toggles, c \in Conv, u \in User :
                \/ FlagOf(k) \in flags'[c][u] <=> FlagOf(k) \in flags[c][u]
                \/ WritesRooms(r) /\ r \in Toggled(k, c, u)'
<1>0. \A c \in Conv : left[c] \subseteq User
  BY DEF Ground, RoomTypes
<1>1. CASE Begins(r) \/ Moves(r)
  <2>1. UNCHANGED <<type, role, left, flags>>
    BY <1>1 DEF Begins, Moves, rooms
  <2> QED BY <2>1 DEF ExistingDirect, Present, Rows
<1>2. CASE InsertConversation(r)
  <2>1. ASSUME NEW S, NEW d \in ExistingDirect(S)', d # r PROVE d \in ExistingDirect(S)
    BY <1>2, <2>1, InsertConversationFacts DEF ExistingDirect, Present, Rows
  <2>2. ASSUME NEW c \in Conv, type[c] # None PROVE Present(c)' = Present(c)
    BY <1>2, <2>2, InsertConversationFacts DEF Present, Rows
  <2> QED BY <1>2, <2>1, <2>2, InsertConversationFacts DEF WritesRooms
<1>3. CASE UpsertParticipant(r)
  <2>1. ASSUME NEW c \in Conv, type'[c] = "direct"
        PROVE  type[c] = "direct" /\ left'[c] = left[c] /\ Rows(c)' = Rows(c)
    <3>1. type[c] = "direct" /\ c # op[r].conv
      BY <1>3, <2>1, UpsertFacts
    <3>2. \A u \in User : role'[c][u] = role[c][u] /\ (u \in left'[c] <=> u \in left[c])
      BY <1>3, <3>1, UpsertFacts
    <3>3. left'[c] \subseteq User
      BY <1>3, UpsertFacts
    <3> QED BY <1>0, <3>1, <3>2, <3>3 DEF Rows
  <2>2. ASSUME NEW S, NEW d \in ExistingDirect(S)' PROVE d \in ExistingDirect(S)
    BY <2>1, <2>2 DEF ExistingDirect, Present
  <2>3. ASSUME NEW c \in Conv, NEW u \in User
        PROVE  (u \in Present(c)' <=> u \in Present(c)) \/ r \in Changed(c, u)'
    <3>1. CASE c = op[r].conv /\ u = op[r].whom
      <4>1. op' = op /\ pc'[r] = "note" /\ Kind(r, "add")
        BY <1>3, UpsertFacts
      <4> QED BY <3>1, <4>1 DEF Changed, Changes, Kind
    <3>2. CASE ~(c = op[r].conv /\ u = op[r].whom)
      <4>1. role'[c][u] = role[c][u] /\ (u \in left'[c] <=> u \in left[c])
        BY <1>3, <3>2, UpsertFacts
      <4> QED BY <4>1 DEF Present, Rows
    <3> QED BY <3>1, <3>2
  <2> QED BY <1>3, <2>2, <2>3, UpsertFacts DEF WritesRooms
<1>4. CASE MarkLeft(r)
  <2>1. /\ UNCHANGED <<type, role, flags, op>> /\ Kind(r, "leave") /\ pc'[r] \in {"note", "done"}
        /\ \A c \in Conv : left'[c] = IF c = op[r].conv THEN left[c] \union {op[r].by} ELSE left[c]
    BY <1>4, MarkLeftFacts
  <2>2. ASSUME NEW S, NEW d \in ExistingDirect(S)' PROVE d \in ExistingDirect(S)
    <3>1. d \in Conv /\ left'[d] = {} /\ left[d] = {}
      BY <2>1, <2>2 DEF ExistingDirect
    <3> QED BY <2>1, <2>2, <3>1 DEF ExistingDirect, Present, Rows
  <2>3. ASSUME NEW c \in Conv, NEW u \in User
        PROVE  (u \in Present(c)' <=> u \in Present(c)) \/ r \in Changed(c, u)'
    BY <2>1 DEF Present, Rows, Changed, Changes, Kind
  <2> QED BY <1>4, <2>1, <2>2, <2>3 DEF WritesRooms
<1>5. CASE WriteFlag(r)
  <2>1. UNCHANGED <<type, role, left, op>> /\ pc'[r] = "done" /\ op[r].kind \in Toggles
    BY <1>5, WriteFlagFacts
  <2>2. ASSUME NEW k \in Toggles, NEW c \in Conv, NEW u \in User
        PROVE  (FlagOf(k) \in flags'[c][u] <=> FlagOf(k) \in flags[c][u]) \/ r \in Toggled(k, c, u)'
    <3>1. FlagOf(k) \in Flag
      BY DEF FlagOf, Flag
    <3>2. FlagOf(k) = FlagOf(op[r].kind) <=> k = op[r].kind
      BY <2>1 DEF FlagOf, Toggles
    <3>3. FlagOf(k) \in flags'[c][u] <=>
            IF c = op[r].conv /\ u = op[r].by /\ FlagOf(k) = FlagOf(op[r].kind)
              THEN op[r].set ELSE FlagOf(k) \in flags[c][u]
      BY <1>5, <3>1, WriteFlagFacts
    <3> QED BY <2>1, <3>2, <3>3 DEF Toggled, Kind
  <2> QED BY <1>5, <2>1, <2>2 DEF WritesRooms, ExistingDirect, Present, Rows
<1> QED BY <1>1, <1>2, <1>3, <1>4, <1>5 DEF ConversationChange, WritesRooms

LEMMA ReadsStayTrue ==
    ASSUME Ground, NEW r \in Call, ConversationChange(r),
           \A q \in Call : StillTrue(q)
    PROVE  \A q \in Call : StillTrue(q)'
<1> SUFFICES ASSUME NEW q \in Call PROVE StillTrue(q)'
  OBVIOUS
<1>1. CASE q # r /\ pc[q] \in {"insert", "write"}
  <2>1. pc'[q] = pc[q] /\ op'[q] = op[q] /\ met \subseteq met'
    BY <1>1, ChangeKeeps DEF Keeps
  <2>2. WritesRooms(r) => {r, q} \in met'
    <3>1. pc[q] \in Running
      BY <1>1 DEF Running
    <3>2. WritesRooms(r) => pc[r] \in Running
      BY DEF WritesRooms, InsertConversation, UpsertParticipant, MarkLeft, WriteFlag, Running
    <3> QED BY <1>1, <2>1, <3>1, <3>2 DEF Ground, MetWhenTwo
  <2>3. Asks(op[q])
    BY <1>1, CallShape DEF Running
  <2>4. PICK o : o = op[q]
    OBVIOUS
  <2>5. ASSUME pc[q] = "insert", o.kind = "create", o.type = "direct",
               NEW d \in ExistingDirect(Listed(o.list))'
        PROVE  {d, q} \in met'
    <3>1. PICK S : S = Listed(o.list)
      OBVIOUS
    <3>2. d \in ExistingDirect(S)'
      BY <2>5, <3>1 DEF Listed, ExistingDirect
    <3>3. d \in ExistingDirect(S) \/ (d = r /\ WritesRooms(r))
      BY <3>2, WhatAStepDisturbs
    <3>4. d \in ExistingDirect(Listed(op[q].list)) => {d, q} \in met
      BY <2>4, <2>5 DEF StillTrue, Kind
    <3> QED BY <2>1, <2>2, <2>4, <3>1, <3>3, <3>4
  <2>6. ASSUME NEW c \in Conv, NEW u \in User, type[c] # None,
               ~(u \in Present(c)' <=> u \in Present(c)) \/ MetOneOf(q, Changed(c, u))
        PROVE  MetOneOf(q, Changed(c, u))'
    <3>1. CASE MetOneOf(q, Changed(c, u))
      BY <2>1, <3>1, ChangedGrows DEF MetOneOf
    <3>2. CASE ~(u \in Present(c)' <=> u \in Present(c))
      BY <2>2, <2>6, <3>2, WhatAStepDisturbs DEF MetOneOf
    <3> QED BY <2>6, <3>1, <3>2
  <2>7. ASSUME NEW k \in Toggles, NEW c \in Conv, NEW u \in User,
               ~(FlagOf(k) \in flags'[c][u] <=> FlagOf(k) \in flags[c][u]) \/ MetOneOf(q, Toggled(k, c, u))
        PROVE  MetOneOf(q, Toggled(k, c, u))'
    <3>1. CASE MetOneOf(q, Toggled(k, c, u))
      BY <2>1, <3>1, ChangedGrows DEF MetOneOf
    <3>2. CASE ~(FlagOf(k) \in flags'[c][u] <=> FlagOf(k) \in flags[c][u])
      BY <2>2, <2>7, <3>2, WhatAStepDisturbs DEF MetOneOf
    <3> QED BY <2>7, <3>1, <3>2
  <2>8. o.kind # "create" => o.conv \in Conv /\ o.by \in User /\ type[o.conv] # None
    BY <2>3, <2>4 DEF Asks
  <2>9. o.kind = "add" => o.whom \in User
    BY <2>3, <2>4 DEF Asks
  <2>10. ASSUME pc[q] = "write", o.kind = "add"
         PROVE  o.whom \notin Present(o.conv)' \/ MetOneOf(q, Changed(o.conv, o.whom))'
    <3>1. o.whom \notin Present(o.conv) \/ MetOneOf(q, Changed(o.conv, o.whom))
      BY <2>4, <2>10 DEF StillTrue, Kind
    <3> QED BY <2>6, <2>8, <2>9, <2>10, <3>1
  <2>11. ASSUME pc[q] = "write", o.kind = "leave"
         PROVE  o.by \in Present(o.conv)' \/ MetOneOf(q, Changed(o.conv, o.by))'
    <3>1. o.by \in Present(o.conv) \/ MetOneOf(q, Changed(o.conv, o.by))
      BY <2>4, <2>11 DEF StillTrue, Kind
    <3> QED BY <2>6, <2>8, <2>11, <3>1
  <2>12. ASSUME pc[q] = "write", o.kind \in Toggles
         PROVE  \/ o.set <=> FlagOf(o.kind) \notin flags'[o.conv][o.by]
                \/ MetOneOf(q, Toggled(o.kind, o.conv, o.by))'
    <3>1. \/ o.set <=> FlagOf(o.kind) \notin flags[o.conv][o.by]
          \/ MetOneOf(q, Toggled(o.kind, o.conv, o.by))
      BY <2>4, <2>12 DEF StillTrue
    <3>2. o.kind # "create"
      BY <2>12 DEF Toggles
    <3> QED BY <2>7, <2>8, <2>12, <3>1, <3>2
  <2>13. op'[q] = o /\ pc'[q] = pc[q]
    BY <2>1, <2>4
  <2>14. pc'[q] = "insert" /\ op'[q].kind = "create" /\ op'[q].type = "direct" =>
           \A d \in ExistingDirect(Listed(op[q].list))' : {d, q} \in met'
    BY <2>5, <2>13 DEF ExistingDirect, Listed, Rows, Present
  <2>15. pc'[q] = "write" /\ op'[q].kind = "add" =>
           (op[q].whom \notin Present(op[q].conv) \/ MetOneOf(q, Changed(op[q].conv, op[q].whom)))'
    BY <2>10, <2>13 DEF Present, Rows, MetOneOf, Changed, Changes, Kind
  <2>16. pc'[q] = "write" /\ op'[q].kind = "leave" =>
           (op[q].by \in Present(op[q].conv) \/ MetOneOf(q, Changed(op[q].conv, op[q].by)))'
    BY <2>11, <2>13 DEF Present, Rows, MetOneOf, Changed, Changes, Kind
  <2>17. pc'[q] = "write" /\ op'[q].kind \in Toggles =>
           ((op[q].set <=> FlagOf(op[q].kind) \notin flags[op[q].conv][op[q].by])
              \/ MetOneOf(q, Toggled(op[q].kind, op[q].conv, op[q].by)))'
    BY <2>12, <2>13 DEF MetOneOf, Toggled, Kind
  <2> QED BY <2>14, <2>15, <2>16, <2>17 DEF StillTrue, Kind
<1>2. CASE q # r /\ pc[q] \notin {"insert", "write"}
  <2>1. pc'[q] = pc[q]
    BY <1>2, ChangeKeeps DEF Keeps
  <2> QED BY <1>2, <2>1 DEF StillTrue
<1>3. CASE q = r
  <2>1. CASE Begins(r)
    <3>1. pc'[r] = "find"
      BY <2>1 DEF Begins, Ground, CallTypes
    <3> QED BY <1>3, <3>1 DEF StillTrue
  <2>2. CASE WritesRooms(r)
    <3>1. pc'[r] \in {"done", "note"}
      BY <2>2, InsertConversationFacts, UpsertFacts, MarkLeftFacts, WriteFlagFacts DEF WritesRooms
    <3> QED BY <1>3, <3>1 DEF StillTrue
  <2> QED BY <1>3, <2>1, <2>2 DEF ConversationChange
<1> QED BY <1>1, <1>2, <1>3

\* A conversation was created by a call that has ended, so whom it was created
\* with no longer changes.
LEMMA FirstStays ==
    ASSUME Ground, NEW r \in Call, ConversationChange(r), NEW c \in Conv, type[c] # None
    PROVE  First(c)' = First(c) /\ First(c) \in Lists \union {Couple} /\ type'[c] = type[c] /\ c # r
<1>1. CASE c = Earlier
  BY <1>1, ChangeKeeps, ConversationsAssumption DEF First, Keeps
<1>2. CASE c # Earlier
  <2>1. c \in Call /\ pc[c] = "done" /\ Kind(c, "create")
    BY <1>2 DEF Conv, Ground, Origins
  <2>2. Stages(c) /\ Asks(op[c])
    BY <2>1, CallShape DEF Stages
  <2>3. c # r
    BY <2>1 DEF ConversationChange, Begins, Moves, Running, WritesRooms, InsertConversation,
           UpsertParticipant, MarkLeft, WriteFlag
  <2>4. op'[c] = op[c] /\ type'[c] = type[c]
    BY <2>1, <2>3, ChangeKeeps DEF Keeps
  <2> QED BY <1>2, <2>1, <2>2, <2>3, <2>4 DEF First, Asks, Kind
<1> QED BY <1>1, <1>2

LEMMA OwnersStay ==
    ASSUME Ground, NEW r \in Call, ConversationChange(r), Owned
    PROVE  Owned'
<1> SUFFICES ASSUME NEW c \in Conv, NEW u \in User, type'[c] = "group"
             PROVE  role'[c][u] = "owner" <=> u = Head(First(c)')
  BY DEF Owned
<1>1. CASE type[c] # None
  <2>1. First(c)' = First(c) /\ type[c] = "group" /\ c # r
    BY <1>1, FirstStays
  <2>2. role[c][u] = "owner" <=> u = Head(First(c))
    BY <2>1 DEF Owned
  <2>3. role'[c][u] = "owner" <=> role[c][u] = "owner"
    <3>1. CASE InsertConversation(r)
      BY <2>1, <3>1, InsertConversationFacts
    <3>2. CASE UpsertParticipant(r)
      <4>1. CASE role[c][u] = None
        <5>1. role'[c][u] = "member" \/ role'[c][u] = role[c][u]
          BY <3>2, <4>1, UpsertFacts
        <5> QED BY <4>1, <5>1 DEF None
      <4>2. CASE role[c][u] # None
        BY <3>2, <4>2, UpsertFacts
      <4> QED BY <4>1, <4>2
    <3>3. CASE MarkLeft(r)
      BY <3>3, MarkLeftFacts
    <3>4. CASE WriteFlag(r)
      BY <3>4, WriteFlagFacts
    <3>5. CASE Begins(r) \/ Moves(r)
      BY <3>5 DEF Begins, Moves, rooms
    <3> QED BY <3>1, <3>2, <3>3, <3>4, <3>5 DEF ConversationChange, WritesRooms
  <2> QED BY <2>1, <2>2, <2>3
<1>2. CASE type[c] = None
  <2>1. InsertConversation(r)
    <3>1. type' # type
      BY <1>2 DEF None
    <3> QED BY <3>1, UpsertFacts, MarkLeftFacts, WriteFlagFacts
            DEF ConversationChange, WritesRooms, Begins, Moves, rooms
  <2>2. c = r
    BY <1>2, <2>1, InsertConversationFacts DEF None
  <2>3. role'[c][u] = RoleOf("group", op[r].list)[u] /\ op[r].list \in Lists
    BY <2>1, <2>2, InsertConversationFacts
  <2>4. First(c)' = op[r].list
    BY <2>1, <2>2, InsertConversationFacts, ConversationsAssumption DEF First
  <2>5. Head(op[r].list) \in Listed(op[r].list)
    BY <2>3, ListOK
  <2> QED BY <2>3, <2>4, <2>5 DEF RoleOf, None
<1> QED BY <1>1, <1>2

LEMMA DirectStays ==
    ASSUME Ground, NEW r \in Call, ConversationChange(r), StillTrue(r), DirectOnce
    PROVE  DirectOnce'
<1> DEFINE Twice(c, d) ==
        /\ type[c] = "direct" /\ type[d] = "direct" /\ c # d
        /\ left[c] = {} /\ left[d] = {} /\ Rows(c) = Rows(d)
<1>0. met \subseteq met'
  BY ChangeKeeps DEF Keeps
<1>1. ASSUME NEW c \in Conv, NEW d \in Conv, Twice(c, d)', Twice(c, d) PROVE {c, d} \in met'
  BY <1>0, <1>1 DEF DirectOnce
<1>2. CASE InsertConversation(r)
  <2>1. ASSUME NEW d \in Conv, Twice(r, d)' PROVE {d, r} \in met'
    <3>1. op[r].type = "direct" /\ d # r /\ type[d] = "direct" /\ left[d] = {}
      BY <1>2, <2>1, InsertConversationFacts
    <3>2. Rows(d)' = Rows(d)
      BY <1>2, <3>1, InsertConversationFacts DEF Rows
    <3>3. Rows(r)' = Listed(op[r].list)
      <4>1. role'[r] = RoleOf("direct", op[r].list) /\ op[r].list \in Lists
        BY <1>2, <3>1, InsertConversationFacts
      <4>2. Rows(r)' = {u \in User : u \in Listed(op[r].list)}
        BY <4>1 DEF Rows, RoleOf, None
      <4> QED BY <4>1, <4>2, ListOK
    <3>4. d \in ExistingDirect(Listed(op[r].list))
      BY <2>1, <3>1, <3>2, <3>3 DEF ExistingDirect, Present
    <3> QED BY <1>0, <1>2, <3>1, <3>4, InsertConversationFacts DEF StillTrue
  <2>2. ASSUME NEW c \in Conv, NEW d \in Conv, Twice(c, d)', c # r, d # r PROVE Twice(c, d)
    BY <1>2, <2>2, InsertConversationFacts DEF Rows
  <2>3. ASSUME NEW c \in Conv, NEW d \in Conv, Twice(c, d)' PROVE {c, d} \in met'
    <3>1. CASE c = r
      <4>1. {d, r} \in met' /\ {d, r} = {c, d}
        BY <2>1, <2>3, <3>1
      <4> QED BY <4>1
    <3>2. CASE d = r
      <4>1. Twice(d, c)'
        BY <2>3
      <4>2. {c, r} \in met'
        BY <2>1, <3>2, <4>1
      <4> QED BY <3>2, <4>2
    <3>3. CASE c # r /\ d # r
      BY <1>1, <2>2, <2>3, <3>3
    <3> QED BY <3>1, <3>2, <3>3
  <2> QED BY <2>3 DEF DirectOnce
<1>3. CASE UpsertParticipant(r)
  <2>1. ASSUME NEW c \in Conv, type'[c] = "direct"
        PROVE  type[c] = "direct" /\ left'[c] = left[c] /\ Rows(c)' = Rows(c)
    <3>1. type[c] = "direct" /\ c # op[r].conv
      BY <1>3, <2>1, UpsertFacts
    <3>2. \A u \in User : role'[c][u] = role[c][u] /\ (u \in left'[c] <=> u \in left[c])
      BY <1>3, <3>1, UpsertFacts
    <3>3. left[c] \subseteq User /\ left'[c] \subseteq User
      BY <1>3, UpsertFacts DEF Ground, RoomTypes
    <3> QED BY <3>1, <3>2, <3>3 DEF Rows
  <2>2. ASSUME NEW c \in Conv, NEW d \in Conv, Twice(c, d)' PROVE Twice(c, d)
    BY <2>1, <2>2
  <2> QED BY <1>1, <2>2 DEF DirectOnce
<1>4. ASSUME UNCHANGED <<type, role>>, \A c \in Conv : left[c] \subseteq left'[c] PROVE DirectOnce'
  <2>1. ASSUME NEW c \in Conv, NEW d \in Conv, Twice(c, d)' PROVE Twice(c, d)
    BY <1>4, <2>1 DEF Rows
  <2> QED BY <1>1, <2>1 DEF DirectOnce
<1>5. CASE MarkLeft(r)
  BY <1>4, <1>5, MarkLeftFacts
<1>6. CASE WriteFlag(r)
  BY <1>4, <1>6, WriteFlagFacts
<1>7. CASE Begins(r) \/ Moves(r)
  BY <1>4, <1>7 DEF Begins, Moves, rooms
<1> QED BY <1>2, <1>3, <1>5, <1>6, <1>7 DEF ConversationChange, WritesRooms

-----------------------------------------------------------------------------
(***************************************************************************)
(* The settings.                                                            *)
(***************************************************************************)
LEMMA OneMoreIsOdd ==
    ASSUME NEW S, IsFiniteSet(S), NEW r, r \notin S
    PROVE  Cardinality(S \union {r}) % 2 = 1 <=> ~(Cardinality(S) % 2 = 1)
<1>1. Cardinality(S) \in Nat /\ Cardinality(S \union {r}) = Cardinality(S) + 1
  BY FS_AddElement, FS_CardinalityType
<1>2. \A n \in Nat : (n + 1) % 2 = 1 <=> ~(n % 2 = 1)
  OBVIOUS
<1> QED BY <1>1, <1>2

LEMMA SettingsStay ==
    ASSUME Ground, NEW r \in Call, ConversationChange(r), StillTrue(r), FlagsCount
    PROVE  FlagsCount'
<1> SUFFICES ASSUME NEW c \in Conv, NEW u \in User, NEW k \in Toggles,
                    \A p, q \in Toggled(k, c, u)' : {p, q} \notin met'
             PROVE  FlagOf(k) \in flags'[c][u] <=> Cardinality(Toggled(k, c, u)') % 2 = 1
  BY DEF FlagsCount, Toggled
<1>0. Keeps(r) /\ met \subseteq met' /\ \A q \in Call \ {r} : pc'[q] = pc[q] /\ op'[q] = op[q]
  BY ChangeKeeps DEF Keeps
<1>1. ASSUME \A p, q \in Toggled(k, c, u) : {p, q} \notin met
      PROVE  FlagOf(k) \in flags[c][u] <=> Cardinality(Toggled(k, c, u)) % 2 = 1
  BY <1>1 DEF FlagsCount, Toggled
<1>2. pc[r] # "done"
  BY DEF ConversationChange, Begins, Moves, Running, WritesRooms, InsertConversation,
         UpsertParticipant, MarkLeft, WriteFlag
<1>3. ASSUME pc'[r] = "done" => op'[r].kind \notin Toggles, flags' = flags
      PROVE  FlagOf(k) \in flags'[c][u] <=> Cardinality(Toggled(k, c, u)') % 2 = 1
  <2>1. ~(pc'[r] = "done" /\ op'[r].kind = k)
    BY <1>3
  <2>2. Toggled(k, c, u)' = Toggled(k, c, u)
    BY <1>0, <1>2, <2>1 DEF Toggled, Kind
  <2> QED BY <1>0, <1>1, <1>3, <2>2
<1>4. CASE WriteFlag(r)
  <2>1. /\ pc[r] = "write" /\ pc'[r] = "done" /\ op' = op /\ met' = met
        /\ op[r].kind \in Toggles
    BY <1>4, WriteFlagFacts
  <2>2. FlagOf(k) \in Flag
    BY DEF FlagOf, Flag
  <2>3. FlagOf(k) \in flags'[c][u] <=>
          IF c = op[r].conv /\ u = op[r].by /\ FlagOf(k) = FlagOf(op[r].kind)
            THEN op[r].set ELSE FlagOf(k) \in flags[c][u]
    BY <1>4, <2>2, WriteFlagFacts
  <2>4. FlagOf(k) = FlagOf(op[r].kind) <=> k = op[r].kind
    BY <2>1 DEF FlagOf, Toggles
  <2>5. CASE c = op[r].conv /\ u = op[r].by /\ k = op[r].kind
    <3>1. Toggled(k, c, u)' = Toggled(k, c, u) \union {r} /\ r \notin Toggled(k, c, u)
      BY <1>0, <1>2, <2>1, <2>5 DEF Toggled, Kind
    <3>2. /\ \A p, q \in Toggled(k, c, u) : {p, q} \notin met
          /\ ~MetOneOf(r, Toggled(k, c, u))
      BY <2>1, <3>1 DEF MetOneOf
    <3>3. op[r].set <=> ~(FlagOf(k) \in flags[c][u])
      BY <2>1, <2>5, <3>2 DEF StillTrue
    <3>4. Toggled(k, c, u) \in SUBSET Begun
      BY DEF Toggled, Begun
    <3>5. IsFiniteSet(Toggled(k, c, u))
      BY <3>4, FS_Subset DEF Ground, CallTypes
    <3>6. Cardinality(Toggled(k, c, u)') % 2 = 1 <=> ~(Cardinality(Toggled(k, c, u)) % 2 = 1)
      BY <3>1, <3>5, OneMoreIsOdd
    <3>7. FlagOf(k) \in flags'[c][u] <=> op[r].set
      BY <2>3, <2>4, <2>5
    <3> QED BY <1>1, <3>2, <3>3, <3>6, <3>7
  <2>6. CASE ~(c = op[r].conv /\ u = op[r].by /\ k = op[r].kind)
    <3>1. Toggled(k, c, u)' = Toggled(k, c, u)
      BY <1>0, <1>2, <2>1, <2>6 DEF Toggled, Kind
    <3>2. FlagOf(k) \in flags'[c][u] <=> FlagOf(k) \in flags[c][u]
      BY <2>3, <2>4, <2>6
    <3> QED BY <1>1, <2>1, <3>1, <3>2
  <2> QED BY <2>5, <2>6
<1>5. CASE Begins(r)
  <2>1. pc'[r] = "find" /\ flags' = flags
    BY <1>5 DEF Begins, rooms, Ground, CallTypes
  <2> QED BY <1>3, <2>1
<1>6. CASE Moves(r)
  BY <1>3, <1>6 DEF Moves, KeepsCall
<1>7. CASE InsertConversation(r)
  BY <1>3, <1>7, InsertConversationFacts DEF Kind, Toggles
<1>8. CASE UpsertParticipant(r)
  BY <1>3, <1>8, UpsertFacts
<1>9. CASE MarkLeft(r)
  BY <1>3, <1>9, MarkLeftFacts DEF Kind, Toggles
<1> QED BY <1>4, <1>5, <1>6, <1>7, <1>8, <1>9 DEF ConversationChange, WritesRooms

-----------------------------------------------------------------------------
(***************************************************************************)
(* The system messages.                                                     *)
(***************************************************************************)
LEMMA ChangesFinite ==
    ASSUME Ground, NEW k, NEW c, NEW u
    PROVE  IsFiniteSet(Changes(k, c, u)) /\ Cardinality(Changes(k, c, u)) \in Nat
<1>1. Changes(k, c, u) \in SUBSET Begun
  BY DEF Changes, Begun
<1> QED BY <1>1, FS_Subset, FS_CardinalityType DEF Ground, CallTypes

\* A change that was not sure is not made so by what comes after it.
LEMMA SureShrinks ==
    ASSUME Ground, NEW r \in Call, ConversationChange(r), NEW c, NEW u,
           NEW q \in Sure(c, u)', q # r \/ q \in Changed(c, u)
    PROVE  q \in Sure(c, u)
<1>1. /\ \A p \in Call \ {r} : pc'[p] = pc[p] /\ op'[p] = op[p]
      /\ met \subseteq met' /\ Changed(c, u) \subseteq Changed(c, u)'
  BY ChangeKeeps, ChangedGrows DEF Keeps
<1>2. q \in Call /\ pc'[q] # "failed" /\ \A p \in Changed(c, u) : {p, q} \notin met
  BY <1>1 DEF Sure, Changed, Changes
<1>3. pc[r] # "failed"
  BY DEF ConversationChange, Begins, Moves, Running, WritesRooms, InsertConversation,
         UpsertParticipant, MarkLeft, WriteFlag
<1>4. pc[q] # "failed" /\ (q # r => q \in Changed(c, u))
  BY <1>1, <1>2, <1>3 DEF Sure, Changed, Changes, Kind
<1> QED BY <1>2, <1>4 DEF Sure

\* A step by which nobody comes or leaves has no part in the account.
LEMMA AccountStays ==
    ASSUME Ground, NEW r \in Call, ConversationChange(r), NEW W,
           NEW c \in Conv, NEW u \in User, type[c] = "group", Account(c, u, W),
           u \in Present(c)' <=> u \in Present(c),
           r \in Sure(c, u)' => r \in W
    PROVE  Account(c, u, W)'
<1>1. \A q \in Call \ {r} : pc'[q] = pc[q] /\ op'[q] = op[q]
  BY ChangeKeeps DEF Keeps
<1>2. W \subseteq Changed(c, u) /\ W \subseteq Changed(c, u)' /\ Sure(c, u)' \subseteq W
  <2>1. W \subseteq Changed(c, u) /\ Sure(c, u) \subseteq W
    BY DEF Account
  <2>2. \A q \in Sure(c, u)' : q # r => q \in W
    BY <2>1, SureShrinks
  <2> QED BY <2>1, <2>2, ChangedGrows
<1>3. \A k \in {"add", "leave"} : W \intersect Changes(k, c, u)' = W \intersect Changes(k, c, u)
  <2> SUFFICES ASSUME NEW k \in {"add", "leave"}, NEW q \in W
               PROVE  q \in Changes(k, c, u)' <=> q \in Changes(k, c, u)
    OBVIOUS
  <2>1. q \in Changed(c, u) /\ q \in Changed(c, u)'
    BY <1>2
  <2>2. op'[q].kind = op[q].kind
    <3>1. CASE q = r
      <4>1. pc[r] = "note"
        BY <2>1, <3>1 DEF Changed, Changes, ConversationChange, Begins, Moves, Running, WritesRooms,
                          InsertConversation, UpsertParticipant, MarkLeft, WriteFlag
      <4>2. Moves(r)
        BY <4>1 DEF ConversationChange, Begins, WritesRooms, InsertConversation, UpsertParticipant,
                    MarkLeft, WriteFlag
      <4> QED BY <3>1, <4>2 DEF Moves, KeepsCall
    <3>2. CASE q # r
      BY <1>1, <2>1, <3>2 DEF Changed, Changes
    <3> QED BY <3>1, <3>2
  <2> QED BY <2>1, <2>2 DEF Changed, Changes, Kind
<1>4. First(c)' = First(c)
  BY FirstStays DEF None
<1> QED BY <1>2, <1>3, <1>4 DEF Account

\* Somebody comes or leaves by a change r, which counts.
LEMMA AccountGrows ==
    ASSUME Ground, NEW r \in Call, ConversationChange(r), NEW W, NEW k \in {"add", "leave"},
           NEW c \in Conv, NEW u \in User, type[c] = "group", Account(c, u, W),
           Kind(r, k), op' = op, r \notin Changed(c, u), r \in Changes(k, c, u)',
           IF k = "add" THEN u \notin Present(c) /\ u \in Present(c)'
                        ELSE u \in Present(c) /\ u \notin Present(c)'
    PROVE  Account(c, u, W \union {r})'
<1> DEFINE V == W \union {r}
<1>1. \A q \in Call \ {r} : pc'[q] = pc[q]
  BY ChangeKeeps DEF Keeps
<1>2. W \subseteq Changed(c, u) /\ Sure(c, u) \subseteq W
  BY DEF Account
<1>3. V \subseteq Changed(c, u)'
  BY <1>2, ChangedGrows DEF Changed
<1>4. Sure(c, u)' \subseteq V
  BY <1>2, SureShrinks
<1>5. \A j \in {"add", "leave"} :
        V \intersect Changes(j, c, u)' = (W \intersect Changes(j, c, u)) \union (IF j = k THEN {r} ELSE {})
  <2>1. \A j \in {"add", "leave"} : j # k => r \notin Changes(j, c, u)'
    BY DEF Changes, Kind
  <2>2. \A j \in {"add", "leave"} : r \notin Changes(j, c, u)
    BY DEF Changed
  <2>3. \A j \in {"add", "leave"}, q \in W : q \in Changes(j, c, u)' <=> q \in Changes(j, c, u)
    BY <1>1, <1>2 DEF Changed, Changes, Kind
  <2> QED BY <2>1, <2>2, <2>3
<1>6. \A j \in {"add", "leave"} :
        /\ IsFiniteSet(W \intersect Changes(j, c, u)) /\ Cardinality(W \intersect Changes(j, c, u)) \in Nat
        /\ r \notin W \intersect Changes(j, c, u)
  BY <1>2, ChangesFinite, FS_Subset, FS_CardinalityType
<1>7. \A j \in {"add", "leave"} :
        Cardinality(V \intersect Changes(j, c, u)')
          = Cardinality(W \intersect Changes(j, c, u)) + (IF j = k THEN 1 ELSE 0)
  <2> SUFFICES ASSUME NEW j \in {"add", "leave"}
               PROVE  Cardinality(V \intersect Changes(j, c, u)')
                        = Cardinality(W \intersect Changes(j, c, u)) + (IF j = k THEN 1 ELSE 0)
    OBVIOUS
  <2>1. PICK P : P = W \intersect Changes(j, c, u)
    OBVIOUS
  <2>2. IsFiniteSet(P) /\ Cardinality(P) \in Nat /\ r \notin P
    BY <1>6, <2>1
  <2>3. V \intersect Changes(j, c, u)' = P \union (IF j = k THEN {r} ELSE {})
    BY <1>5, <2>1
  <2>4. Cardinality(P \union {r}) = Cardinality(P) + 1
    BY <2>2, FS_AddElement
  <2>5. CASE j = k
    <3>1. V \intersect Changes(j, c, u)' = P \union {r}
      BY <2>3, <2>5
    <3> HIDE DEF V
    <3> QED BY <2>1, <2>4, <2>5, <3>1
  <2>6. CASE j # k
    <3>1. V \intersect Changes(j, c, u)' = P
      BY <2>3, <2>6
    <3> HIDE DEF V
    <3> QED BY <2>1, <2>2, <2>6, <3>1
  <2> QED BY <2>5, <2>6
<1>8. First(c)' = First(c)
  BY FirstStays DEF None
<1>9. Cardinality(V \intersect Changes("add", c, u)') + (IF u \in Listed(First(c)') THEN 1 ELSE 0)
        = Cardinality(V \intersect Changes("leave", c, u)') + (IF u \in Present(c)' THEN 1 ELSE 0)
  <2>1. Cardinality(W \intersect Changes("add", c, u)) + (IF u \in Listed(First(c)) THEN 1 ELSE 0)
          = Cardinality(W \intersect Changes("leave", c, u)) + (IF u \in Present(c) THEN 1 ELSE 0)
    BY DEF Account
  <2>2. CASE k = "add"
    BY <1>6, <1>7, <1>8, <2>1, <2>2
  <2>3. CASE k = "leave"
    BY <1>6, <1>7, <1>8, <2>1, <2>3
  <2> QED BY <2>2, <2>3
<1> HIDE DEF V
<1>10. Account(c, u, V)'
  BY <1>3, <1>4, <1>9 DEF Account
<1> QED BY <1>10 DEF V

\* A step that leaves the rows alone makes no change sure.
LEMMA AsideFromTheAccount ==
    ASSUME Ground, NEW r \in Call, Begins(r) \/ Moves(r), ConversationChange(r),
           NEW c \in Conv, NEW u \in User, r \in Sure(c, u)'
    PROVE  r \in Sure(c, u)
<1>1. r \in Changed(c, u)' /\ pc'[r] # "failed"
  BY DEF Sure
<1>2. pc'[r] \in {"note", "done"} /\ op'[r].kind \in {"add", "leave"}
  BY <1>1 DEF Changed, Changes, Kind
<1>3. ~Begins(r)
  <2>1. Begins(r) => pc'[r] = "find"
    BY DEF Begins, Ground, CallTypes
  <2> QED BY <1>2, <2>1
<1>4. Moves(r) /\ op[r].kind \in {"add", "leave"}
  BY <1>2, <1>3 DEF Moves, KeepsCall
<1>5. pc[r] = "note" /\ op'[r] = op[r]
  BY <1>2, <1>4 DEF Moves, KeepsCall
<1>6. r \in Changed(c, u)
  BY <1>1, <1>5 DEF Changed, Changes, Kind
<1> QED BY <1>6, SureShrinks

\* A change that is not sure when it is made met another one.
LEMMA UnsureMet ==
    ASSUME Ground, NEW r \in Call, ConversationChange(r), NEW c, NEW u,
           MetOneOf(r, Changed(c, u))
    PROVE  r \notin Sure(c, u)'
<1>1. met \subseteq met' /\ Changed(c, u) \subseteq Changed(c, u)'
  BY ChangeKeeps, ChangedGrows DEF Keeps
<1> QED BY <1>1 DEF Sure, MetOneOf

LEMMA BalanceStays ==
    ASSUME Ground, NEW r \in Call, ConversationChange(r), StillTrue(r), Balance
    PROVE  Balance'
<1> SUFFICES ASSUME NEW c \in Conv, NEW u \in User, type'[c] = "group"
             PROVE  \E W : Account(c, u, W)'
  BY DEF Balance
<1>0. \A q \in Call \ {r} : pc'[q] = pc[q] /\ op'[q] = op[q]
  BY ChangeKeeps DEF Keeps
<1>1. ASSUME type[c] = "group" PROVE \E W : Account(c, u, W)
  BY <1>1 DEF Balance
<1>2. ASSUME type[c] = "group", u \in Present(c)' <=> u \in Present(c),
             r \in Sure(c, u)' => r \in Sure(c, u)
      PROVE  \E W : Account(c, u, W)'
  <2>1. PICK W : Account(c, u, W)
    BY <1>1, <1>2
  <2>2. r \in Sure(c, u)' => r \in W
    BY <1>2, <2>1 DEF Account
  <2> QED BY <1>2, <2>1, <2>2, AccountStays
<1>3. CASE Begins(r) \/ Moves(r)
  <2>1. UNCHANGED <<type, role, left>>
    BY <1>3 DEF Begins, Moves, rooms
  <2>2. Present(c)' = Present(c) /\ type[c] = "group"
    BY <2>1 DEF Present, Rows
  <2> QED BY <1>2, <1>3, <2>2, AsideFromTheAccount
<1>4. CASE WriteFlag(r)
  <2>1. UNCHANGED <<type, role, left, op>> /\ op[r].kind \in Toggles
    BY <1>4, WriteFlagFacts
  <2>2. Present(c)' = Present(c) /\ type[c] = "group"
    BY <2>1 DEF Present, Rows
  <2>3. r \notin Sure(c, u)'
    BY <2>1 DEF Sure, Changed, Changes, Kind, Toggles
  <2> QED BY <1>2, <2>2, <2>3
<1>5. CASE InsertConversation(r)
  <2>1. Kind(r, "create") /\ op' = op /\ left' = left
    BY <1>5, InsertConversationFacts
  <2>2. r \notin Changed(c, u)'
    BY <2>1 DEF Changed, Changes, Kind
  <2>3. CASE c # r
    <3>1. type[c] = "group" /\ role'[c] = role[c]
      BY <1>5, <2>3, InsertConversationFacts
    <3>2. Present(c)' = Present(c)
      BY <2>1, <3>1 DEF Present, Rows
    <3> QED BY <1>2, <2>2, <3>1, <3>2 DEF Sure
  <2>4. CASE c = r
    <3>1. op[r].type = "group" /\ op[r].list \in Lists /\ type[r] = None /\ left[r] = {}
          /\ role'[r] = RoleOf("group", op[r].list)
      BY <1>5, <2>4, InsertConversationFacts
    <3>2. ASSUME NEW q \in Call, op[q].conv = r, op[q].kind \in {"add", "leave"}, pc[q] # "idle"
          PROVE  FALSE
      <4>1. Asks(op[q])
        BY <3>2, CallShape DEF Stages
      <4> QED BY <3>1, <3>2, <4>1 DEF Asks
    <3>3. Changed(c, u)' = {}
      BY <1>0, <2>1, <2>2, <2>4, <3>2 DEF Changes, Changed, Kind
    <3>4. First(c)' = op[r].list
      BY <2>1, <2>4, ConversationsAssumption DEF First
    <3>5. Present(c)' = {v \in User : v \in Listed(op[r].list)}
      BY <2>1, <2>4, <3>1 DEF Present, Rows, RoleOf, None
    <3>6. u \in Present(c)' <=> u \in Listed(First(c)')
      BY <3>4, <3>5
    <3>7. Sure(c, u)' = {}
      BY <3>3 DEF Sure
    <3>8. \A S : {} \intersect S = {}
      OBVIOUS
    <3>9. Account(c, u, {})'
      BY <3>6, <3>7, <3>8, FS_EmptySet DEF Account
    <3> QED BY <3>9
  <2> QED BY <2>3, <2>4
<1>6. CASE UpsertParticipant(r)
  <2>1. /\ Kind(r, "add") /\ pc[r] = "write" /\ pc'[r] = "note" /\ op' = op /\ type' = type
    BY <1>6, UpsertFacts
  <2>2. type[c] = "group" /\ r \notin Changed(c, u)
    BY <2>1 DEF Changed, Changes
  <2>3. CASE c = op[r].conv /\ u = op[r].whom
    <3>1. r \in Changes("add", c, u)'
      BY <2>1, <2>3 DEF Changes, Kind
    <3>2. u \in Present(c)'
      <4>1. u \notin left'[c]
        BY <1>6, <2>3, UpsertFacts
      <4>2. role'[c][u] = IF role[c][u] = None THEN "member" ELSE role[c][u]
        BY <1>6, <2>3, UpsertFacts
      <4> QED BY <4>1, <4>2 DEF Present, Rows, None
    <3>3. CASE u \notin Present(c)
      <4>1. PICK W : Account(c, u, W)
        BY <1>1, <2>2
      <4>2. Account(c, u, W \union {r})'
        BY <2>1, <2>2, <3>1, <3>2, <3>3, <4>1, AccountGrows
      <4> QED BY <4>2
    <3>4. CASE u \in Present(c)
      <4>1. MetOneOf(r, Changed(c, u))
        BY <2>1, <2>3, <3>4 DEF StillTrue
      <4>2. r \notin Sure(c, u)'
        BY <4>1, UnsureMet
      <4> QED BY <1>2, <2>2, <3>2, <3>4, <4>2
    <3> QED BY <3>3, <3>4
  <2>4. CASE ~(c = op[r].conv /\ u = op[r].whom)
    <3>1. r \notin Changed(c, u)'
      BY <2>1, <2>4 DEF Changed, Changes, Kind
    <3>2. role'[c][u] = role[c][u] /\ (u \in left'[c] <=> u \in left[c])
      BY <1>6, <2>4, UpsertFacts
    <3>3. u \in Present(c)' <=> u \in Present(c)
      BY <3>2 DEF Present, Rows
    <3> QED BY <1>2, <2>2, <3>1, <3>3 DEF Sure
  <2> QED BY <2>3, <2>4
<1>7. CASE MarkLeft(r)
  <2>1. /\ Kind(r, "leave") /\ pc[r] = "write" /\ op' = op /\ type' = type /\ role' = role
        /\ pc'[r] \in {"note", "done"}
        /\ left'[c] = IF c = op[r].conv THEN left[c] \union {op[r].by} ELSE left[c]
    BY <1>7, MarkLeftFacts
  <2>2. type[c] = "group" /\ r \notin Changed(c, u)
    BY <2>1 DEF Changed, Changes
  <2>3. CASE c = op[r].conv /\ u = op[r].by
    <3>1. r \in Changes("leave", c, u)'
      BY <2>1, <2>3 DEF Changes, Kind
    <3>2. u \notin Present(c)'
      BY <2>1, <2>3 DEF Present
    <3>3. CASE u \in Present(c)
      <4>1. PICK W : Account(c, u, W)
        BY <1>1, <2>2
      <4>2. Account(c, u, W \union {r})'
        BY <2>1, <2>2, <3>1, <3>2, <3>3, <4>1, AccountGrows
      <4> QED BY <4>2
    <3>4. CASE u \notin Present(c)
      <4>1. MetOneOf(r, Changed(c, u))
        BY <2>1, <2>3, <3>4 DEF StillTrue
      <4>2. r \notin Sure(c, u)'
        BY <4>1, UnsureMet
      <4> QED BY <1>2, <2>2, <3>2, <3>4, <4>2
    <3> QED BY <3>3, <3>4
  <2>4. CASE ~(c = op[r].conv /\ u = op[r].by)
    <3>1. r \notin Changed(c, u)'
      BY <2>1, <2>4 DEF Changed, Changes, Kind
    <3>2. u \in Present(c)' <=> u \in Present(c)
      BY <2>1, <2>4 DEF Present, Rows
    <3> QED BY <1>2, <2>2, <3>1, <3>2 DEF Sure
  <2> QED BY <2>3, <2>4
<1> QED BY <1>3, <1>4, <1>5, <1>6, <1>7 DEF ConversationChange, WritesRooms

-----------------------------------------------------------------------------
(***************************************************************************)
(* Who takes part: the theorems about Conversations.                        *)
(***************************************************************************)
LEMMA InitRooms == Init => RoomsInv
<1> SUFFICES ASSUME Init PROVE RoomsInv
  OBVIOUS
<1>1. Ground /\ ConversationsInit
  BY InitGround DEF Init
<1>2. \A r \in Call : pc[r] = "idle"
  BY <1>1 DEF ConversationsInit
<1>3. \A r \in Call : StillTrue(r)
  BY <1>2 DEF StillTrue
<1>4. \A c \in Conv : type[c] # None => c = Earlier /\ First(c) = Couple
  BY <1>1 DEF ConversationsInit, First
<1>5. Head(Couple) \in Listed(Couple) /\ Listed(Couple) \subseteq User
  BY ListOK
<1>6. Owned
  BY <1>1, <1>4, <1>5 DEF Owned, ConversationsInit, RoleOf, None
<1>7. Balance
  <2> SUFFICES ASSUME NEW c \in Conv, NEW u \in User, type[c] = "group"
               PROVE  Account(c, u, {})
    BY DEF Balance
  <2>1. Changes("add", c, u) = {} /\ Changes("leave", c, u) = {} /\ Sure(c, u) = {}
    BY <1>2 DEF Changes, Sure, Changed
  <2>2. First(c) = Couple
    BY <1>4 DEF None
  <2>3. role[c] = RoleOf("group", Couple) /\ left[c] = {}
    BY <1>1 DEF ConversationsInit
  <2>4. u \in Present(c) <=> u \in Listed(Couple)
    BY <2>3 DEF Present, Rows, RoleOf, None
  <2>5. {} \intersect {} = {}
    OBVIOUS
  <2> QED BY <2>1, <2>2, <2>4, <2>5, FS_EmptySet DEF Account
<1>8. DirectOnce
  <2>1. \A c, d \in Conv : type[c] = "direct" /\ type[d] = "direct" => c = d
    BY <1>4 DEF None
  <2> QED BY <2>1 DEF DirectOnce
<1>9. FlagsCount
  <2> SUFFICES ASSUME NEW c \in Conv, NEW u \in User, NEW k \in Toggles
               PROVE  FlagOf(k) \in flags[c][u] <=> Cardinality(Toggled(k, c, u)) % 2 = 1
    BY DEF FlagsCount, Toggled
  <2>1. Toggled(k, c, u) = {}
    BY <1>2 DEF Toggled
  <2>2. Cardinality(Toggled(k, c, u)) = 0 /\ flags[c][u] = {}
    BY <1>1, <2>1, FS_EmptySet DEF ConversationsInit
  <2> QED BY <2>2
<1> QED BY <1>1, <1>3, <1>6, <1>7, <1>8, <1>9 DEF RoomsInv

LEMMA ChangeKeepsRoomsInv ==
    ASSUME RoomsInv, NEW r \in Call, ConversationStep(r) \/ SendStep(r)
    PROVE  RoomsInv'
<1>1. Ground /\ Owned /\ Balance /\ DirectOnce /\ FlagsCount /\ \A q \in Call : StillTrue(q)
  BY DEF RoomsInv
<1>2. ConversationChange(r)
  BY <1>1, ConversationChanges
<1>3. Ground'
  BY <1>1, <1>2, ChangeKeepsGround
<1>4. \A q \in Call : StillTrue(q)'
  BY <1>1, <1>2, ReadsStayTrue
<1>5. Owned' /\ DirectOnce'
  BY <1>1, <1>2, OwnersStay, DirectStays
<1>6. FlagsCount'
  BY <1>1, <1>2, SettingsStay
<1>7. Balance'
  BY <1>1, <1>2, BalanceStays
<1> QED BY <1>3, <1>4, <1>5, <1>6, <1>7 DEF RoomsInv

LEMMA StutterKeepsRooms ==
    ASSUME RoomsInv, UNCHANGED conversationVars
    PROVE  RoomsInv'
<1>1. UNCHANGED <<mix, type, role, left, flags, name, notes, pc, op, met>>
  BY DEF conversationVars, rooms
<1>2. \A c \in Conv : Rows(c)' = Rows(c) /\ Present(c)' = Present(c) /\ First(c)' = First(c)
  BY <1>1 DEF Rows, Present, First
<1>3. RoomTypes' /\ CallTypes'
  BY <1>1, <1>2 DEF RoomsInv, Ground, RoomTypes, CallTypes, Begun
<1>4. \A r \in Call : Stages(r)'
  BY <1>1 DEF RoomsInv, Ground, Stages, Asks, Kind, IsGroup, HasRow
<1>5. MetWhenTwo' /\ Origins'
  BY <1>1, <1>2 DEF RoomsInv, Ground, MetWhenTwo, Origins, Kind
<1>6. \A r \in Call : StillTrue(r)'
  <2> SUFFICES ASSUME NEW r \in Call PROVE StillTrue(r)'
    OBVIOUS
  <2>1. StillTrue(r)
    BY DEF RoomsInv
  <2>2. StillTrue(r)' = StillTrue(r)
    BY <1>1 DEF StillTrue, ExistingDirect, Present, Rows, Kind, Listed, MetOneOf, Changed, Changes, Toggled
  <2> QED BY <2>1, <2>2
<1>7. Owned' /\ DirectOnce'
  BY <1>1, <1>2 DEF RoomsInv, Owned, DirectOnce
<1>8. FlagsCount'
  BY <1>1, <1>2 DEF RoomsInv, FlagsCount, Kind
<1>9. Balance'
  <2>1. \A c, u, k : Changes(k, c, u)' = Changes(k, c, u)
    BY <1>1 DEF Changes, Kind
  <2>2. \A c, u : Changed(c, u)' = Changed(c, u)
    BY <2>1 DEF Changed
  <2>3. \A c, u : Sure(c, u)' = Sure(c, u)
    BY <1>1, <2>2 DEF Sure
  <2>4. ASSUME NEW c \in Conv, NEW u, NEW W, Account(c, u, W) PROVE Account(c, u, W)'
    BY <1>2, <2>1, <2>2, <2>3, <2>4 DEF Account
  <2> QED BY <1>1, <2>4 DEF RoomsInv, Balance
<1> QED BY <1>3, <1>4, <1>5, <1>6, <1>7, <1>8, <1>9 DEF RoomsInv, Ground

LEMMA StepRooms == RoomsInv /\ [Next]_vars => RoomsInv'
<1> SUFFICES ASSUME RoomsInv, [Next]_vars PROVE RoomsInv'
  OBVIOUS
<1>1. CASE \E r \in Call : ConversationStep(r) \/ SendStep(r)
  BY <1>1, ChangeKeepsRoomsInv
<1>2. ASSUME NEW s \in Socket, SocketStep(s) PROVE UNCHANGED conversationVars
  BY <1>2 DEF SocketStep, HandleConnection, HandleDisconnect, HandleJoinConversation
<1>3. CASE UNCHANGED vars
  BY <1>3, StutterKeepsRooms DEF vars
<1> QED BY <1>1, <1>2, <1>3, StutterKeepsRooms DEF Next, Quiescent

LEMMA RoomsInvariant == Spec => []RoomsInv
BY InitRooms, StepRooms, PTL DEF Spec

\* Two users have one direct conversation with each other, however often one of
\* them leaves it, unless two creations overlapped: the search of create before its
\* transaction is all that keeps it so.
THEOREM DirectConversationsAreSingle == Spec => []DirectOnce
<1>1. RoomsInv => DirectOnce
  BY DEF RoomsInv
<1> QED BY <1>1, RoomsInvariant, PTL

\* What the invariant says of the owner and of the notes.
LEMMA OwnerIsOne == RoomsInv => OneOwner
<1> SUFFICES ASSUME RoomsInv, NEW c \in Conv, type[c] = "group"
             PROVE  /\ Cardinality({u \in User : role[c][u] = "owner"}) = 1
                    /\ c \in Call => role[c][Head(op[c].list)] = "owner"
  BY DEF OneOwner
<1>1. Owned /\ Ground
  BY DEF RoomsInv
<1>2. First(c) \in Lists \union {Couple}
  <2>1. CASE c = Earlier
    BY <2>1 DEF First
  <2>2. CASE c # Earlier
    <3>1. c \in Call /\ Kind(c, "create") /\ pc[c] = "done"
      BY <1>1, <2>2 DEF Conv, Ground, Origins, None
    <3>2. Asks(op[c])
      BY <1>1, <3>1, CallShape DEF Stages
    <3> QED BY <2>2, <3>1, <3>2 DEF First, Asks, Kind
  <2> QED BY <2>1, <2>2
<1>3. Head(First(c)) \in User
  BY <1>2, ListOK
<1>4. {u \in User : role[c][u] = "owner"} = {Head(First(c))}
  BY <1>1, <1>3 DEF Owned
<1>5. Cardinality({Head(First(c))}) = 1
  BY FS_Singleton
<1>6. c \in Call => First(c) = op[c].list
  BY ConversationsAssumption DEF First
<1> QED BY <1>4, <1>5, <1>6

\* A set and what differs from it by members of a third.
LEMMA CountsDiffer ==
    ASSUME NEW S, NEW T, NEW X, IsFiniteSet(S), IsFiniteSet(T), IsFiniteSet(X),
           S \subseteq T \union X, T \subseteq S \union X
    PROVE  /\ Cardinality(S) \in Nat /\ Cardinality(T) \in Nat /\ Cardinality(X) \in Nat
           /\ Cardinality(S) <= Cardinality(T) + Cardinality(X)
           /\ Cardinality(T) <= Cardinality(S) + Cardinality(X)
<1>1. Cardinality(S) \in Nat /\ Cardinality(T) \in Nat /\ Cardinality(X) \in Nat
  BY FS_CardinalityType
<1>2. ASSUME NEW P, NEW Q, IsFiniteSet(P), IsFiniteSet(Q), P \subseteq Q \union X
      PROVE  Cardinality(P) <= Cardinality(Q) + Cardinality(X)
  <2>1. IsFiniteSet(Q \union X) /\ Cardinality(P) <= Cardinality(Q \union X)
    BY <1>2, FS_Union, FS_Subset
  <2>2. Cardinality(Q \union X) = Cardinality(Q) + Cardinality(X) - Cardinality(Q \intersect X)
    BY <1>2, FS_Union
  <2>3. IsFiniteSet(Q \intersect X)
    BY <1>2, FS_Subset
  <2>4. Cardinality(P) \in Nat /\ Cardinality(Q) \in Nat /\ Cardinality(Q \intersect X) \in Nat
    BY <1>2, <2>3, FS_CardinalityType
  <2> QED BY <1>1, <2>1, <2>2, <2>4
<1> QED BY <1>1, <1>2

LEMMA NotesSuffice == RoomsInv => NotesTell
<1> SUFFICES ASSUME RoomsInv PROVE NotesTell
  OBVIOUS
<1>1. ASSUME NEW c \in Conv, NEW u \in User, type[c] = "group"
      PROVE  Cardinality(Changes("add", c, u) \intersect notes) + (IF u \in Listed(First(c)) THEN 1 ELSE 0)
               - Cardinality(Changes("leave", c, u) \intersect notes) - (IF u \in Present(c) THEN 1 ELSE 0)
               \in -Cardinality(Astray(c, u))..Cardinality(Astray(c, u))
  <2> DEFINE A == Changes("add", c, u)
             L == Changes("leave", c, u)
             X == Astray(c, u)
  <2>1. PICK W : Account(c, u, W)
    BY <1>1 DEF RoomsInv, Balance
  <2>2. W \subseteq Changed(c, u) /\ Changed(c, u) = A \union L /\ A \intersect L = {}
    BY <2>1 DEF Account, Changed, Changes, Kind
  <2>3. \A r \in W : r \in notes \/ r \in X
    BY <2>2 DEF Astray
  <2>4. \A r \in Changed(c, u) : r \in notes => r \in W \/ r \in X
    <3> SUFFICES ASSUME NEW r \in Changed(c, u), r \in notes, r \notin X PROVE r \in W
      OBVIOUS
    <3>1. pc[r] = "done"
      BY DEF RoomsInv, Ground, Origins
    <3>2. r \in Sure(c, u)
      BY <3>1 DEF Sure, Astray
    <3> QED BY <2>1, <3>2 DEF Account
  <2>5. X \subseteq A \union L
    BY <2>2 DEF Astray
  <2>6. /\ IsFiniteSet(A) /\ IsFiniteSet(L)
        /\ Cardinality(W \intersect A) + (IF u \in Listed(First(c)) THEN 1 ELSE 0)
             = Cardinality(W \intersect L) + (IF u \in Present(c) THEN 1 ELSE 0)
    BY <2>1, ChangesFinite DEF RoomsInv, Account
  <2> HIDE DEF A, L, X
  <2>7. \A S \in {A, L} :
          /\ IsFiniteSet(W \intersect S) /\ IsFiniteSet(S \intersect notes) /\ IsFiniteSet(X \intersect S)
          /\ W \intersect S \subseteq (S \intersect notes) \union (X \intersect S)
          /\ S \intersect notes \subseteq (W \intersect S) \union (X \intersect S)
    BY <2>2, <2>3, <2>4, <2>6, FS_Subset
  <2>8. Cardinality(X) = Cardinality(X \intersect A) + Cardinality(X \intersect L)
    <3>1. X = (X \intersect A) \union (X \intersect L) /\ (X \intersect A) \intersect (X \intersect L) = {}
      BY <2>2, <2>5
    <3>2. Cardinality((X \intersect A) \union (X \intersect L)) = Cardinality(X \intersect A)
            + Cardinality(X \intersect L) - Cardinality((X \intersect A) \intersect (X \intersect L))
      BY <2>7, FS_Union
    <3>3. Cardinality(X \intersect A) \in Nat /\ Cardinality(X \intersect L) \in Nat
      BY <2>7, FS_CardinalityType
    <3>4. Cardinality((X \intersect A) \intersect (X \intersect L)) = 0
      BY <3>1, FS_EmptySet
    <3>5. Cardinality(X) = Cardinality((X \intersect A) \union (X \intersect L))
      BY <3>1
    <3> QED BY <3>2, <3>3, <3>4, <3>5
  <2>9. /\ Cardinality(W \intersect A) \in Nat /\ Cardinality(W \intersect L) \in Nat
        /\ Cardinality(A \intersect notes) \in Nat /\ Cardinality(L \intersect notes) \in Nat
        /\ Cardinality(X \intersect A) \in Nat /\ Cardinality(X \intersect L) \in Nat
        /\ Cardinality(W \intersect A) <= Cardinality(A \intersect notes) + Cardinality(X \intersect A)
        /\ Cardinality(A \intersect notes) <= Cardinality(W \intersect A) + Cardinality(X \intersect A)
        /\ Cardinality(W \intersect L) <= Cardinality(L \intersect notes) + Cardinality(X \intersect L)
        /\ Cardinality(L \intersect notes) <= Cardinality(W \intersect L) + Cardinality(X \intersect L)
    BY <2>7, CountsDiffer
  <2>10. Cardinality(A \intersect notes) + (IF u \in Listed(First(c)) THEN 1 ELSE 0)
           - Cardinality(L \intersect notes) - (IF u \in Present(c) THEN 1 ELSE 0)
           \in -Cardinality(X)..Cardinality(X)
    BY <2>6, <2>8, <2>9
  <2> QED BY <2>10 DEF A, L, X
<1> QED BY <1>1 DEF NotesTell

\* Settings count their toggles, a group keeps its one owner, and its creation and
\* system messages tell who takes part, except where calls overlapped or stopped:
\* togglePin, toggleMute, addParticipant and leaveConversation, for any users and
\* any number of calls.
THEOREM ParticipantsAreAccounted == Spec => []ParticipantsAccounted
<1>1. RoomsInv => ParticipantsAccounted
  BY OwnerIsOne, NotesSuffice DEF RoomsInv, ParticipantsAccounted
<1> QED BY <1>1, RoomsInvariant, PTL

-----------------------------------------------------------------------------
(***************************************************************************)
(* The messages, and the transactions that store them.                       *)
(***************************************************************************)
StoreInv ==
    /\ messages \subseteq Call
    /\ \A m \in messages : pc[m] \in {"send", "done", "failed"} /\ Kind(m, "send")
    /\ \A r \in Call : pc[r] = "send" => r \in messages
    /\ before \in [Call -> SUBSET messages]
    /\ messageCount \in [Conv -> Nat]
    /\ lastMessage \in [Conv -> Call \union {None}]
    /\ holders \in [Conv -> SUBSET Call]
    /\ writer \in [Conv -> Call \union {None}]
    /\ \A c \in Conv : writer[c] # None => holders[c] = {writer[c]}
    /\ CountsMatch

\* A step that commits nothing.
LEMMA NothingCommitted ==
    ASSUME StoreInv, UNCHANGED <<messages, messageCount, lastMessage, before>>,
           \A m \in messages : /\ op'[m].conv = op[m].conv /\ op'[m].kind = op[m].kind
                               /\ pc'[m] \in {"send", "done", "failed"},
           \A r \in Call : pc'[r] = "send" => pc[r] = "send",
           holders' \in [Conv -> SUBSET Call], writer' \in [Conv -> Call \union {None}],
           \A c \in Conv : writer'[c] # None => holders'[c] = {writer'[c]}
    PROVE  StoreInv'
<1>1. \A c \in Conv : Of(c)' = Of(c)
  BY DEF Of
<1>2. CountsMatch'
  BY <1>1 DEF StoreInv, CountsMatch
<1>3. \A m \in messages : Kind(m, "send")'
  BY DEF StoreInv, Kind
<1> QED BY <1>2, <1>3 DEF StoreInv

LEMMA ReleaseKeepsLocks ==
    ASSUME StoreInv, NEW r \in Call, Release(r)
    PROVE  /\ holders' \in [Conv -> SUBSET Call] /\ writer' \in [Conv -> Call \union {None}]
           /\ \A c \in Conv : writer'[c] # None => holders'[c] = {writer'[c]}
<1>1. /\ holders' \in [Conv -> SUBSET Call] /\ writer' \in [Conv -> Call \union {None}]
  BY DEF StoreInv, Release
<1>2. ASSUME NEW c \in Conv, writer'[c] # None PROVE holders'[c] = {writer'[c]}
  <2>1. writer'[c] = writer[c] /\ writer[c] # r /\ holders'[c] = holders[c] \ {r}
    BY <1>2 DEF Release
  <2>2. holders[c] = {writer[c]}
    BY <1>2, <2>1 DEF StoreInv
  <2> QED BY <2>1, <2>2
<1> QED BY <1>1, <1>2

LEMMA ConversationSteps ==
    ASSUME Ground, NEW r \in Call, ConversationStep(r)
    PROVE  /\ pc[r] \in {"idle", "find", "exists", "write", "note", "insert"}
           /\ pc[r] = "insert" => Kind(r, "create")
           /\ pc'[r] \in {"find", "exists", "write", "note", "insert", "done", "rejected", "failed"}
<1> DEFINE From == {"idle", "find", "exists", "write", "note", "insert"}
           To == {"find", "exists", "write", "note", "insert", "done", "rejected", "failed"}
           Goes == pc[r] \in From /\ (pc[r] = "insert" => Kind(r, "create"))
                   /\ \E l \in To : pc' = [pc EXCEPT ![r] = l]
<1> SUFFICES Goes
  BY DEF Ground, CallTypes
<1>1. CASE Create(r) \/ Add(r) \/ (\E k \in {"update", "leave"} \union Toggles : OnConversation(r, k))
  BY <1>1 DEF Create, Add, OnConversation, Start, Goto
<1>2. CASE FindForCreate(r)
  BY <1>2 DEF FindForCreate, Look, Goto
<1>3. CASE FindForUpdate(r) \/ FindForAdd(r) \/ FindForLeave(r)
  BY <1>3 DEF FindForUpdate, FindForAdd, FindForLeave, Look, Goto
<1>4. CASE FindNewcomer(r)
  BY <1>4 DEF FindNewcomer, Goto
<1>5. CASE FindForToggle(r)
  BY <1>5 DEF FindForToggle, Goto
<1>6. CASE InsertConversation(r) \/ WriteName(r) \/ UpsertParticipant(r)
  BY <1>6 DEF InsertConversation, WriteName, UpsertParticipant, Goto
<1>7. CASE MarkLeft(r) \/ WriteNote(r)
  BY <1>7 DEF MarkLeft, WriteNote, Goto
<1>8. CASE WriteFlag(r) \/ Stop(r)
  BY <1>8 DEF WriteFlag, Stop, Goto
<1> QED
  BY <1>1, <1>2, <1>3, <1>4, <1>5, <1>6, <1>7, <1>8 DEF ConversationStep

\* A step of a call that has not come to its pushes does nothing to the messages.
LEMMA EarlyStepsStore ==
    ASSUME Ground, StoreInv, NEW r \in Call, ConversationChange(r),
           pc[r] \notin {"send", "done", "failed"}, pc'[r] # "send",
           UNCHANGED <<messages, messageCount, lastMessage, before>>,
           holders' \in [Conv -> SUBSET Call], writer' \in [Conv -> Call \union {None}],
           \A c \in Conv : writer'[c] # None => holders'[c] = {writer'[c]}
    PROVE  StoreInv'
<1>1. \A q \in Call \ {r} : pc'[q] = pc[q] /\ op'[q] = op[q]
  BY ChangeKeeps DEF Keeps
<1>2. r \notin messages
  BY DEF StoreInv
<1>3. \A m \in messages : /\ op'[m].conv = op[m].conv /\ op'[m].kind = op[m].kind
                          /\ pc'[m] \in {"send", "done", "failed"}
  BY <1>1, <1>2 DEF StoreInv
<1>4. \A q \in Call : pc'[q] = "send" => pc[q] = "send"
  BY <1>1
<1> QED BY <1>3, <1>4, NothingCommitted

LEMMA LateStepsStore ==
    ASSUME Ground, StoreInv, NEW r \in Call, SendToConversation(r) \/ StopBeforeSend(r)
    PROVE  StoreInv'
<1>1. /\ pc[r] = "send" /\ pc'[r] \in {"done", "failed"} /\ op' = op
      /\ \A q \in Call \ {r} : pc'[q] = pc[q]
      /\ UNCHANGED <<messages, messageCount, lastMessage, before, holders, writer>>
  BY DEF SendToConversation, StopBeforeSend, Goto, store, Ground, CallTypes
<1>2. \A m \in messages : pc'[m] \in {"send", "done", "failed"}
  BY <1>1 DEF StoreInv
<1>3. \A q \in Call : pc'[q] = "send" => pc[q] = "send"
  BY <1>1
<1> QED BY <1>1, <1>2, <1>3, NothingCommitted DEF StoreInv

LEMMA CommitStores ==
    ASSUME Ground, StoreInv, NEW r \in Call, Commit(r)
    PROVE  StoreInv'
<1> DEFINE c0 == op[r].conv
<1>1. /\ pc[r] = "commit" /\ pc'[r] = "send" /\ op' = op /\ before' = before
      /\ \A q \in Call \ {r} : pc'[q] = pc[q]
      /\ messages' = messages \union {r} /\ Release(r)
  BY DEF Commit, Goto, Ground, CallTypes
<1>2. Kind(r, "send") /\ c0 \in Conv
  BY <1>1, CallShape DEF Running, Stages, Asks, Kind
<1>3. r \notin messages
  BY <1>1 DEF StoreInv
<1>4. /\ messageCount' \in [Conv -> Nat]
      /\ \A c \in Conv : messageCount'[c] = IF c = c0 THEN messageCount[c] + 1 ELSE messageCount[c]
  BY <1>2 DEF Commit, StoreInv
<1>5. /\ lastMessage' \in [Conv -> Call \union {None}]
      /\ \A c \in Conv : lastMessage'[c] = IF c = c0 THEN r ELSE lastMessage[c]
  BY <1>2 DEF Commit, StoreInv
<1>6. \A m \in messages' : pc'[m] \in {"send", "done", "failed"} /\ Kind(m, "send")'
  BY <1>1, <1>2, <1>3 DEF StoreInv, Kind
<1>7. \A q \in Call : pc'[q] = "send" => q \in messages'
  BY <1>1 DEF StoreInv
<1>8. before' \in [Call -> SUBSET messages'] /\ messages' \subseteq Call
  BY <1>1 DEF StoreInv
<1>9. CountsMatch'
  <2> SUFFICES ASSUME NEW c \in Conv
               PROVE  /\ messageCount'[c] = Cardinality(Of(c)')
                      /\ lastMessage'[c] = None <=> Of(c)' = {}
                      /\ \A m \in Of(c)' : lastMessage'[c] \notin before'[m]
    BY DEF CountsMatch
  <2>0. /\ messageCount[c] = Cardinality(Of(c))
        /\ lastMessage[c] = None <=> Of(c) = {}
        /\ \A m \in Of(c) : lastMessage[c] \notin before[m]
    BY DEF StoreInv, CountsMatch
  <2>1. CASE c = c0
    <3>1. Of(c)' = Of(c) \union {r} /\ r \notin Of(c)
      BY <1>1, <1>3, <2>1 DEF Of
    <3>2. Of(c) \in SUBSET Begun
      BY DEF Of, StoreInv, Begun
    <3>3. IsFiniteSet(Of(c))
      BY <3>2, FS_Subset DEF Ground, CallTypes
    <3>4. Cardinality(Of(c)') = Cardinality(Of(c)) + 1
      BY <3>1, <3>3, FS_AddElement
    <3>5. r # None
      BY ConversationsAssumption
    <3>6. \A m \in Call : r \notin before'[m]
      BY <1>1, <1>3 DEF StoreInv
    <3>7. Of(c)' \subseteq Call
      BY <1>8 DEF Of
    <3> QED BY <1>4, <1>5, <2>0, <2>1, <3>1, <3>4, <3>5, <3>6, <3>7
  <2>2. CASE c # c0
    <3>1. Of(c)' = Of(c)
      BY <1>1, <2>2 DEF Of
    <3> QED BY <1>1, <1>4, <1>5, <2>0, <2>2, <3>1
  <2> QED BY <2>1, <2>2
<1>10. /\ holders' \in [Conv -> SUBSET Call] /\ writer' \in [Conv -> Call \union {None}]
       /\ \A c \in Conv : writer'[c] # None => holders'[c] = {writer'[c]}
  BY <1>1, ReleaseKeepsLocks
<1> QED BY <1>4, <1>5, <1>6, <1>7, <1>8, <1>9, <1>10 DEF StoreInv

LEMMA CreateMessageStores ==
    ASSUME Ground, StoreInv, NEW r \in Call, CreateMessage(r)
    PROVE  StoreInv'
<1>1. Begins(r)
  BY CallsBegin
<1>2. /\ pc[r] = "idle" /\ pc'[r] = "find"
      /\ \A q \in Call \ {r} : pc'[q] = pc[q] /\ op'[q] = op[q]
  BY <1>1 DEF Begins, Ground, CallTypes
<1>3. /\ before' = [before EXCEPT ![r] = messages]
      /\ UNCHANGED <<messages, messageCount, lastMessage, holders, writer>>
  BY DEF CreateMessage
<1>4. r \notin messages
  BY <1>2 DEF StoreInv
<1>5. before' \in [Call -> SUBSET messages'] /\ \A m \in messages : before'[m] = before[m]
  BY <1>3, <1>4 DEF StoreInv
<1>6. \A c \in Conv : Of(c)' = Of(c)
  BY <1>2, <1>3, <1>4 DEF Of, StoreInv
<1>7. CountsMatch'
  <2>1. \A c \in Conv : Of(c) \subseteq messages
    BY DEF Of
  <2> QED BY <1>3, <1>5, <1>6, <2>1 DEF StoreInv, CountsMatch
<1>8. \A m \in messages : pc'[m] \in {"send", "done", "failed"} /\ Kind(m, "send")'
  BY <1>2, <1>4 DEF StoreInv, Kind
<1>9. \A q \in Call : pc'[q] = "send" => q \in messages
  BY <1>2 DEF StoreInv
<1> QED BY <1>3, <1>5, <1>7, <1>8, <1>9 DEF StoreInv

LEMMA TransactionsStore ==
    ASSUME Ground, StoreInv, NEW r \in Call,
           FindForSend(r) \/ InsertMessage(r) \/ UpdateConversation(r) \/ PushUnread(r) \/ Rollback(r)
    PROVE  StoreInv'
<1>1. /\ ConversationChange(r) /\ pc[r] \notin {"send", "done", "failed"} /\ Kind(r, "send")
      /\ pc[r] \in Running
  <2>1. pc[r] \in {"find", "insert", "bump", "push", "commit"}
    BY DEF FindForSend, InsertMessage, UpdateConversation, PushUnread, Rollback
  <2>2. Kind(r, "send")
    BY CallShape DEF FindForSend, InsertMessage, UpdateConversation, PushUnread, Rollback, Stages
  <2> QED BY <2>1, <2>2, ConversationChanges DEF SendStep, Running
<1>2. pc'[r] # "send"
  <2>1. \E l \in {"insert", "rejected", "bump", "push", "failed", "commit"} : pc' = [pc EXCEPT ![r] = l]
    BY DEF FindForSend, InsertMessage, UpdateConversation, PushUnread, Rollback, Goto
  <2> QED BY <2>1 DEF Ground, CallTypes
<1>3. UNCHANGED <<messages, messageCount, lastMessage, before>>
  BY DEF FindForSend, InsertMessage, UpdateConversation, PushUnread, Rollback, store
<1>4. op[r].conv \in Conv
  BY <1>1, CallShape DEF Asks, Kind
<1>5. /\ holders' \in [Conv -> SUBSET Call] /\ writer' \in [Conv -> Call \union {None}]
      /\ \A c \in Conv : writer'[c] # None => holders'[c] = {writer'[c]}
  <2>0. /\ holders \in [Conv -> SUBSET Call] /\ writer \in [Conv -> Call \union {None}]
        /\ \A c \in Conv : writer[c] # None => holders[c] = {writer[c]}
    BY DEF StoreInv
  <2>1. CASE InsertMessage(r)
    <3>1. /\ writer[op[r].conv] = None /\ writer' = writer
          /\ holders' = [holders EXCEPT ![op[r].conv] = @ \union {r}]
      BY <2>1 DEF InsertMessage
    <3> QED BY <1>4, <2>0, <3>1
  <2>2. CASE UpdateConversation(r)
    <3>1. /\ holders[op[r].conv] = {r} /\ holders' = holders
          /\ writer' = [writer EXCEPT ![op[r].conv] = r]
      BY <2>2 DEF UpdateConversation
    <3> QED BY <1>4, <2>0, <3>1
  <2>3. CASE Release(r)
    BY <2>3, ReleaseKeepsLocks
  <2>4. CASE UNCHANGED <<holders, writer>>
    BY <2>0, <2>4
  <2> QED BY <2>1, <2>2, <2>3, <2>4 DEF FindForSend, PushUnread, Rollback, store
<1> QED BY <1>1, <1>2, <1>3, <1>5, EarlyStepsStore

LEMMA InitStore == Init => StoreInv
<1> SUFFICES ASSUME Init PROVE StoreInv
  OBVIOUS
<1>1. \A r \in Call : pc[r] = "idle"
  BY DEF Init, ConversationsInit
<1>2. CountsMatch
  <2>1. \A c \in Conv : Of(c) = {}
    BY DEF Init, Of
  <2> QED BY <2>1, FS_EmptySet DEF Init, CountsMatch
<1> QED BY <1>1, <1>2 DEF Init, StoreInv

LEMMA StepStore == Ground /\ StoreInv /\ [Next]_vars => StoreInv'
<1> SUFFICES ASSUME Ground, StoreInv, [Next]_vars PROVE StoreInv'
  OBVIOUS
<1>1. ASSUME NEW r \in Call, ConversationStep(r), UNCHANGED <<store, sockets>> PROVE StoreInv'
  <2>1. ConversationChange(r)
    BY <1>1, ConversationChanges
  <2>2. pc[r] \notin {"send", "done", "failed"} /\ pc'[r] # "send"
    BY <1>1, ConversationSteps
  <2> QED BY <1>1, <2>1, <2>2, EarlyStepsStore DEF store, StoreInv
<1>2. ASSUME NEW r \in Call, SendStep(r) PROVE StoreInv'
  BY <1>2, CreateMessageStores, TransactionsStore, CommitStores, LateStepsStore DEF SendStep
<1>3. ASSUME UNCHANGED <<conversationVars, store>> PROVE StoreInv'
  BY <1>3, NothingCommitted DEF conversationVars, store, StoreInv
<1>4. ASSUME NEW s \in Socket, SocketStep(s) PROVE UNCHANGED <<conversationVars, store>>
  BY <1>4 DEF SocketStep, HandleConnection, HandleDisconnect, HandleJoinConversation
<1> QED BY <1>1, <1>2, <1>3, <1>4 DEF Next, Quiescent, vars

-----------------------------------------------------------------------------
(***************************************************************************)
(* The sockets, and what is pushed to them.                                  *)
(***************************************************************************)
Alike ==
    \A s, t \in connected : s # t /\ UserOf[s] = UserOf[t] => UserOf[s] \in doubled

SocketInv ==
    /\ connected \subseteq Socket
    /\ onlineUsers \in [User -> Socket \union {None}]
    /\ joined \in [Conv -> SUBSET Socket]
    /\ \A c \in Conv : joined[c] \subseteq connected
    /\ OnlineMatches
    /\ Alike

\* A call that has pushed something no longer changes what it is about.
LEMMA PushesStay ==
    ASSUME Ground, PushesMatch, NEW r \in Call,
           \A q \in Call \ {r} : pc'[q] = pc[q] /\ op'[q] = op[q],
           messages \subseteq messages',
           r \in messages \/ pc[r] \in {"commit", "failed"} =>
             op'[r] = op[r] /\ (r \in messages' \/ pc'[r] \in {"commit", "failed"}),
           \A q \in Call, u \in User :
             /\ <<"message", q, u>> \in got' => <<"message", q, u>> \in got \/ (q = r /\ r \in messages')
             /\ <<"unread", q, u>> \in got' =>
                  \/ <<"unread", q, u>> \in got
                  \/ q = r /\ (r \in messages' \/ pc'[r] \in {"commit", "failed"}) /\ u \in op'[r].others
    PROVE  PushesMatch'
<1> SUFFICES ASSUME NEW q \in Call, NEW u \in User
             PROVE  /\ <<"message", q, u>> \in got' => q \in messages'
                    /\ <<"unread", q, u>> \in got' => /\ q \in messages' \/ pc'[q] \in {"commit", "failed"}
                                                      /\ u \in op'[q].others
  BY DEF PushesMatch
<1>1. /\ <<"message", q, u>> \in got => q \in messages
      /\ <<"unread", q, u>> \in got => /\ q \in messages \/ pc[q] \in {"commit", "failed"}
                                       /\ u \in op[q].others
  BY DEF PushesMatch
<1>2. CASE q = r
  BY <1>1, <1>2
<1>3. CASE q # r
  BY <1>1, <1>3
<1> QED BY <1>2, <1>3

LEMMA PushUnreadPushes ==
    ASSUME Ground, StoreInv, SocketInv, PushesMatch, NEW r \in Call, PushUnread(r)
    PROVE  PushesMatch'
<1>1. /\ pc[r] = "push" /\ op' = op /\ messages' = messages
      /\ \A q \in Call \ {r} : pc'[q] = pc[q] /\ op'[q] = op[q]
      /\ pc'[r] \in {"failed", "commit"}
  BY DEF PushUnread, Goto, Ground, CallTypes
<1>2. op[r].others \subseteq User
  BY <1>1, CallShape DEF Stages
<1>3. PICK S \in SUBSET op[r].others : Emit({onlineUsers[u] : u \in S} \ {None}, "unread", r)
  BY DEF PushUnread
<1> DEFINE T == {<<"unread", r, UserOf[s]>> : s \in {onlineUsers[u] : u \in S} \ {None}}
<1>4. got' = got \union T
  BY <1>3 DEF Emit
<1>5. ASSUME NEW q \in Call, NEW u \in User, <<"unread", q, u>> \in T PROVE q = r /\ u \in op[r].others
  <2>1. PICK v \in S : onlineUsers[v] # None /\ q = r /\ u = UserOf[onlineUsers[v]]
    BY <1>5
  <2>2. v \in User
    BY <1>2
  <2>3. UserOf[onlineUsers[v]] = v
    BY <2>1, <2>2 DEF SocketInv, OnlineMatches
  <2> QED BY <2>1, <2>3
<1>6. ASSUME NEW q \in Call, NEW u \in User PROVE <<"message", q, u>> \notin T
  OBVIOUS
<1>7. r \notin messages
  BY <1>1 DEF StoreInv
<1> HIDE DEF T
<1> QED BY <1>1, <1>4, <1>5, <1>6, <1>7, PushesStay

LEMMA SendToConversationPushes ==
    ASSUME Ground, StoreInv, PushesMatch, NEW r \in Call, SendToConversation(r)
    PROVE  PushesMatch'
<1>1. /\ pc[r] = "send" /\ op' = op /\ messages' = messages
      /\ \A q \in Call \ {r} : pc'[q] = pc[q] /\ op'[q] = op[q]
  BY DEF SendToConversation, Goto, store, Ground, CallTypes
<1>2. r \in messages
  BY <1>1 DEF StoreInv
<1> DEFINE T == {<<"message", r, UserOf[s]>> : s \in joined[op[r].conv]}
<1>3. got' = got \union T
  BY DEF SendToConversation, Emit
<1>4. ASSUME NEW q \in Call, NEW u \in User
      PROVE  (<<"message", q, u>> \in T => q = r) /\ <<"unread", q, u>> \notin T
  OBVIOUS
<1> HIDE DEF T
<1> QED BY <1>1, <1>2, <1>3, <1>4, PushesStay

\* The other steps push nothing.
LEMMA NothingPushed ==
    ASSUME Ground, StoreInv, PushesMatch, NEW r \in Call,
           \/ ConversationStep(r) /\ UNCHANGED <<store, sockets>>
           \/ CreateMessage(r) \/ FindForSend(r) \/ InsertMessage(r) \/ UpdateConversation(r)
           \/ Commit(r) \/ Rollback(r) \/ StopBeforeSend(r)
    PROVE  PushesMatch'
<1>1. \A q \in Call \ {r} : pc'[q] = pc[q] /\ op'[q] = op[q]
  BY ConversationChanges, ChangeKeeps DEF SendStep, Keeps
<1>2. got' = got
  BY DEF sockets, CreateMessage, FindForSend, InsertMessage, UpdateConversation, Commit, Rollback,
         StopBeforeSend
<1>3. messages \subseteq messages'
  BY DEF store, CreateMessage, FindForSend, InsertMessage, UpdateConversation, Commit, Rollback,
         StopBeforeSend
<1>4. r \in messages \/ pc[r] \in {"commit", "failed"} =>
        op'[r] = op[r] /\ (r \in messages' \/ pc'[r] \in {"commit", "failed"})
  <2>1. r \in messages => pc[r] \in {"send", "done", "failed"}
    BY DEF StoreInv
  <2>2. CASE ConversationStep(r) \/ CreateMessage(r) \/ FindForSend(r) \/ InsertMessage(r)
             \/ UpdateConversation(r)
    <3>1. pc[r] \in {"idle", "find", "exists", "write", "note", "insert", "bump"}
      BY <2>2, ConversationSteps DEF CreateMessage, Start, FindForSend, InsertMessage, UpdateConversation
    <3> QED BY <2>1, <3>1
  <2>3. CASE Commit(r)
    BY <2>3 DEF Commit
  <2>4. CASE Rollback(r) \/ StopBeforeSend(r)
    <3>1. op' = op /\ pc'[r] = "failed"
      BY <2>4 DEF Rollback, StopBeforeSend, Goto, Ground, CallTypes
    <3> QED BY <3>1
  <2> QED BY <2>2, <2>3, <2>4
<1> QED BY <1>1, <1>2, <1>3, <1>4, PushesStay

LEMMA StepPushes ==
    Ground /\ StoreInv /\ SocketInv /\ PushesMatch /\ [Next]_vars => PushesMatch'
<1> SUFFICES ASSUME Ground, StoreInv, SocketInv, PushesMatch, [Next]_vars PROVE PushesMatch'
  OBVIOUS
<1>1. ASSUME NEW r \in Call, \/ ConversationStep(r) /\ UNCHANGED <<store, sockets>>
                             \/ SendStep(r)
      PROVE  PushesMatch'
  BY <1>1, NothingPushed, PushUnreadPushes, SendToConversationPushes DEF SendStep
<1>2. ASSUME UNCHANGED <<conversationVars, store, got>> PROVE PushesMatch'
  BY <1>2 DEF conversationVars, store, PushesMatch
<1>3. ASSUME NEW s \in Socket, SocketStep(s) PROVE UNCHANGED <<conversationVars, store, got>>
  BY <1>3 DEF SocketStep, HandleConnection, HandleDisconnect, HandleJoinConversation
<1> QED BY <1>1, <1>2, <1>3 DEF Next, Quiescent, vars, sockets

LEMMA ConnectionKeepsSockets ==
    ASSUME Ground, SocketInv, NEW s \in Socket, HandleConnection(s)
    PROVE  SocketInv'
<1>0. UserOf \in [Socket -> User] /\ None \notin Socket
  BY MessagesAssumption
<1>1. /\ connected' = connected \union {s}
      /\ onlineUsers' = [onlineUsers EXCEPT ![UserOf[s]] = s]
      /\ joined' = joined
      /\ doubled' = doubled \union {UserOf[t] : t \in {t \in connected : UserOf[t] = UserOf[s]}}
  BY DEF HandleConnection
<1>2. OnlineMatches'
  BY <1>0, <1>1 DEF SocketInv, OnlineMatches
<1>3. Alike'
  <2> SUFFICES ASSUME NEW a \in connected', NEW b \in connected', a # b, UserOf[a] = UserOf[b]
               PROVE  UserOf[a] \in doubled'
    BY DEF Alike
  <2>1. CASE a = s
    BY <1>1, <2>1
  <2>2. CASE b = s
    BY <1>1, <2>2
  <2>3. CASE a # s /\ b # s
    BY <1>1, <2>3 DEF SocketInv, Alike
  <2> QED BY <2>1, <2>2, <2>3
<1>4. /\ connected' \subseteq Socket /\ onlineUsers' \in [User -> Socket \union {None}]
      /\ joined' \in [Conv -> SUBSET Socket] /\ \A c \in Conv : joined'[c] \subseteq connected'
  BY <1>0, <1>1 DEF SocketInv
<1> QED BY <1>2, <1>3, <1>4 DEF SocketInv

LEMMA DisconnectKeepsSockets ==
    ASSUME Ground, SocketInv, NEW s \in Socket, HandleDisconnect(s)
    PROVE  SocketInv'
<1>0. UserOf \in [Socket -> User] /\ None \notin Socket
  BY MessagesAssumption
<1>1. /\ s \in connected /\ connected' = connected \ {s}
      /\ onlineUsers' = [onlineUsers EXCEPT ![UserOf[s]] = None]
      /\ joined' = [c \in Conv |-> joined[c] \ {s}]
      /\ doubled' = doubled
  BY DEF HandleDisconnect
<1>2. OnlineMatches'
  <2> SUFFICES ASSUME NEW u \in User
               PROVE  /\ onlineUsers'[u] # None =>
                           onlineUsers'[u] \in connected' /\ UserOf[onlineUsers'[u]] = u
                      /\ onlineUsers'[u] = None /\ (\E t \in connected' : UserOf[t] = u) => u \in doubled'
    BY DEF OnlineMatches
  <2>1. CASE u = UserOf[s]
    <3>1. onlineUsers'[u] = None
      BY <1>1, <2>1 DEF SocketInv
    <3>2. ASSUME NEW t \in connected', UserOf[t] = u PROVE u \in doubled'
      BY <1>1, <2>1, <3>2 DEF SocketInv, Alike
    <3> QED BY <3>1, <3>2
  <2>2. CASE u # UserOf[s]
    <3>1. onlineUsers'[u] = onlineUsers[u]
      BY <1>1, <2>2 DEF SocketInv
    <3>2. onlineUsers[u] # None => onlineUsers[u] \in connected /\ UserOf[onlineUsers[u]] = u
      BY DEF SocketInv, OnlineMatches
    <3>3. onlineUsers[u] = None /\ (\E t \in connected : UserOf[t] = u) => u \in doubled
      BY DEF SocketInv, OnlineMatches
    <3> QED BY <1>1, <2>2, <3>1, <3>2, <3>3
  <2> QED BY <2>1, <2>2
<1>3. Alike'
  BY <1>1 DEF SocketInv, Alike
<1>4. /\ connected' \subseteq Socket /\ onlineUsers' \in [User -> Socket \union {None}]
      /\ joined' \in [Conv -> SUBSET Socket] /\ \A c \in Conv : joined'[c] \subseteq connected'
  BY <1>0, <1>1 DEF SocketInv
<1> QED BY <1>2, <1>3, <1>4 DEF SocketInv

LEMMA JoinKeepsSockets ==
    ASSUME SocketInv, NEW s \in Socket, NEW c \in Conv, HandleJoinConversation(s, c)
    PROVE  SocketInv'
<1>1. /\ s \in connected /\ joined' = [joined EXCEPT ![c] = @ \union {s}]
      /\ UNCHANGED <<connected, onlineUsers, doubled>>
  BY DEF HandleJoinConversation
<1>2. joined' \in [Conv -> SUBSET Socket] /\ \A d \in Conv : joined'[d] \subseteq connected
  BY <1>1 DEF SocketInv
<1> QED BY <1>1, <1>2 DEF SocketInv, OnlineMatches, Alike

LEMMA StepSockets == Ground /\ SocketInv /\ [Next]_vars => SocketInv'
<1> SUFFICES ASSUME Ground, SocketInv, [Next]_vars PROVE SocketInv'
  OBVIOUS
<1>1. ASSUME NEW s \in Socket, SocketStep(s) PROVE SocketInv'
  BY <1>1, ConnectionKeepsSockets, DisconnectKeepsSockets, JoinKeepsSockets DEF SocketStep
<1>2. ASSUME UNCHANGED <<connected, onlineUsers, joined, doubled>> PROVE SocketInv'
  BY <1>2 DEF SocketInv, OnlineMatches, Alike
<1>3. ASSUME NEW r \in Call, SendStep(r) PROVE UNCHANGED <<connected, onlineUsers, joined, doubled>>
  BY <1>3 DEF SendStep, CreateMessage, FindForSend, InsertMessage, UpdateConversation, PushUnread,
       Commit, SendToConversation, Rollback, StopBeforeSend, sockets
<1> QED BY <1>1, <1>2, <1>3 DEF Next, Quiescent, vars, sockets

-----------------------------------------------------------------------------
MessagesInv == RoomsInv /\ StoreInv /\ SocketInv /\ PushesMatch

LEMMA MessagesInvariant == Spec => []MessagesInv
<1>1. Init => MessagesInv
  <2> SUFFICES ASSUME Init PROVE MessagesInv
    OBVIOUS
  <2>1. SocketInv /\ PushesMatch
    BY DEF Init, SocketInv, OnlineMatches, Alike, PushesMatch
  <2> QED BY <2>1, InitRooms, InitStore DEF MessagesInv
<1>2. MessagesInv /\ [Next]_vars => MessagesInv'
  BY StepRooms, StepStore, StepSockets, StepPushes DEF MessagesInv, RoomsInv
<1> QED BY <1>1, <1>2, PTL DEF Spec

\* The type invariant: whoever has left has a row, a transaction that has updated a
\* conversation's row is alone with its foreign key, and a room holds connected sockets.
THEOREM TypeCorrect == Spec => []TypeOK
<1>1. MessagesInv => TypeOK
  BY DEF MessagesInv, RoomsInv, Ground, RoomTypes, CallTypes, StoreInv, SocketInv, TypeOK
<1> QED BY <1>1, MessagesInvariant, PTL

\* A conversation counts its messages, what is pushed is stored or its call has
\* failed, and the gateway's list is of connected sockets: createMessage and the
\* gateway, for any number of overlapping transactions and sockets.
THEOREM MessagesAreAccounted == Spec => []MessagesAccounted
<1>1. MessagesInv => MessagesAccounted
  BY DEF MessagesInv, StoreInv, SocketInv, MessagesAccounted
<1> QED BY <1>1, MessagesInvariant, PTL
=============================================================================
