------------------------------ MODULE Messages ------------------------------
(***************************************************************************)
(* MessagesService and MessagesGateway (threads-be/src/modules/messages) on   *)
(* top of the conversations: sending a message, and the sockets it is pushed *)
(* to.  A message is named by the call that sends it.                        *)
(***************************************************************************)
EXTENDS Conversations

CONSTANTS Socket, UserOf,   \* the sockets, and whose they are
          MaxSends          \* bound: the calls that send a message
ASSUME MessagesAssumption ==
    UserOf \in [Socket -> User] /\ None \notin Socket /\ MaxSends \in Nat

VARIABLES messages,    \* those that are committed
          messageCount, lastMessage,   \* columns of a conversation
          holders,     \* transactions with a message in a conversation: their
                       \* foreign key holds its row
          writer,      \* the transaction that has updated that row
          connected,   \* the sockets that are
          onlineUsers, \* of the gateway: the socket of a user
          joined,      \* the room of a conversation
          got,         \* what was pushed to a user's sockets
          before,      \* ghost: the messages there were when a call was made
          doubled      \* ghost: users with two sockets connected at a time

store == <<messages, messageCount, lastMessage, holders, writer, before>>
sockets == <<connected, onlineUsers, joined, got, doubled>>
vars == <<conversationVars, store, sockets>>

Init ==
    /\ ConversationsInit
    /\ messages = {}
    /\ messageCount = [c \in Conv |-> 0]
    /\ lastMessage = [c \in Conv |-> None]
    /\ holders = [c \in Conv |-> {}]
    /\ writer = [c \in Conv |-> None]
    /\ before = [r \in Call |-> {}]
    /\ connected = {}
    /\ onlineUsers = [u \in User |-> None]
    /\ joined = [c \in Conv |-> {}]
    /\ got = {}
    /\ doubled = {}

Of(c) == {m \in messages : op[m].conv = c}

-----------------------------------------------------------------------------
(***************************************************************************)
(* MessagesGateway.                                                         *)
(***************************************************************************)
HandleConnection(s) ==
    /\ "connect" \in mix /\ s \notin connected
    /\ connected' = connected \union {s}
    /\ onlineUsers' = [onlineUsers EXCEPT ![UserOf[s]] = s]
    /\ doubled' = doubled \union {UserOf[t] : t \in {t \in connected : UserOf[t] = UserOf[s]}}
    /\ UNCHANGED <<conversationVars, store, joined, got>>

\* The user is taken off the list, whichever socket it was.
HandleDisconnect(s) ==
    /\ s \in connected
    /\ connected' = connected \ {s}
    /\ onlineUsers' = [onlineUsers EXCEPT ![UserOf[s]] = None]
    /\ joined' = [c \in Conv |-> joined[c] \ {s}]
    /\ UNCHANGED <<conversationVars, store, got, doubled>>

\* Whoever it is of, a socket joins the room it names; nothing takes it out but
\* its end.
HandleJoinConversation(s, c) ==
    /\ s \in connected /\ c \in Known /\ s \notin joined[c]
    /\ joined' = [joined EXCEPT ![c] = @ \union {s}]
    /\ UNCHANGED <<conversationVars, store, connected, onlineUsers, got, doubled>>

Emit(S, what, r) == got' = got \union {<<what, r, UserOf[s]>> : s \in S}

-----------------------------------------------------------------------------
(***************************************************************************)
(* createMessage.                                                           *)
(***************************************************************************)
CreateMessage(r) ==
    /\ Cardinality({s \in Call : Kind(s, "send")}) < MaxSends
    /\ \E c \in Known, u \in User, q \in messages \union {None} : \E m \in Rows(c) \union {None} :
         Start(r, [kind |-> "send", conv |-> c, by |-> u, mention |-> m, reply |-> q])
    /\ before' = [before EXCEPT ![r] = messages]
    /\ UNCHANGED <<messages, messageCount, lastMessage, holders, writer, sockets>>

\* The sender takes part, and what is replied to is in this conversation.  Who
\* else takes part is remembered from here on.
FindForSend(r) ==
    /\ pc[r] = "find" /\ Kind(r, "send")
    /\ LET c == op[r].conv
           u == op[r].by
       IN  IF u \in Present(c) /\ op[r].reply \in Of(c) \union {None}
             THEN /\ op' = [op EXCEPT ![r] = [kind |-> @.kind, conv |-> c, by |-> u,
                             mention |-> @.mention, others |-> Present(c) \ {u}]]
                  /\ Goto(r, "insert")
             ELSE Goto(r, "rejected") /\ UNCHANGED op
    /\ UNCHANGED <<mix, rooms, met, store, sockets>>

\* Altered: the foreign key does not wait.
InsertMessage_AtOnce(r) ==
    /\ pc[r] = "insert" /\ Kind(r, "send")
    /\ holders' = [holders EXCEPT ![op[r].conv] = @ \union {r}]
    /\ Goto(r, "bump")
    /\ UNCHANGED <<mix, rooms, op, met, messages, messageCount, lastMessage, writer, before, sockets>>

\* The transaction begins.  The message's foreign key waits for a transaction
\* that has updated the conversation's row.
InsertMessage(r) ==
    /\ pc[r] = "insert" /\ Kind(r, "send")
    /\ writer[op[r].conv] = None
    /\ holders' = [holders EXCEPT ![op[r].conv] = @ \union {r}]
    /\ Goto(r, "bump")
    /\ UNCHANGED <<mix, rooms, op, met, messages, messageCount, lastMessage, writer, before, sockets>>

\* lastMessageId is unique, so the update waits for the foreign keys of others.
UpdateConversation(r) ==
    /\ pc[r] = "bump"
    /\ holders[op[r].conv] = {r}
    /\ writer' = [writer EXCEPT ![op[r].conv] = r]
    /\ Goto(r, "push")
    /\ UNCHANGED <<mix, rooms, op, met, messages, messageCount, lastMessage, holders, before, sockets>>

Release(r) ==
    /\ holders' = [c \in Conv |-> holders[c] \ {r}]
    /\ writer' = [c \in Conv |-> IF writer[c] = r THEN None ELSE writer[c]]

\* The pushes, one participant after the other.  At one who is mentioned the
\* loop throws, for the message it names is not there yet.
PushUnread(r) ==
    /\ pc[r] = "push"
    /\ \E S \in SUBSET op[r].others :
         /\ IF op[r].mention \in op[r].others
              THEN op[r].mention \in S /\ Goto(r, "failed") /\ Release(r)
              ELSE S = op[r].others /\ Goto(r, "commit") /\ UNCHANGED <<holders, writer>>
         /\ Emit({onlineUsers[u] : u \in S} \ {None}, "unread", r)
    /\ UNCHANGED <<mix, rooms, op, met, messages, messageCount, lastMessage, before,
                   connected, onlineUsers, joined, doubled>>

\* Altered: the count is that of the first read, plus one.
Commit_Stale(r) ==
    /\ pc[r] = "commit"
    /\ messages' = messages \union {r}
    /\ messageCount' = [messageCount EXCEPT ![op[r].conv] =
                           Cardinality(before[r] \intersect Of(op[r].conv)) + 1]
    /\ lastMessage' = [lastMessage EXCEPT ![op[r].conv] = r]
    /\ Release(r)
    /\ Goto(r, "send")
    /\ UNCHANGED <<mix, rooms, op, met, before, sockets>>

\* The count is incremented in place.
Commit(r) ==
    /\ pc[r] = "commit"
    /\ messages' = messages \union {r}
    /\ messageCount' = [messageCount EXCEPT ![op[r].conv] = @ + 1]
    /\ lastMessage' = [lastMessage EXCEPT ![op[r].conv] = r]
    /\ Release(r)
    /\ Goto(r, "send")
    /\ UNCHANGED <<mix, rooms, op, met, before, sockets>>

SendToConversation(r) ==
    /\ pc[r] = "send"
    /\ Emit(joined[op[r].conv], "message", r)
    /\ Goto(r, "done")
    /\ UNCHANGED <<mix, rooms, op, met, store, connected, onlineUsers, joined, doubled>>

\* A statement fails, the transaction expires, or it is the one that is given up
\* when two wait for each other.
Rollback(r) ==
    /\ pc[r] \in {"insert", "bump", "push", "commit"} /\ Kind(r, "send")
    /\ Release(r)
    /\ Goto(r, "failed")
    /\ UNCHANGED <<mix, rooms, op, met, messages, messageCount, lastMessage, before, sockets>>

\* The process stops before the push.
StopBeforeSend(r) ==
    /\ pc[r] = "send"
    /\ Goto(r, "failed")
    /\ UNCHANGED <<mix, rooms, op, met, store, sockets>>

-----------------------------------------------------------------------------
SendStep(r) ==
    \/ CreateMessage(r) \/ FindForSend(r) \/ InsertMessage(r) \/ UpdateConversation(r)
    \/ PushUnread(r) \/ Commit(r) \/ SendToConversation(r) \/ Rollback(r) \/ StopBeforeSend(r)

SocketStep(s) ==
    \/ HandleConnection(s) \/ HandleDisconnect(s)
    \/ \E c \in Conv : HandleJoinConversation(s, c)

Quiescent == InFlight = {} /\ UNCHANGED vars

Next ==
    \/ \E r \in Call : ConversationStep(r) /\ UNCHANGED <<store, sockets>>
    \/ \E r \in Call : SendStep(r)
    \/ \E s \in Socket : SocketStep(s)
    \/ Quiescent

Spec == Init /\ [][Next]_vars

-----------------------------------------------------------------------------
\* The type invariant.
TypeOK ==
    /\ mix \in Mixes
    /\ type \in [Conv -> {None, "direct", "group"}]
    /\ role \in [Conv -> [User -> {None, "member", "owner"}]]
    /\ \A c \in Conv : left[c] \subseteq Rows(c)
    /\ flags \in [Conv -> [User -> SUBSET Flag]]
    /\ name \in [Conv -> Call \union {None}]
    /\ notes \subseteq Call /\ met \subseteq SUBSET Call /\ messages \subseteq Call
    /\ pc \in [Call -> {"idle"} \union Running \union Final]
    /\ messageCount \in [Conv -> Nat]
    /\ lastMessage \in [Conv -> Call \union {None}]
    /\ \A c \in Conv : writer[c] # None => holders[c] = {writer[c]}
    /\ connected \subseteq Socket
    /\ onlineUsers \in [User -> Socket \union {None}]
    /\ \A c \in Conv : joined[c] \subseteq connected

\* A conversation counts its messages, and its last message is not one that was
\* there before another was sent.
CountsMatch ==
    \A c \in Conv :
        /\ messageCount[c] = Cardinality(Of(c))
        /\ lastMessage[c] = None <=> Of(c) = {}
        /\ \A m \in Of(c) : lastMessage[c] \notin before[m]

\* A pushed message is stored, and a pushed unread count belongs to one unless
\* its call has failed; the pushes of unread counts go to those who took part.
PushesMatch ==
    \A r \in Call, u \in User :
        /\ <<"message", r, u>> \in got => r \in messages
        /\ <<"unread", r, u>> \in got => /\ r \in messages \/ pc[r] \in {"commit", "failed"}
                                         /\ u \in op[r].others

\* Who is on the list is connected with that socket, and who is connected is on
\* the list, except after two sockets of one user at a time.
OnlineMatches ==
    \A u \in User :
        /\ onlineUsers[u] # None => onlineUsers[u] \in connected /\ UserOf[onlineUsers[u]] = u
        /\ onlineUsers[u] = None /\ (\E s \in connected : UserOf[s] = u) => u \in doubled

\* What messages say of themselves.
MessagesAccounted == CountsMatch /\ PushesMatch /\ OnlineMatches
=============================================================================
