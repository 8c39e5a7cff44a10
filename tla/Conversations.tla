---------------------------- MODULE Conversations ----------------------------
(***************************************************************************)
(* ConversationsService (threads-be/src/modules/conversations): who takes    *)
(* part in a conversation, and what each has set for it.  Except for the     *)
(* creation, which is a transaction, every statement stands on its own, so   *)
(* what a call has read may be out of date when it writes.                   *)
(***************************************************************************)
EXTENDS Integers, Sequences, FiniteSets

CONSTANTS User,
          Call,     \* each used once; a conversation is named by its creation
          Lists,    \* bound: the lists of participants that are asked for
          Mixes     \* bound: the sets of kinds of calls that meet

Earlier == "earlier"    \* a conversation that was there before
None == "none"

CONSTANT Couple         \* the list of the two users who take part in that
ASSUME ConversationsAssumption ==
    /\ Earlier \notin Call /\ None \notin Call \union User
    /\ \A l \in Lists \union {Couple} : l \in Seq(User) /\ Len(l) >= 2
    /\ Len(Couple) = 2

Conv == Call \union {Earlier}
Flag == {"pinned", "muted"}

VARIABLES mix,      \* the kinds of calls that are made
          type,     \* of a conversation: none (there is none), direct or group
          role,     \* of a participant: none (no row), member or owner
          left,     \* the participants whose leftAt is set
          flags,    \* isPinned and isMuted of a participant
          name,     \* the call that wrote a conversation's name
          notes,    \* the calls that wrote a system message
          pc, op,   \* each call's next step, and what it is about
          met       \* ghost: pairs of calls that overlapped

rooms == <<type, role, left, flags, name, notes>>
conversationVars == <<mix, rooms, pc, op, met>>

NoOp == [kind |-> None]
Listed(l) == {l[i] : i \in 1..Len(l)}
Toggles == {"pin", "mute"}
FlagOf(kind) == IF kind = "pin" THEN "pinned" ELSE "muted"

Running == {"find", "exists", "write", "note", "insert", "bump", "push", "commit", "send"}
Final == {"done", "rejected", "failed"}

InFlight == {r \in Call : pc[r] \in Running}
Rows(c) == {u \in User : role[c][u] # None}
Present(c) == Rows(c) \ left[c]
Known == {c \in Conv : type[c] # None}
Kind(r, k) == op[r].kind = k

\* A group belongs to whoever comes first in its list, which need not be who
\* creates it.
RoleOf(t, l) ==
    [u \in User |-> IF t = None \/ u \notin Listed(l) THEN None
                    ELSE IF t = "group" /\ u = Head(l) THEN "owner" ELSE "member"]

\* Nothing yet, or a conversation of the two.
ConversationsInit ==
    /\ mix \in Mixes
    /\ \E t \in {None, "direct", "group"} :
         type = [c \in Conv |-> IF c = Earlier THEN t ELSE None]
    /\ role = [c \in Conv |-> RoleOf(type[c], Couple)]
    /\ left = [c \in Conv |-> {}]
    /\ flags = [c \in Conv |-> [u \in User |-> {}]]
    /\ name = [c \in Conv |-> None]
    /\ notes = {}
    /\ pc = [r \in Call |-> "idle"]
    /\ op = [r \in Call |-> NoOp]
    /\ met = {}

Goto(r, l) == pc' = [pc EXCEPT ![r] = l]

Start(r, what) ==
    /\ pc[r] = "idle" /\ what.kind \in mix
    /\ op' = [op EXCEPT ![r] = what]
    /\ Goto(r, "find")
    /\ met' = met \union {{q, r} : q \in InFlight}
    /\ UNCHANGED <<mix, rooms>>

\* A call that reads, and goes on or is refused.
Look(r, kind, l) ==
    /\ pc[r] = "find" /\ Kind(r, kind)
    /\ Goto(r, l)
    /\ UNCHANGED <<mix, rooms, op, met>>

-----------------------------------------------------------------------------
(***************************************************************************)
(* create.                                                                  *)
(***************************************************************************)

\* The client lists the participants, and is added when it left itself out.
Create(r) ==
    \E t \in {"direct", "group"}, l \in Lists : Start(r, [kind |-> "create", type |-> t, list |-> l])

\* Altered: whether somebody has left is not asked.
ExistingDirect_Left(S) ==
    {c \in Conv : type[c] = "direct" /\ Rows(c) \subseteq S /\ left[c] # {}}

\* findExistingDirectConversation: every row is of the two and none has left.
ExistingDirect(S) ==
    {c \in Conv : type[c] = "direct" /\ Rows(c) \subseteq S /\ left[c] = {} /\ Present(c) = S}

FindForCreate(r) ==
    Look(r, "create",
         IF op[r].type = "direct" /\ Len(op[r].list) # 2 THEN "rejected"
         ELSE IF op[r].type = "direct" /\ ExistingDirect(Listed(op[r].list)) # {} THEN "done"
         ELSE "insert")

\* One transaction: the conversation and its rows.
InsertConversation(r) ==
    /\ pc[r] = "insert" /\ Kind(r, "create")
    /\ type' = [type EXCEPT ![r] = op[r].type]
    /\ role' = [role EXCEPT ![r] = RoleOf(op[r].type, op[r].list)]
    /\ name' = [name EXCEPT ![r] = IF op[r].type = "group" THEN r ELSE None]
    /\ Goto(r, "done")
    /\ UNCHANGED <<mix, left, flags, notes, op, met>>

-----------------------------------------------------------------------------
(***************************************************************************)
(* update, addParticipant and leaveConversation.  A role is looked up without *)
(* asking whether its user has left.                                         *)
(***************************************************************************)
OnConversation(r, kind) ==
    \E c \in Known, u \in User : Start(r, [kind |-> kind, conv |-> c, by |-> u])

MayRule(r) == role[op[r].conv][op[r].by] = "owner"
IsGroup(r) == type[op[r].conv] = "group"
HasRow(r) == role[op[r].conv][op[r].by] # None

FindForUpdate(r) ==
    Look(r, "update", IF HasRow(r) /\ (IsGroup(r) => MayRule(r))
                        THEN "write" ELSE "rejected")

WriteName(r) ==
    /\ pc[r] = "write" /\ Kind(r, "update")
    /\ name' = [name EXCEPT ![op[r].conv] = r]
    /\ Goto(r, "done")
    /\ UNCHANGED <<mix, type, role, left, flags, notes, op, met>>

Add(r) ==
    \E c \in Known, u, v \in User :
        Start(r, [kind |-> "add", conv |-> c, by |-> u, whom |-> v])

FindForAdd(r) ==
    Look(r, "add", IF HasRow(r) /\ IsGroup(r) /\ MayRule(r)
                     THEN "exists" ELSE "rejected")

FindNewcomer(r) ==
    /\ pc[r] = "exists"
    /\ Goto(r, IF op[r].whom \in Present(op[r].conv) THEN "rejected" ELSE "write")
    /\ UNCHANGED <<mix, rooms, op, met>>

\* Altered: somebody who comes back is made an owner.
UpsertParticipant_Owner(r) ==
    /\ pc[r] = "write" /\ Kind(r, "add")
    /\ LET c == op[r].conv
           v == op[r].whom
       IN  /\ role' = [role EXCEPT ![c][v] = IF @ = None THEN "member" ELSE "owner"]
           /\ left' = [left EXCEPT ![c] = @ \ {v}]
    /\ Goto(r, "note")
    /\ UNCHANGED <<mix, type, flags, name, notes, op, met>>

\* Whoever comes back finds the role and the settings there were.
UpsertParticipant(r) ==
    /\ pc[r] = "write" /\ Kind(r, "add")
    /\ LET c == op[r].conv
           v == op[r].whom
       IN  /\ role' = [role EXCEPT ![c][v] = IF @ = None THEN "member" ELSE @]
           /\ left' = [left EXCEPT ![c] = @ \ {v}]
    /\ Goto(r, "note")
    /\ UNCHANGED <<mix, type, flags, name, notes, op, met>>

FindForLeave(r) ==
    Look(r, "leave", IF op[r].by \in Present(op[r].conv)
                       THEN "write" ELSE "rejected")

MarkLeft(r) ==
    /\ pc[r] = "write" /\ Kind(r, "leave")
    /\ left' = [left EXCEPT ![op[r].conv] = @ \union {op[r].by}]
    /\ Goto(r, IF IsGroup(r) THEN "note" ELSE "done")
    /\ UNCHANGED <<mix, type, role, flags, name, notes, op, met>>

\* A message of type SYSTEM, which is not counted and not sent to anybody.
WriteNote(r) ==
    /\ pc[r] = "note"
    /\ notes' = notes \union {r}
    /\ Goto(r, "done")
    /\ UNCHANGED <<mix, type, role, left, flags, name, op, met>>

-----------------------------------------------------------------------------
(***************************************************************************)
(* togglePin and toggleMute: the negation of what was read is written.       *)
(***************************************************************************)
FindForToggle(r) ==
    /\ pc[r] = "find" /\ op[r].kind \in Toggles
    /\ IF HasRow(r)
         THEN /\ op' = [op EXCEPT ![r] = [kind |-> @.kind, conv |-> @.conv, by |-> @.by,
                         set |-> FlagOf(@.kind) \notin flags[@.conv][@.by]]]
              /\ Goto(r, "write")
         ELSE Goto(r, "rejected") /\ UNCHANGED op
    /\ UNCHANGED <<mix, rooms, met>>

WriteFlag(r) ==
    /\ pc[r] = "write" /\ op[r].kind \in Toggles
    /\ LET f == FlagOf(op[r].kind)
       IN  flags' = [flags EXCEPT ![op[r].conv][op[r].by] =
                       IF op[r].set THEN @ \union {f} ELSE @ \ {f}]
    /\ Goto(r, "done")
    /\ UNCHANGED <<mix, type, role, left, name, notes, op, met>>

-----------------------------------------------------------------------------
\* The process stops between two statements, or one of them fails.
Stop(r) ==
    /\ pc[r] \in {"exists", "write", "note"} \/ (pc[r] = "insert" /\ Kind(r, "create"))
    /\ Goto(r, "failed")
    /\ UNCHANGED <<mix, rooms, op, met>>

ConversationStep(r) ==
    \/ Create(r) \/ FindForCreate(r) \/ InsertConversation(r)
    \/ OnConversation(r, "update") \/ FindForUpdate(r) \/ WriteName(r)
    \/ Add(r) \/ FindForAdd(r) \/ FindNewcomer(r) \/ UpsertParticipant(r)
    \/ OnConversation(r, "leave") \/ FindForLeave(r) \/ MarkLeft(r) \/ WriteNote(r)
    \/ (\E k \in Toggles : OnConversation(r, k)) \/ FindForToggle(r) \/ WriteFlag(r)
    \/ Stop(r)

-----------------------------------------------------------------------------
\* Two users have one direct conversation with each other, but for creations that
\* overlapped: also when one of them leaves it and asks for it again.
DirectOnce ==
    \A c, d \in Conv :
        /\ type[c] = "direct" /\ type[d] = "direct" /\ c # d
        /\ left[c] = {} /\ left[d] = {} /\ Rows(c) = Rows(d)
        => {c, d} \in met

\* A setting is what its toggles make of it, unless two of these overlapped.
FlagsCount ==
    \A c \in Conv, u \in User, k \in Toggles :
        LET written == {r \in Call : pc[r] = "done" /\ Kind(r, k) /\ op[r].conv = c /\ op[r].by = u}
        IN  (\A q, r \in written : {q, r} \notin met) =>
                (FlagOf(k) \in flags[c][u] <=> Cardinality(written) % 2 = 1)

\* A group has one owner from its creation on, whoever leaves or comes back.
OneOwner ==
    \A c \in Conv :
        /\ type[c] = "group" => Cardinality({u \in User : role[c][u] = "owner"}) = 1
        /\ c \in Call /\ type[c] = "group" => role[c][Head(op[c].list)] = "owner"

\* The calls that have added u to c (k is add), or have left for it.
Changes(k, c, u) ==
    {r \in Call : Kind(r, k) /\ pc[r] \in {"note", "failed", "done"}
                  /\ op[r].conv = c /\ u = IF k = "add" THEN op[r].whom ELSE op[r].by}

Changed(c, u) == Changes("add", c, u) \union Changes("leave", c, u)

\* Those that stopped before they wrote their message, or overlapped another.
Astray(c, u) == {r \in Changed(c, u) : r \notin notes \/ \E q \in Changed(c, u) : {q, r} \in met}

\* Whom a conversation was created with.
First(c) == IF c = Earlier THEN Couple ELSE op[c].list

\* Who takes part in a group can be told from its creation and its system messages.
\* The account is wrong by at most one for each call about the user that stopped
\* before it wrote its message, or overlapped another call about the user.
NotesTell ==
    \A c \in Conv, u \in User :
        type[c] = "group" =>
            Cardinality(Changes("add", c, u) \intersect notes) + (IF u \in Listed(First(c)) THEN 1 ELSE 0)
              - Cardinality(Changes("leave", c, u) \intersect notes) - (IF u \in Present(c) THEN 1 ELSE 0)
              \in -Cardinality(Astray(c, u))..Cardinality(Astray(c, u))

ParticipantsAccounted == FlagsCount /\ OneOwner /\ NotesTell
=============================================================================
