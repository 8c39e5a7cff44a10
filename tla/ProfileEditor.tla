---------------------------- MODULE ProfileEditor ----------------------------
(***************************************************************************)
(* The dialog in which a user edits the profile: EditProfile and its screens  *)
(* (threads-fe/src/components/profile), the store of the screen that is shown *)
(* (hooks/useScreen), and the saving (useAuth.update, AuthService             *)
(* .updateProfile).                                                         *)
(*                                                                         *)
(* Done does not close the dialog and does not wait: several saves of the     *)
(* whole form can be on their way at once.                                   *)
(***************************************************************************)
EXTENDS PageAccount

CONSTANT Save     \* the saves that can be on their way at once (bound)

VARIABLES open,    \* Profile: the dialog is open
          screen,  \* useScreen: one for the page, not for the dialog
          form,    \* the values of react-hook-form
          touched, \* ghost: the fields that the user has changed since the last reset
          saves    \* the saves on their way

editor == <<open, screen, form, touched>>
editorVars == <<open, screen, form, touched, saves>>

Screen == {"main", "bio", "links", "add", "edit"}
NoSave == [stage |-> "none", as |-> Nobody, data |-> Blank]

\* Profile is mounted while someone's profile is shown; it offers to edit one's own.
ProfileShown == SignedIn /\ at \in User

Reset(copy) == form' = copy /\ touched' = {}

-----------------------------------------------------------------------------
OpenEditor ==
    /\ SignedIn /\ at = me.user /\ ~open /\ Input
    /\ open' = TRUE
    /\ Reset(me.copy)
    /\ UNCHANGED <<cookie, stored, at, query, call, socket, hearing, missed, screen, saves>>

CloseEditor ==
    /\ open /\ open' = FALSE
    /\ UNCHANGED <<accountVars, screen, form, touched, saves>>

\* 120 ms after it is closed, or after a profile is shown.
ScreenBack ==
    /\ ProfileShown /\ ~open /\ screen # "main"
    /\ screen' = "main"
    /\ UNCHANGED <<accountVars, open, form, touched, saves>>

\* The buttons that lead from screen to screen.
Ways == [main |-> {"bio", "links"}, bio |-> {"main"},
         links |-> {"main", "add"} \union (IF form["link"] = Empty THEN {} ELSE {"edit"}),
         add |-> {"links"}, edit |-> {"links"}]

Go(s) ==
    /\ open /\ s \in Ways[screen]
    /\ screen' = s
    /\ UNCHANGED <<accountVars, open, form, touched, saves>>

Type(f, v) ==
    /\ open /\ v # form[f] /\ Input
    /\ form' = [form EXCEPT ![f] = v]
    /\ touched' = touched \union {f}
    /\ UNCHANGED <<cookie, stored, at, query, call, socket, hearing, missed, open, screen, saves>>

\* The bio and the interests on a screen each, isPrivate on the main one.
EditBio(v) == screen \in {"main", "bio"} /\ Type("bio", v)
EditLink(v) == screen \in {"add", "edit"} /\ Type("link", v)

RemoveLink ==
    /\ open /\ screen = "edit" /\ Input
    /\ form' = [form EXCEPT !["link"] = Empty]
    /\ touched' = touched \union {"link"}
    /\ screen' = "links"
    /\ UNCHANGED <<cookie, stored, at, query, call, socket, hearing, missed, open, saves>>

\* saveAndClose, which does not close.
Done(i) ==
    /\ open /\ screen # "links" /\ saves[i] = NoSave /\ Input
    /\ saves' = [saves EXCEPT ![i] = [stage |-> "sent", as |-> cookie, data |-> form]]
    /\ screen' = "main"
    /\ UNCHANGED <<cookie, stored, at, query, call, socket, hearing, missed, open, form, touched>>

-----------------------------------------------------------------------------
(***************************************************************************)
(* A save at the server, and its answer.                                    *)
(***************************************************************************)
\* UpdateProfileDto makes an empty link no link, and prisma leaves that as it is.
Written(old, data) == [data EXCEPT !["link"] = IF @ = Empty THEN old["link"] ELSE @]

Store(i) ==
    LET s == saves[i] IN
    /\ s.stage = "sent" /\ s.as \in User
    /\ stored' = [stored EXCEPT ![s.as] = Written(@, s.data)]
    /\ Emit(s.as)
    /\ saves' = [saves EXCEPT ![i].stage = "stored"]
    /\ UNCHANGED <<cookie, at, query, call, sock, joined, switched, hearing, missed, inputs, editor>>

\* Altered: the page takes its own form for what is stored now.
SaveDone_NoRefetch(i) ==
    /\ saves[i].stage = "stored"
    /\ saves' = [saves EXCEPT ![i] = NoSave]
    /\ UNCHANGED <<accountVars, editor>>

SaveDone(i) ==
    /\ saves[i].stage = "stored"
    /\ saves' = [saves EXCEPT ![i] = NoSave]
    /\ fetch' = Again(cookie)
    /\ UNCHANGED <<cookie, stored, at, me, call, socket, hearing, missed, inputs, editor>>

\* Refused (without a session, or for what is in the form), or the answer is lost.
SaveFails(i) ==
    /\ saves[i] # NoSave
    /\ saves' = [saves EXCEPT ![i] = NoSave]
    /\ missed' = (missed \/ saves[i].stage = "stored")
    /\ UNCHANGED <<cookie, stored, at, query, call, socket, hearing, inputs, editor>>

-----------------------------------------------------------------------------
(***************************************************************************)
(* What a step of the page does to the dialog.                               *)
(***************************************************************************)
\* Altered: the form is filled when the dialog is opened, and then left alone.
EditorFollows_Filled ==
    /\ open' = (open /\ ProfileShown')
    /\ screen' = IF me'.user = Unknown THEN "main" ELSE screen
    /\ UNCHANGED <<form, touched, saves>>

\* The dialog goes when Profile is unmounted.  While it is open, the form is reset to
\* ["me"] whenever that changes.  A page that starts afresh has no saves on their way
\* (bound: it is not left before they are answered).
EditorFollows ==
    /\ open' = (open /\ ProfileShown')
    /\ screen' = IF me'.user = Unknown THEN "main" ELSE screen
    /\ IF open /\ me' # me THEN Reset(me'.copy) ELSE UNCHANGED <<form, touched>>
    /\ UNCHANGED saves

EditorInit ==
    /\ open = FALSE /\ screen = "main"
    /\ form = Blank /\ touched = {}
    /\ saves = [i \in Save |-> NoSave]

NothingToSave == \A i \in Save : saves[i] = NoSave
=============================================================================
