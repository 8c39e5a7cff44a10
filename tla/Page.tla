-------------------------------- MODULE Page --------------------------------
(***************************************************************************)
(* A page of the front end: the account (PageAccount) with the dialogs that    *)
(* stand on it, the editor of the profile (ProfileEditor) and that of a        *)
(* thread (PostComposer).  A step of the account takes the dialogs with it;   *)
(* one dialog is open at a time, and what it covers cannot be used.           *)
(***************************************************************************)
EXTENDS ProfileEditor, PostComposer

vars == <<accountVars, editorVars, composerVars>>

NoDialog == ~open /\ ~dialog /\ ~confirm

Init == AccountInit /\ EditorInit /\ ComposerInit

AccountNext ==
    \/ Connect \/ Drop \/ HearOut \/ Read \/ Arrive \/ FetchFails \/ Visit
    \/ LoginDone \/ SubmitDone \/ SignOutDone \/ CallFails \/ OtherTab
    \/ SignOut /\ NoDialog
    \/ Reload /\ NothingToSave
    \/ \E u \in User : \/ Hear(u) \/ Login(u) \/ OtherDevice(u)
                       \/ LoginWithGoogle(u) /\ NothingToSave
    \/ Register \/ Forgot \/ ResetPassword

EditorNext ==
    \/ OpenEditor /\ NoDialog
    \/ CloseEditor \/ ScreenBack \/ RemoveLink
    \/ \E s \in Screen : Go(s)
    \/ \E v \in Value : EditBio(v) \/ EditLink(v)
    \/ \E i \in Save : Done(i) \/ Store(i) \/ SaveDone(i) \/ SaveFails(i)

ComposerNext ==
    \/ Open_Dialog /\ NoDialog
    \/ Write \/ Cancel \/ KeepEditing \/ Discard
    \/ Post \/ Create \/ PostDone \/ PostFails
    \/ OpenHashtags \/ CloseHashtags
    \/ \E url \in Url : PickImage(url)
    \/ \E i \in 1..MaxImages : RemoveImage(i)
    \/ \E t \in Tag : AddHashtag(t) \/ RemoveHashtag(t)

Next ==
    \/ AccountNext /\ EditorFollows /\ ComposerFollows
    \/ EditorNext /\ UNCHANGED composerVars
    \/ ComposerNext /\ UNCHANGED editorVars

Spec == Init /\ [][Next]_vars

-----------------------------------------------------------------------------
\* The sockets are those of the user that the page shows, and listen to that user's
\* rooms: a page that has signed out and in again, also as someone else, hears of its
\* own profile and of no other.  It is not so once the user has changed without a
\* sign-out (useAuth refetches ["me"] with other cookies), as SocketContext keeps the
\* sockets then.
SocketFollowsUser ==
    /\ ~SignedIn => sock = NoSock
    /\ SignedIn /\ ~switched => /\ sock.as = me.user
                                /\ sock.up => sock.rooms = {me.user}

\* When nothing is on its way and the page has missed nothing, it shows the user of the
\* browser's cookies, with the profile as it is stored: each save, sign-in, sign-out and
\* event that it takes notice of ends in a fetch that is younger than what it tells of
\* (useAuth, useProfileRealtime).
PageIsCurrent ==
    AtRest /\ NothingToSave /\ ~missed =>
        /\ me.user = cookie
        /\ cookie \in User => me.copy = stored[cookie]

\* Done sends all of the form, which may have been open while the profile, or the user,
\* of the page changed: once the page has heard of that, what the user has not touched
\* in the form is what is stored, and a save changes the user's own edits only
\* (EditProfile).
OnlyEditsAreSaved ==
    AtRest /\ NothingToSave /\ ~missed /\ open =>
        \A f \in Field \ touched : form[f] = stored[cookie][f]

\* A thread that is being written stays as it is, and the previews of its images can be
\* seen, through everything that the page does on its own, with two exceptions: there is
\* no user any more, and a post that the server has created (ThreadsPostDialog).
DraftIsKept ==
    [][/\ live' = Range(draft'.images)
       /\ inputs' = inputs /\ draft' # draft => ~SignedIn' \/ posting = "created"]_vars
=============================================================================
