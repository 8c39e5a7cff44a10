---------------------------- MODULE PostComposer -----------------------------
(***************************************************************************)
(* The dialog in which a user writes a thread: ThreadsPostDialog and           *)
(* HashtagDialog (threads-fe/src/components), with the mutation of usePost.     *)
(*                                                                         *)
(* A text is there or not.  An image is the object URL of its preview; the    *)
(* files, the shown URLs and prevUrlsRef are kept in three lists by position. *)
(* The list of known hashtags, and what useHashtag writes into it, is left     *)
(* out: it only decides whether AddHashtag creates the tag on the server too.  *)
(* Sidebar and MobileBottomNav have a dialog each, of which one is reachable. *)
(***************************************************************************)
EXTENDS PageAccount, Sequences, SequencesExt

CONSTANTS Url,       \* the object URLs the browser can make (bound)
          Tag,       \* names of hashtags
          MaxImages  \* bound: the images of a draft

ASSUME PostComposerAssumption == MaxImages \in Nat

VARIABLES dialog, confirm, \* showPostDialog, showExitConfirm
          hashtags,        \* isHashtagOpen
          draft,           \* the state of the reducer
          prevUrls,        \* prevUrlsRef
          live,            \* the object URLs that have not been revoked
          posting          \* the mutation createPost

composer == <<dialog, confirm, hashtags, draft, prevUrls, live>>
composerVars == <<dialog, confirm, hashtags, draft, prevUrls, live, posting>>

NoDraft == [text |-> FALSE, images |-> <<>>, tags |-> {}]
HasContent == draft.text \/ draft.images # <<>>

\* An input that leaves the account as it is.
Edit == Input /\ UNCHANGED <<cookie, stored, at, query, call, socket, hearing, missed>>

-----------------------------------------------------------------------------
\* onPlus
Open_Dialog ==
    /\ SignedIn /\ ~dialog /\ ~confirm /\ Edit
    /\ dialog' = TRUE
    /\ UNCHANGED <<confirm, hashtags, draft, prevUrls, live, posting>>

\* Nothing covers the dialog.
Writing == dialog /\ ~confirm /\ ~hashtags

Write ==
    /\ Writing /\ Edit
    /\ draft' = [draft EXCEPT !.text = ~@]
    /\ UNCHANGED <<dialog, confirm, hashtags, prevUrls, live, posting>>

\* handleFileChange, for a file that is an image and not too large.
PickImage(url) ==
    /\ Writing /\ url \notin live /\ Len(draft.images) < MaxImages /\ Edit
    /\ draft' = [draft EXCEPT !.images = Append(@, url)]
    /\ prevUrls' = Append(prevUrls, url)
    /\ live' = live \union {url}
    /\ UNCHANGED <<dialog, confirm, hashtags, posting>>

RemoveImage(i) ==
    /\ Writing /\ i \in DOMAIN draft.images /\ Edit
    /\ live' = live \ {draft.images[i]}
    /\ draft' = [draft EXCEPT !.images = RemoveAt(@, i)]
    /\ prevUrls' = IF i \in DOMAIN prevUrls THEN RemoveAt(prevUrls, i) ELSE prevUrls
    /\ UNCHANGED <<dialog, confirm, hashtags, posting>>

\* cleanupAndClose
CleanUp ==
    /\ live' = live \ Range(prevUrls)
    /\ prevUrls' = <<>>
    /\ draft' = NoDraft /\ hashtags' = FALSE
    /\ dialog' = FALSE

\* handleCancel, handleDialogChange
Cancel ==
    /\ Writing /\ Edit
    /\ IF HasContent THEN confirm' = TRUE /\ UNCHANGED <<dialog, hashtags, draft, prevUrls, live>>
                     ELSE CleanUp /\ UNCHANGED confirm
    /\ UNCHANGED posting

KeepEditing ==
    /\ confirm /\ Edit
    /\ confirm' = FALSE
    /\ UNCHANGED <<dialog, hashtags, draft, prevUrls, live, posting>>

\* handleConfirmExit
Discard ==
    /\ confirm /\ Edit
    /\ confirm' = FALSE
    /\ CleanUp
    /\ UNCHANGED posting

-----------------------------------------------------------------------------
(***************************************************************************)
(* The post.  The button is off while one is being created.                  *)
(***************************************************************************)
\* handlePost
Post ==
    /\ Writing /\ HasContent /\ posting = "none" /\ Edit
    /\ posting' = "sent"
    /\ UNCHANGED composer

Create ==
    /\ posting = "sent" /\ posting' = "created"
    /\ UNCHANGED <<accountVars, composer>>

\* The dialog is cleaned up and closed, with all that it has by then; the question
\* whether to discard it stays, if it has been asked meanwhile.
PostDone ==
    /\ posting = "created" /\ posting' = "none"
    /\ CleanUp
    /\ UNCHANGED <<accountVars, confirm>>

\* Altered: the dialog is cleaned up however the call ends.
PostFails_CleanUp ==
    /\ posting # "none" /\ posting' = "none"
    /\ CleanUp
    /\ UNCHANGED <<accountVars, confirm>>

\* Refused, or the answer is lost: the draft stays.
PostFails ==
    /\ posting # "none" /\ posting' = "none"
    /\ UNCHANGED <<accountVars, composer>>

-----------------------------------------------------------------------------
(***************************************************************************)
(* The hashtags.                                                            *)
(***************************************************************************)
OpenHashtags ==
    /\ Writing /\ Edit
    /\ hashtags' = TRUE
    /\ UNCHANGED <<dialog, confirm, draft, prevUrls, live, posting>>

CloseHashtags ==
    /\ hashtags /\ Edit
    /\ hashtags' = FALSE
    /\ UNCHANGED <<dialog, confirm, draft, prevUrls, live, posting>>

\* handleAddHashtag.  When the known tags have an entry without a name it throws at a new
\* tag before anything is done: that is no step.
AddHashtag(t) ==
    /\ hashtags /\ Edit
    /\ draft' = [draft EXCEPT !.tags = @ \union {t}]
    /\ UNCHANGED <<dialog, confirm, hashtags, prevUrls, live, posting>>

\* In the dialog of hashtags, or among what is written.
RemoveHashtag(t) ==
    /\ dialog /\ ~confirm /\ t \in draft.tags /\ Edit
    /\ draft' = [draft EXCEPT !.tags = @ \ {t}]
    /\ UNCHANGED <<dialog, confirm, hashtags, prevUrls, live, posting>>

-----------------------------------------------------------------------------
\* Without a user the dialog is unmounted, with its draft, and what comes of its call
\* does not reach it any more.
ComposerFollows ==
    IF SignedIn' THEN UNCHANGED <<composer, posting>>
                 ELSE CleanUp /\ confirm' = FALSE /\ posting' = "none"

ComposerInit ==
    /\ dialog = FALSE /\ confirm = FALSE /\ hashtags = FALSE
    /\ draft = NoDraft /\ prevUrls = <<>> /\ live = {}
    /\ posting = "none"
=============================================================================
