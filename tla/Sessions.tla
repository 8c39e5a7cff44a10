------------------------------ MODULE Sessions ------------------------------
(***************************************************************************)
(* AuthService behind AuthController (threads-be/src/modules/auth), for one  *)
(* account: sign-up, sign-in, the rotation of refresh tokens, the ways a     *)
(* session is ended, password change and reset, and the mails of MailService *)
(* and MailProcessor.  Every statement is a transaction of its own; only the *)
(* writes of a reset are one.                                                *)
(***************************************************************************)
EXTENDS Integers, FiniteSets

CONSTANTS Browser,    \* cookie jars; the tabs of a browser share one
          Req,        \* calls, each used once; they name what they store
          MaxSecond,  \* bound: the clock, in seconds
          MaxActive   \* reset tokens an account may have in use (3)

ASSUME SessionsAssumption ==
    MaxSecond \in Nat \ {0} /\ MaxActive \in Nat \ {0}

Earlier == "earlier"   \* what was there before: a password and a session
None == "none"
ASSUME NamesAssumption == Earlier \notin Req /\ None \notin Req

Name == Req \union {Earlier}

VARIABLES account,   \* "none", "password" or "google"
          password,  \* the call that set it
          rows,      \* refresh_tokens, named by the calls that stored them
          token,     \* the second in which each was signed: two tokens signed
                     \* in one second are the same string
          aged,      \* rows past their expiresAt
          second,    \* the clock
          jar,       \* the row whose token a browser's cookie holds
          resets,    \* password_reset_tokens, named likewise: their state
          mail,      \* the mail job each call queued: its state
          pc, op,    \* each call's next step, and what it is about
          session,   \* ghost: the sign-in a row descends from
          ended,     \* ghost: <<s, e>>: call e is to end session s
          slipped,   \* ghost: <<y, e>>: call y had deleted a row, or let somebody
                     \* in, and not yet stored a row, when e deleted them all
          met        \* ghost: pairs of calls that overlapped

owner == <<account, password>>
ledger == <<rows, token, aged, session, ended, slipped>>
letters == <<resets, mail>>
calls == <<pc, op, met>>
vars == <<owner, ledger, second, jar, letters, calls>>

NoOp == [kind |-> "none"]
SignIns == {"register", "login", "google"}
Kinds == SignIns \union {"refresh", "logout", "logoutAll", "revoke", "change", "forgot", "reset"}
Running == {"find", "create", "delete", "purge", "insert", "update", "wipe", "enqueue", "answer"}
Final == {"done", "rejected", "failed", "lost"}

InFlight == {r \in Req : pc[r] \in Running}
Active == {t \in Req : resets[t] = "active"}

\* Who holds session s: its row, or the refresh that has deleted one and not
\* stored the next.
Holders(s) == {n \in Name : session[n] = s /\ (n \in rows \/ (n \in Req /\ pc[n] = "insert"))}
Live == {s \in Name : Holders(s) # {}}

\* An account its owner has not made yet, or one with a session in a browser.
Init ==
    /\ \/ /\ account = "none" /\ password = None /\ rows = {}
          /\ jar = [b \in Browser |-> None]
       \/ /\ account = "password" /\ password = Earlier /\ rows = {Earlier}
          /\ \E h \in Browser : jar = [b \in Browser |-> IF b = h THEN Earlier ELSE None]
    /\ token = [n \in Name |-> IF n \in rows THEN 1 ELSE 0]
    /\ session = [n \in Name |-> IF n \in rows THEN n ELSE None]
    /\ aged = {} /\ ended = {} /\ slipped = {} /\ met = {}
    /\ second = 1
    /\ resets = [r \in Req |-> "none"]
    /\ mail = [r \in Req |-> "none"]
    /\ pc = [r \in Req |-> "idle"]
    /\ op = [r \in Req |-> NoOp]

Goto(r, l) == pc' = [pc EXCEPT ![r] = l]

-----------------------------------------------------------------------------
(***************************************************************************)
(* What a browser sends.  Its cookie goes along as it is at that moment.     *)
(***************************************************************************)
Send(r, kind, b, arg) ==
    /\ pc[r] = "idle"
    /\ op' = [op EXCEPT ![r] = [kind |-> kind, at |-> b, arg |-> arg]]
    /\ Goto(r, "find")
    /\ met' = met \union {{q, r} : q \in InFlight}
    /\ UNCHANGED <<owner, ledger, second, jar, letters>>

\* The public routes; a reset needs a token that came by mail.  Where the answer
\* sets no cookie it does not matter which browser asks.
SendPublic(r, b) ==
    \/ Send(r, "register", None, None)
    \/ Send(r, "forgot", None, password)
    \/ Send(r, "google", b, None)
    \/ Send(r, "login", b, password)
    \/ \E t \in Req : mail[t] = "sent" /\ resets[t] # "none" /\ Send(r, "reset", None, t)
    \/ jar[b] # None /\ Send(r, "refresh", b, jar[b])

\* The routes behind the guard, which looks at the access token only.
SendGuarded(r, b) ==
    /\ jar[b] # None
    /\ \/ \E k \in {"logout", "logoutAll"} : Send(r, k, b, jar[b])
       \/ \E x \in rows : Send(r, "revoke", None, x)
       \/ Send(r, "change", None, password)

\* A call of one kind reads the account, or its reset tokens, and goes on.
Look(r, kind, l) ==
    /\ pc[r] = "find" /\ op[r].kind = kind
    /\ Goto(r, l)
    /\ UNCHANGED <<owner, ledger, second, jar, letters, op, met>>

-----------------------------------------------------------------------------
(***************************************************************************)
(* Signing in.                                                              *)
(***************************************************************************)
FindToRegister(r) == Look(r, "register", IF account = "none" THEN "create" ELSE "rejected")

ComparePassword(r) == op[r].arg = password /\ password # None

FindToLogin(r) == Look(r, "login", IF ComparePassword(r) THEN "insert" ELSE "rejected")

\* An account with a password is told by mail that it has one.
FindGoogle(r) ==
    Look(r, "google", CASE account = "none" -> "create"
                        [] account = "google" -> "insert"
                        [] account = "password" -> "enqueue")

\* The e-mail address is unique: the second of two creations fails.
CreateAccount(r) ==
    /\ pc[r] = "create" /\ op[r].kind \in {"register", "google"}
    /\ IF account = "none"
         THEN /\ account' = IF op[r].kind = "google" THEN "google" ELSE "password"
              /\ password' = IF op[r].kind = "google" THEN None ELSE r
              /\ Goto(r, "insert")
         ELSE Goto(r, "failed") /\ UNCHANGED owner
    /\ UNCHANGED <<ledger, second, jar, letters, op, met>>

\* Altered: the table takes a token it has already.
Insert_Twice(r) ==
    /\ pc[r] = "insert"
    /\ rows' = rows \union {r}
    /\ token' = [token EXCEPT ![r] = second]
    /\ session' = [session EXCEPT ![r] = IF op[r].kind = "refresh" THEN @ ELSE r]
    /\ Goto(r, IF op[r].kind = "register" THEN "done" ELSE "answer")
    /\ UNCHANGED <<owner, aged, ended, slipped, second, jar, letters, op, met>>

\* generateTokens: the token says who and in which second, and is unique in the
\* table.  Signing up sets no cookie; the other two answer with one.  The clock
\* is read here only, so this is where it goes on.
Insert(r) ==
    /\ pc[r] = "insert"
    /\ second' \in second..MaxSecond
    /\ IF \E x \in rows : token[x] = second'
         THEN Goto(r, "failed") /\ UNCHANGED <<rows, token, session>>
         ELSE /\ rows' = rows \union {r}
              /\ token' = [token EXCEPT ![r] = second']
              /\ session' = [session EXCEPT ![r] = IF op[r].kind = "refresh" THEN @ ELSE r]
              /\ Goto(r, IF op[r].kind = "register" THEN "done" ELSE "answer")
    /\ UNCHANGED <<owner, aged, ended, slipped, jar, letters, op, met>>

-----------------------------------------------------------------------------
(***************************************************************************)
(* refreshTokens.                                                           *)
(***************************************************************************)

\* The row is found by the token, and deleted by its id.  Its age is looked at
\* here only: seven days may have passed.
FindRow(r) ==
    /\ pc[r] = "find" /\ op[r].kind = "refresh"
    /\ aged' \in {aged, rows}
    /\ LET found == {x \in rows : token[x] = token[op[r].arg]}
       IN  \/ found = {} /\ Goto(r, "rejected") /\ UNCHANGED op
           \/ \E x \in found :
                /\ op' = [op EXCEPT ![r].arg = x]
                /\ Goto(r, IF x \in aged' THEN "purge" ELSE "delete")
    /\ UNCHANGED <<owner, rows, token, session, ended, slipped, second, jar, letters, met>>

\* Altered: deleteMany, which is content with no row.
DeleteOld_Many(r) ==
    /\ pc[r] = "delete"
    /\ rows' = rows \ {op[r].arg}
    /\ session' = [session EXCEPT ![r] = session[op[r].arg]]
    /\ Goto(r, "insert")
    /\ UNCHANGED <<owner, token, aged, ended, slipped, second, jar, letters, op, met>>

\* Altered: every row of the user is deleted.
DeleteOld_All(r) ==
    /\ pc[r] = "delete"
    /\ op[r].arg \in rows
    /\ rows' = {}
    /\ session' = [session EXCEPT ![r] = session[op[r].arg]]
    /\ Goto(r, "insert")
    /\ UNCHANGED <<owner, token, aged, ended, slipped, second, jar, letters, op, met>>

\* The old row goes first, the new one is stored after (Insert).  Somebody
\* else may have deleted it since it was read: P2025.
DeleteOld(r) ==
    /\ pc[r] = "delete"
    /\ IF op[r].arg \in rows
         THEN /\ rows' = rows \ {op[r].arg}
              /\ session' = [session EXCEPT ![r] = session[op[r].arg]]
              /\ Goto(r, "insert")
         ELSE Goto(r, "failed") /\ UNCHANGED <<rows, session>>
    /\ UNCHANGED <<owner, token, aged, ended, slipped, second, jar, letters, op, met>>

\* A row is deleted, which ends its session.
Remove(x, r) ==
    /\ rows' = rows \ {x}
    /\ ended' = ended \union {<<session[y], r>> : y \in {x} \intersect rows}
    /\ UNCHANGED <<token, aged, session, slipped>>

PurgeAged(r) ==
    /\ pc[r] = "purge"
    /\ Remove(op[r].arg, r)
    /\ Goto(r, IF op[r].arg \in rows THEN "rejected" ELSE "failed")
    /\ UNCHANGED <<owner, second, jar, letters, op, met>>

-----------------------------------------------------------------------------
(***************************************************************************)
(* Ending sessions.  What the owner means to end is every session that is    *)
(* held, or that signs in with a password that is no longer valid.           *)
(***************************************************************************)
Doomed(valid) ==
    Live \union {y \in Req : pc[y] = "insert" /\ op[y].kind = "login" /\ op[y].arg # valid}

WipeRows(r) ==
    /\ rows' = {}
    /\ ended' = ended \union (Doomed(password) \X {r})
    /\ slipped' = slipped \union ({y \in Req : pc[y] = "insert"} \X {r})
    /\ UNCHANGED <<token, aged, session>>

\* logout deletes by the token of the cookie, which may be an older one than the
\* session's.
Logout(r) ==
    /\ pc[r] = "find" /\ op[r].kind = "logout"
    /\ LET cookie == op[r].arg
       IN  /\ rows' = {x \in rows : token[x] # token[cookie]}
           /\ ended' = ended \union ({session[x] : x \in {cookie} \union (rows \ rows')} \X {r})
    /\ Goto(r, "answer")
    /\ UNCHANGED <<owner, token, aged, session, slipped, second, jar, letters, op, met>>

LogoutAll(r) ==
    /\ pc[r] = "find" /\ op[r].kind = "logoutAll"
    /\ WipeRows(r)
    /\ Goto(r, "answer")
    /\ UNCHANGED <<owner, second, jar, letters, op, met>>

RevokeSession(r) ==
    /\ pc[r] = "find" /\ op[r].kind = "revoke"
    /\ Remove(op[r].arg, r)
    /\ Goto(r, "done")
    /\ UNCHANGED <<owner, second, jar, letters, op, met>>

FindToChange(r) == Look(r, "change", IF ComparePassword(r) THEN "update" ELSE "rejected")

\* The password first, the sessions in a statement of their own (RevokeAll).
ChangePassword(r) ==
    /\ pc[r] = "update" /\ op[r].kind = "change"
    /\ password' = r
    /\ ended' = ended \union (Doomed(r) \X {r})
    /\ Goto(r, "wipe")
    /\ UNCHANGED <<account, rows, token, aged, session, slipped, second, jar, letters, op, met>>

\* Altered: the sessions are left alone.
RevokeAll_Forgotten(r) ==
    /\ pc[r] = "wipe"
    /\ ended' = ended \union (Doomed(password) \X {r})
    /\ Goto(r, "done")
    /\ UNCHANGED <<owner, rows, token, aged, session, slipped, second, jar, letters, op, met>>

RevokeAll(r) ==
    /\ pc[r] = "wipe"
    /\ WipeRows(r)
    /\ Goto(r, "done")
    /\ UNCHANGED <<owner, second, jar, letters, op, met>>

-----------------------------------------------------------------------------
(***************************************************************************)
(* Password reset, and the mail queue.                                      *)
(***************************************************************************)
FindToForget(r) ==
    Look(r, "forgot", IF account # "none" /\ Cardinality(Active) < MaxActive
                        THEN "create" ELSE "done")

CreateReset(r) ==
    /\ pc[r] = "create" /\ op[r].kind = "forgot"
    /\ resets' = [resets EXCEPT ![r] = "active"]
    /\ Goto(r, "enqueue")
    /\ UNCHANGED <<owner, ledger, second, jar, mail, op, met>>

\* An error of the queue is logged and forgotten.  The refused sign-in with
\* Google is answered with its conflict after this.
Enqueue(r) ==
    /\ pc[r] = "enqueue"
    /\ \/ mail' = [mail EXCEPT ![r] = "queued"]
       \/ UNCHANGED mail
    /\ Goto(r, IF op[r].kind = "google" THEN "rejected" ELSE "done")
    /\ UNCHANGED <<owner, ledger, second, jar, resets, op, met>>

FindToReset(r) ==
    Look(r, "reset", IF op[r].arg \in Active
                       THEN "update" ELSE "rejected")

\* Altered: only the token that was given is used up.
ResetPassword_One(r) ==
    /\ pc[r] = "update" /\ op[r].kind = "reset"
    /\ password' = r
    /\ resets' = [resets EXCEPT ![op[r].arg] = "used"]
    /\ Goto(r, "done")
    /\ UNCHANGED <<account, ledger, second, jar, mail, op, met>>

\* One transaction: the password, this token, and every other one in use.
\* Sessions go on.
ResetPassword(r) ==
    /\ pc[r] = "update" /\ op[r].kind = "reset"
    /\ password' = r
    /\ resets' = [t \in Req |-> IF resets[t] \in {"active", "expired"} \/ t = op[r].arg
                                  THEN "used" ELSE resets[t]]
    /\ Goto(r, "done")
    /\ UNCHANGED <<account, ledger, second, jar, mail, op, met>>

\* The mail goes out, or its attempts are used up.
SendMail(r) ==
    /\ mail[r] = "queued"
    /\ \E outcome \in {"sent", "failed"} : mail' = [mail EXCEPT ![r] = outcome]
    /\ UNCHANGED <<owner, ledger, second, jar, resets, calls>>

-----------------------------------------------------------------------------
(***************************************************************************)
(* The way back, and what else happens.                                     *)
(***************************************************************************)

\* The answer sets the cookies of the browser, or clears them.
Deliver(r) ==
    /\ pc[r] = "answer"
    /\ jar' = [jar EXCEPT ![op[r].at] =
                 IF op[r].kind \in {"logout", "logoutAll"} THEN None ELSE r]
    /\ Goto(r, "done")
    /\ UNCHANGED <<owner, ledger, second, letters, op, met>>

Lose(r) ==
    /\ pc[r] = "answer"
    /\ Goto(r, "lost")
    /\ UNCHANGED <<owner, ledger, second, jar, letters, op, met>>

\* The process stops, or a statement fails, between two writes.
Crash(r) ==
    /\ pc[r] \in Running \ {"find", "answer"}
    /\ Goto(r, "failed")
    /\ UNCHANGED <<owner, ledger, second, jar, letters, op, met>>

\* Thirty minutes pass.
ExpireResets ==
    /\ Active # {}
    /\ resets' = [t \in Req |-> IF t \in Active THEN "expired" ELSE resets[t]]
    /\ UNCHANGED <<owner, ledger, second, jar, mail, calls>>

Step(r) ==
    \/ FindToRegister(r) \/ FindToLogin(r) \/ FindGoogle(r) \/ CreateAccount(r) \/ Insert(r)
    \/ FindRow(r) \/ DeleteOld(r) \/ PurgeAged(r)
    \/ Logout(r) \/ LogoutAll(r) \/ RevokeSession(r)
    \/ FindToChange(r) \/ ChangePassword(r) \/ RevokeAll(r)
    \/ FindToForget(r) \/ CreateReset(r) \/ Enqueue(r) \/ FindToReset(r) \/ ResetPassword(r)
    \/ Deliver(r) \/ Lose(r) \/ Crash(r)

Quiescent == (\A r \in Req : pc[r] \in Final) /\ UNCHANGED vars

Next ==
    \/ \E r \in Req, b \in Browser : SendPublic(r, b) \/ SendGuarded(r, b)
    \/ \E r \in Req : Step(r) \/ SendMail(r)
    \/ ExpireResets
    \/ Quiescent

Spec == Init /\ [][Next]_vars

-----------------------------------------------------------------------------
\* The type invariant; tokens in the table are unique, and an account has a
\* password unless it came from Google.
TypeOK ==
    /\ account \in {"none", "password", "google"}
    /\ password \in Name \union {None}
    /\ account = "password" => password # None
    /\ rows \subseteq Name /\ aged \subseteq Name
    /\ token \in [Name -> 0..MaxSecond]
    /\ \A x, y \in rows : token[x] = token[y] => x = y
    /\ session \in [Name -> Name \union {None}]
    /\ ended \subseteq Name \X Req
    /\ slipped \subseteq Req \X Req
    /\ second \in 1..MaxSecond
    /\ jar \in [Browser -> Name \union {None}]
    /\ resets \in [Req -> {"none", "active", "used", "expired"}]
    /\ mail \in [Req -> {"none", "queued", "sent", "failed"}]
    /\ pc \in [Req -> {"idle"} \union Running \union Final]
    /\ met \subseteq SUBSET Req

\* A session begins with one sign-in, has one holder at a time however many
\* tabs refresh it at once, and never comes back: a refresh that read the row
\* before it was revoked cannot store a successor.
Life ==
    [s \in Name |->
        IF Holders(s) = {} THEN (IF session[s] = s THEN "over" ELSE "new")
        ELSE IF \E m, n \in Holders(s) : m # n THEN "forked" ELSE "live"]

SL == INSTANCE SessionLife WITH Session <- Name, life <- Life
SessionLifeSpec == SL!Spec

\* No two tokens are signed in one second.
Distinct == \A m, n \in Name : m # n /\ token[m] = token[n] => token[m] = 0

\* A change of the password whose second statement is still to come, or never will.
Unfinished(e) == op[e].kind = "change" /\ pc[e] \in {"wipe", "failed"}

\* Once a call has ended a session (signing out here or everywhere, revoking it,
\* finding it too old, or changing the password it was opened with), the session has
\* no row and gets none again, however refreshes and sign-ins interleave with that
\* call, but for what the code lets happen: the process stops between the new
\* password and the sessions; a refresh has deleted the old row and not stored the
\* next, or a sign-in is past its password, when all rows are deleted; or a browser
\* signs out with an older token than its session's, for it did so during a refresh
\* of its own, or the answer of that was lost.  With two equal tokens a browser may
\* refresh, and so keep alive, the session of another.
EndedMeansEnded ==
    Distinct => \A x \in rows, e \in Req : <<session[x], e>> \in ended =>
        \/ Unfinished(e)
        \/ \E y \in Req : session[y] = session[x] /\
              \/ <<y, e>> \in slipped
              \/ op[e].kind = "logout" /\ ({y, e} \in met \/ pc[y] = "lost")

\* A browser's cookie is good, unless a call has ended its session and come to its
\* end, or a refresh took its row and its answer is on its way, or never arrived.
\* So of two tabs that refresh at once the one that fails costs the browser nothing,
\* and no sign-in, sign-out or refresh of another browser does, nor a change of the
\* password that stops halfway.
CookieIsGood ==
    Distinct => \A b \in Browser : jar[b] # None =>
        \/ jar[b] \in rows
        \/ \E e \in Req : <<session[jar[b]], e>> \in ended /\ ~Unfinished(e)
        \/ \E r \in Req : op[r].kind = "refresh" /\ op[r].arg = jar[b]
                          /\ session[r] # None /\ pc[r] # "done"

\* An account has at most MaxActive reset tokens in use unless two of the requests
\* for them overlapped; a token resets the password once unless two resets with it
\* overlapped; and after a reset no token is in use that was asked for before it,
\* unless its request overlapped that reset.
ResetTokensSpent ==
    /\ Cardinality(Active) > MaxActive => \E q, r \in Active : q # r /\ {q, r} \in met
    /\ \A q, r \in Req :
         /\ q # r /\ pc[q] = "done" /\ pc[r] = "done"
         /\ op[q].kind = "reset" /\ op[r].kind = "reset" /\ op[q].arg = op[r].arg
         => {q, r} \in met
    /\ password \in Req /\ op[password].kind = "reset"
         => \A t \in Active : op[t].arg = password \/ {t, password} \in met
=============================================================================
