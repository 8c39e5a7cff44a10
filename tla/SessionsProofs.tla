--------------------------- MODULE SessionsProofs ---------------------------
(***************************************************************************)
(* Proofs about Sessions, for any number of browsers and calls: its types,   *)
(* and that it implements SessionLife.  Life is a function of the rows, of   *)
(* the calls about to store one, and of the sign-in each descends from, so   *)
(* the invariant (Shape) says what a call may hold at each of its steps, and *)
(* that no two hold the same session.  Custody follows a session from the    *)
(* browser it lives in to whoever keeps it: the two promises about cookies   *)
(* and ended sessions come from it.  ResetsInv is about reset tokens.        *)
(***************************************************************************)
EXTENDS Sessions, FiniteSetTheorems, TLAPS

Op == [kind : Kinds, at : Browser \union {None}, arg : Name \union {None}]

Outs == {"logout", "logoutAll"}

\* What call r is about and has stored, by its next step.
Stages(r) ==
    /\ pc[r] # "idle" => op[r] \in Op
    /\ pc[r] \in {"delete", "purge"} => op[r].kind = "refresh"
    /\ pc[r] \in {"idle"} \union (Running \ {"answer"}) => r \notin rows
    /\ pc[r] \in {"idle"} \union (Running \ {"answer", "insert"}) => session[r] = None
    /\ pc[r] = "insert" => IF op[r].kind = "refresh" THEN session[r] \in Name
                                                     ELSE session[r] = None
    /\ pc[r] = "answer" /\ op[r].kind \notin Outs => session[r] \in Name
    /\ pc[r] # "idle" /\ op[r].kind \in {"logout", "refresh"}
         => op[r].arg \in Name /\ session[op[r].arg] \in Name

RowsNamed == \A x \in rows : session[x] \in Name

JarNamed == \A b \in Browser : jar[b] # None => jar[b] \in Name /\ session[jar[b]] \in Name

\* A session is named by its first row, which descends from itself.
Rooted == \A n \in Name : session[n] \in Name => session[session[n]] = session[n]

\* n stands for its session: a row, or a refresh between its two writes.
Keeps(n) == session[n] \in Name /\ (n \in rows \/ (n \in Req /\ pc[n] = "insert"))

OneHolder ==
    \A m, n \in Name : Keeps(m) /\ Keeps(n) /\ session[m] = session[n] => m = n

Shape ==
    /\ op \in [Req -> Op \union {NoOp}]
    /\ \A r \in Req : Stages(r)
    /\ RowsNamed
    /\ JarNamed
    /\ Rooted
    /\ OneHolder

Inv == TypeOK /\ Shape

\* A step that stores nothing new: no session begins or changes hands.
Quiet == session' = session /\ \A n \in Name : Keeps(n)' => Keeps(n)

-----------------------------------------------------------------------------
(***************************************************************************)
(* Shape.                                                                   *)
(***************************************************************************)

LEMMA NoneIsNoName == None \notin Name
BY NamesAssumption DEF Name, None, Earlier

LEMMA InitShape == Init => Shape
<1> SUFFICES ASSUME Init PROVE Shape
  OBVIOUS
<1> USE NoneIsNoName
<1>1. \A n \in Name : session[n] = IF n \in rows THEN n ELSE None
  BY DEF Init
<1>2. rows \in {{}, {Earlier}} /\ \A b \in Browser : jar[b] # None => jar[b] \in rows
  BY DEF Init
<1>3. rows \subseteq Name
  BY <1>2 DEF Name
<1>4. \A r \in Req : Stages(r)
  <2> TAKE r \in Req
  <2>1. pc[r] = "idle" /\ op[r] = NoOp
    BY DEF Init
  <2>2. r \in Name /\ r \notin rows
    BY <1>2, NamesAssumption DEF Name
  <2> QED
    BY <1>1, <2>1, <2>2 DEF Stages
<1>5. RowsNamed /\ JarNamed /\ Rooted
  BY <1>1, <1>2, <1>3 DEF RowsNamed, JarNamed, Rooted
<1>6. OneHolder
  BY <1>1 DEF OneHolder, Keeps
<1>7. op \in [Req -> Op \union {NoOp}]
  BY DEF Init
<1> QED
  BY <1>4, <1>5, <1>6, <1>7 DEF Shape

\* Steps that only move a call on, and may delete rows.
LEMMA Moving ==
    ASSUME TypeOK, Shape, NEW r \in Req, NEW l \in Running \union Final,
           pc' = [pc EXCEPT ![r] = l], pc[r] \in Running,
           rows' \subseteq rows, session' = session, op' = op,
           jar' = jar \/ JarNamed',
           l \notin {"find", "delete", "purge"},
           l = "insert" => pc[r] # "insert" /\ op[r].kind # "refresh",
           l = "answer" => op[r].kind \in Outs,
           l \in Running \ {"answer"} => pc[r] \notin {"insert", "answer"}
    PROVE  Shape' /\ Quiet
<1> USE NoneIsNoName
<1>0. pc[r] \in {"idle"} \union Running \union Final /\ pc'[r] = l
      /\ \A q \in Req : q # r => pc'[q] = pc[q]
  BY DEF TypeOK
<1>1. ASSUME NEW q \in Req PROVE Stages(q)'
  <2>0. Stages(q)
    BY DEF Shape
  <2>1. CASE q # r
    BY <2>0, <2>1, <1>0 DEF Stages
  <2>2. CASE q = r
    <3>1. pc[r] # "idle" /\ op[r] \in Op
      BY <2>0, <2>2 DEF Stages, Running
    <3>2. l \in Running \ {"answer"} => r \notin rows /\ session[r] = None
      BY <2>0, <2>2 DEF Stages
    <3> QED
      BY <2>0, <2>2, <1>0, <3>1, <3>2 DEF Stages, Running, Final
  <2> QED
    BY <2>1, <2>2
<1>2. Quiet
  <2> SUFFICES ASSUME NEW n \in Name, Keeps(n)' PROVE Keeps(n)
    BY DEF Quiet
  <2>1. CASE n \in rows'
    BY <2>1 DEF Keeps
  <2>2. CASE n \in Req /\ pc'[n] = "insert"
    <3>1. CASE n # r
      BY <2>2, <3>1, <1>0 DEF Keeps
    <3>2. CASE n = r
      <4>1. l = "insert" /\ Stages(r)
        BY <2>2, <3>2, <1>0 DEF Shape
      <4>2. session[r] = None
        BY <4>1 DEF Stages, Running
      <4> QED
        BY <4>2, <3>2 DEF Keeps
    <3> QED
      BY <3>1, <3>2
  <2> QED
    BY <2>1, <2>2 DEF Keeps
<1>3. OneHolder'
  BY <1>2 DEF Quiet, OneHolder, Shape
<1>4. RowsNamed' /\ JarNamed' /\ Rooted'
  BY DEF Shape, RowsNamed, JarNamed, Rooted
<1> QED
  BY <1>1, <1>2, <1>3, <1>4 DEF Shape

\* The steps of a call that store nothing, but for a refresh's first two.
LEMMA StepsThatMove ==
    ASSUME TypeOK, Shape, NEW r \in Req,
           \/ FindToRegister(r) \/ FindToLogin(r) \/ FindGoogle(r) \/ CreateAccount(r)
           \/ PurgeAged(r) \/ Logout(r) \/ LogoutAll(r) \/ RevokeSession(r)
           \/ FindToChange(r) \/ ChangePassword(r) \/ RevokeAll(r)
           \/ FindToForget(r) \/ CreateReset(r) \/ Enqueue(r) \/ FindToReset(r)
           \/ ResetPassword(r) \/ Deliver(r) \/ Lose(r) \/ Crash(r)
    PROVE  Shape' /\ Quiet
<1> USE DEF Goto, calls, ledger
<1>0. Stages(r)
  BY DEF Shape
<1>1. CASE FindToRegister(r) \/ FindToLogin(r) \/ FindGoogle(r) \/ FindToChange(r)
           \/ FindToForget(r) \/ FindToReset(r)
  <2>1. PICK k \in Kinds \ {"refresh"}, l \in {"create", "insert", "enqueue", "update", "done", "rejected"} :
          Look(r, k, l)
    <3>1. CASE FindToRegister(r)
      BY <3>1 DEF FindToRegister, Kinds, SignIns
    <3>2. CASE FindToLogin(r)
      BY <3>2 DEF FindToLogin, Kinds, SignIns
    <3>3. CASE FindGoogle(r)
      <4>1. account \in {"none", "password", "google"}
        BY DEF TypeOK
      <4> QED
        BY <3>3, <4>1 DEF FindGoogle, Kinds, SignIns
    <3>4. CASE FindToChange(r)
      BY <3>4 DEF FindToChange, Kinds
    <3>5. CASE FindToForget(r)
      BY <3>5 DEF FindToForget, Kinds
    <3>6. CASE FindToReset(r)
      BY <3>6 DEF FindToReset, Kinds
    <3> QED
      BY <1>1, <3>1, <3>2, <3>3, <3>4, <3>5, <3>6
  <2>2. pc[r] = "find" /\ op[r].kind = k
    BY <2>1 DEF Look
  <2>3. l \in Running \union Final /\ l \notin {"find", "delete", "purge", "answer"}
    BY DEF Running, Final
  <2> QED
    BY <2>1, <2>2, <2>3, Moving DEF Look, Running
<1>2. CASE CreateAccount(r)
  <2>1. PICK l \in {"insert", "failed"} : pc' = [pc EXCEPT ![r] = l]
    BY <1>2 DEF CreateAccount
  <2>2. l \in Running \union Final /\ l \notin {"find", "delete", "purge", "answer"}
    BY DEF Running, Final
  <2> QED
    BY <1>2, <2>1, <2>2, Moving DEF CreateAccount, Running
<1>3. CASE PurgeAged(r)
  <2>1. PICK l \in {"rejected", "failed"} : pc' = [pc EXCEPT ![r] = l]
    BY <1>3 DEF PurgeAged
  <2> QED
    BY <1>3, <2>1, Moving DEF PurgeAged, Remove, Running, Final
<1>4. CASE Logout(r)
  BY <1>4, Moving DEF Logout, Running, Outs
<1>5. CASE LogoutAll(r)
  BY <1>5, Moving DEF LogoutAll, WipeRows, Running, Outs
<1>6. CASE RevokeSession(r)
  BY <1>6, Moving DEF RevokeSession, Remove, Running, Final
<1>7. CASE ChangePassword(r)
  BY <1>7, Moving DEF ChangePassword, Running
<1>8. CASE RevokeAll(r)
  BY <1>8, Moving DEF RevokeAll, WipeRows, Running, Final
<1>9. CASE CreateReset(r)
  BY <1>9, Moving DEF CreateReset, letters, Running
<1>10. CASE Enqueue(r)
  <2>1. PICK l \in {"rejected", "done"} : pc' = [pc EXCEPT ![r] = l]
    BY <1>10 DEF Enqueue
  <2> QED
    BY <1>10, <2>1, Moving DEF Enqueue, Running, Final
<1>11. CASE ResetPassword(r)
  BY <1>11, Moving DEF ResetPassword, Running, Final
<1>12. CASE Deliver(r)
  <2>1. pc[r] = "answer" /\ session' = session /\ rows' = rows /\ op' = op
        /\ pc' = [pc EXCEPT ![r] = "done"]
    BY <1>12 DEF Deliver
  <2>2. JarNamed'
    <3> SUFFICES ASSUME NEW b \in Browser, jar'[b] # None
                 PROVE  jar'[b] \in Name /\ session[jar'[b]] \in Name
      BY <2>1 DEF JarNamed
    <3>1. CASE jar'[b] = jar[b]
      BY <3>1 DEF Shape, JarNamed
    <3>2. CASE jar'[b] # jar[b]
      <4>1. jar'[b] = r /\ op[r].kind \notin Outs
        BY <1>12, <3>2 DEF Deliver, TypeOK, Outs
      <4> QED
        BY <4>1, <2>1, <1>0 DEF Stages, Name
    <3> QED
      BY <3>1, <3>2
  <2> QED
    BY <2>1, <2>2, Moving DEF Running, Final
<1>13. CASE Lose(r)
  BY <1>13, Moving DEF Lose, Running, Final
<1>14. CASE Crash(r)
  BY <1>14, Moving DEF Crash, Running, Final
<1> QED
  BY <1>1, <1>2, <1>3, <1>4, <1>5, <1>6, <1>7, <1>8, <1>9, <1>10, <1>11, <1>12, <1>13, <1>14

\* A call is sent.
LEMMA SendingKeepsShape ==
    ASSUME TypeOK, Shape, NEW r \in Req, NEW b \in Browser,
           SendPublic(r, b) \/ SendGuarded(r, b)
    PROVE  Shape' /\ Quiet
<1> USE NoneIsNoName
<1>1. PICK k \in Kinds, at \in Browser \union {None}, arg \in Name \union {None} :
        /\ Send(r, k, at, arg)
        /\ k \in {"logout", "refresh"} => arg # None /\ arg = jar[b]
  <2>0. password \in Name \union {None} /\ jar[b] \in Name \union {None} /\ rows \subseteq Name
    BY DEF TypeOK
  <2> DEFINE P(k, at, arg) == Send(r, k, at, arg)
                                /\ (k \in {"logout", "refresh"} => arg # None /\ arg = jar[b])
             Goal == \E k \in Kinds, at \in Browser \union {None}, arg \in Name \union {None} :
                       P(k, at, arg)
  <2>a. /\ "register" \in Kinds /\ "forgot" \in Kinds /\ "google" \in Kinds /\ "login" \in Kinds
        /\ "reset" \in Kinds /\ "refresh" \in Kinds /\ "logout" \in Kinds
        /\ "logoutAll" \in Kinds /\ "revoke" \in Kinds /\ "change" \in Kinds
    BY DEF Kinds, SignIns
  <2>1. ASSUME NEW k \in Kinds, NEW at \in Browser \union {None}, NEW arg \in Name \union {None},
               Send(r, k, at, arg), k \in {"logout", "refresh"} => arg # None /\ arg = jar[b]
        PROVE  Goal
    BY <2>1
  <2>b. \A t \in Req : t \in Name
    BY DEF Name
  <2> HIDE DEF Goal
  <2>2. ASSUME SendPublic(r, b) PROVE Goal
    <3>1. CASE Send(r, "register", None, None)
      BY <2>1, <2>a, <3>1
    <3>2. CASE Send(r, "forgot", None, password)
      BY <2>0, <2>1, <2>a, <3>2
    <3>3. CASE Send(r, "google", b, None)
      BY <2>1, <2>a, <3>3
    <3>4. CASE Send(r, "login", b, password)
      BY <2>0, <2>1, <2>a, <3>4
    <3>5. ASSUME NEW t \in Req, Send(r, "reset", None, t) PROVE Goal
      BY <2>1, <2>a, <2>b, <3>5
    <3>6. CASE jar[b] # None /\ Send(r, "refresh", b, jar[b])
      BY <2>0, <2>1, <2>a, <3>6
    <3> QED
      BY <2>2, <3>1, <3>2, <3>3, <3>4, <3>5, <3>6 DEF SendPublic
  <2>3. ASSUME SendGuarded(r, b) PROVE Goal
    <3>1. ASSUME NEW k \in {"logout", "logoutAll"}, Send(r, k, b, jar[b]), jar[b] # None PROVE Goal
      BY <2>0, <2>1, <2>a, <3>1
    <3>2. ASSUME NEW x \in rows, Send(r, "revoke", None, x) PROVE Goal
      BY <2>0, <2>1, <2>a, <3>2
    <3>3. CASE Send(r, "change", None, password)
      BY <2>0, <2>1, <2>a, <3>3
    <3> QED
      BY <2>3, <3>1, <3>2, <3>3 DEF SendGuarded
  <2> QED
    BY <2>2, <2>3 DEF Goal
<1>2. /\ pc[r] = "idle" /\ UNCHANGED <<rows, session, jar>>
      /\ op' = [op EXCEPT ![r] = [kind |-> k, at |-> at, arg |-> arg]]
      /\ pc' = [pc EXCEPT ![r] = "find"]
  BY <1>1 DEF Send, Goto, ledger
<1>3. arg # None /\ arg = jar[b] => arg \in Name /\ session[arg] \in Name
  BY DEF Shape, JarNamed
<1>4. ASSUME NEW q \in Req PROVE Stages(q)'
  <2>0. Stages(q)
    BY DEF Shape
  <2>1. CASE q # r
    BY <1>2, <2>0, <2>1 DEF Stages
  <2>2. CASE q = r
    <3>1. pc'[r] = "find" /\ op'[r] = [kind |-> k, at |-> at, arg |-> arg]
      BY <1>2, <2>2 DEF TypeOK, Shape
    <3>2. r \notin rows /\ session[r] = None
      BY <1>2, <2>0, <2>2 DEF Stages
    <3>3. op'[r] \in Op /\ op'[r].kind = k /\ op'[r].arg = arg
      BY <3>1 DEF Op
    <3> QED
      BY <1>1, <1>2, <1>3, <2>2, <3>1, <3>2, <3>3 DEF Stages
  <2> QED
    BY <2>1, <2>2
<1>5. Quiet
  BY <1>2 DEF Quiet, Keeps, TypeOK
<1>6. OneHolder'
  BY <1>5 DEF Quiet, OneHolder, Shape
<1>7. RowsNamed' /\ JarNamed' /\ Rooted'
  BY <1>2 DEF Shape, RowsNamed, JarNamed, Rooted
<1>8. (op \in [Req -> Op \union {NoOp}])'
  <2>1. [kind |-> k, at |-> at, arg |-> arg] \in Op
    BY DEF Op
  <2> QED
    BY <1>2, <2>1 DEF Shape
<1> QED
  BY <1>4, <1>5, <1>6, <1>7, <1>8 DEF Shape

LEMMA FindRowKeepsShape ==
    ASSUME TypeOK, Shape, NEW r \in Req, FindRow(r)
    PROVE  Shape' /\ Quiet
<1> USE NoneIsNoName DEF Goto
<1>0. Stages(r) /\ pc[r] = "find" /\ op[r].kind = "refresh" /\ op[r] \in Op
  BY DEF Shape, FindRow, Stages
<1>1. PICK l \in {"rejected", "purge", "delete"} :
        /\ pc' = [pc EXCEPT ![r] = l]
        /\ \/ l = "rejected" /\ op' = op
           \/ \E x \in rows : op' = [op EXCEPT ![r].arg = x]
  BY DEF FindRow
<1>2. UNCHANGED <<rows, session, jar>>
  BY DEF FindRow
<1>3. \A q \in Req : Stages(q)' /\ op'[q] \in Op \union {NoOp}
  <2> SUFFICES ASSUME NEW q \in Req PROVE Stages(q)' /\ op'[q] \in Op \union {NoOp}
    OBVIOUS
  <2>0. Stages(q) /\ op[q] \in Op \union {NoOp}
    BY DEF Shape
  <2>1. CASE q # r
    <3>1. op'[q] = op[q] /\ pc'[q] = pc[q]
      BY <1>1, <2>1 DEF Shape, TypeOK
    <3> QED
      BY <1>2, <2>0, <3>1 DEF Stages
  <2>2. CASE q = r
    <3>1. pc'[r] = l
      BY <1>1 DEF TypeOK
    <3>2. r \notin rows /\ session[r] = None
      BY <1>0 DEF Stages, Running
    <3>3. CASE l = "rejected" /\ op' = op
      BY <1>0, <1>2, <2>2, <3>1, <3>2, <3>3 DEF Stages, Running
    <3>4. ASSUME NEW x \in rows, op' = [op EXCEPT ![r].arg = x]
          PROVE  Stages(r)' /\ op'[r] \in Op
      <4>1. op'[r] = [op[r] EXCEPT !.arg = x]
        BY <3>4 DEF Shape
      <4>2. x \in Name /\ session[x] \in Name
        BY DEF TypeOK, Shape, RowsNamed
      <4>3. op'[r].kind = "refresh" /\ op'[r].arg = x /\ op'[r] \in Op
        BY <1>0, <4>1, <4>2 DEF Op
      <4> QED
        BY <1>2, <3>1, <3>2, <4>2, <4>3 DEF Stages, Running
    <3> QED
      BY <1>0, <1>1, <2>2, <3>3, <3>4
  <2> QED
    BY <2>1, <2>2
<1>4. (op \in [Req -> Op \union {NoOp}])'
  BY <1>1, <1>3 DEF Shape
<1>5. Quiet
  BY <1>1, <1>2 DEF Quiet, Keeps, TypeOK
<1>6. OneHolder'
  BY <1>5 DEF Quiet, OneHolder, Shape
<1>7. RowsNamed' /\ JarNamed' /\ Rooted'
  BY <1>2 DEF Shape, RowsNamed, JarNamed, Rooted
<1> QED
  BY <1>3, <1>4, <1>6, <1>5, <1>7 DEF Shape

\* A refresh takes the session over from the row it deletes.
Takes(r) ==
    \E x \in Name :
        /\ x # r /\ Keeps(x)
        /\ session' = [session EXCEPT ![r] = session[x]]
        /\ session[r] = None /\ Keeps(r)' /\ ~Keeps(x)'
        /\ \A n \in Name \ {r, x} : Keeps(n)' <=> Keeps(n)

LEMMA DeleteOldKeepsShape ==
    ASSUME TypeOK, Shape, NEW r \in Req, DeleteOld(r)
    PROVE  Shape' /\ (Quiet \/ Takes(r))
<1> USE NoneIsNoName DEF Goto
<1>0. Stages(r) /\ pc[r] = "delete"
  BY DEF Shape, DeleteOld
<1>1. /\ op[r].kind = "refresh" /\ op[r].arg \in Name /\ session[op[r].arg] \in Name
      /\ r \notin rows /\ session[r] = None
  BY <1>0 DEF Stages, Running
<1>2. CASE op[r].arg \notin rows
  <2>1. /\ pc' = [pc EXCEPT ![r] = "failed"] /\ UNCHANGED <<rows, session, op, jar>>
    BY <1>2 DEF DeleteOld
  <2> QED
    BY <1>0, <2>1, Moving DEF Running, Final
<1>3. ASSUME NEW x \in rows, x = op[r].arg PROVE Shape' /\ (Quiet \/ Takes(r))
  <2>1. /\ pc' = [pc EXCEPT ![r] = "insert"] /\ UNCHANGED <<op, jar>>
        /\ rows' = rows \ {x} /\ session' = [session EXCEPT ![r] = session[x]]
    BY <1>3 DEF DeleteOld
  <2>2. r \in Name /\ x \in Name /\ x # r /\ session[x] \in Name
    BY <1>1, <1>3 DEF Name
  <2>3. /\ pc'[r] = "insert" /\ session'[r] = session[x]
        /\ \A q \in Req \ {r} : pc'[q] = pc[q]
        /\ \A n \in Name \ {r} : session'[n] = session[n]
    BY <2>1, <2>2 DEF TypeOK
  <2>4. \A n \in Name : session[n] \in Name => n # r /\ session'[n] = session[n]
    BY <1>1, <2>3
  <2>5. \A q \in Req : Stages(q)'
    <3> TAKE q \in Req
    <3>1. Stages(q) /\ q \in Name /\ op[q] \in Op \union {NoOp}
      BY DEF Shape, Name
    <3>2. CASE q # r
      <4>1. /\ session'[q] = session[q] /\ pc'[q] = pc[q] /\ op'[q] = op[q]
            /\ q \in rows' => q \in rows
        BY <2>1, <2>3, <3>1, <3>2
      <4>2. op[q].arg \in Name /\ session[op[q].arg] \in Name
              => session'[op[q].arg] \in Name
        BY <2>4
      <4> QED
        BY <3>1, <4>1, <4>2 DEF Stages
    <3>3. CASE q = r
      <4>1. session'[op'[r].arg] \in Name
        BY <1>1, <1>3, <2>1, <2>4
      <4> QED
        BY <1>0, <1>1, <2>1, <2>2, <2>3, <3>3, <4>1 DEF Stages, Running
    <3> QED
      BY <3>2, <3>3
  <2>6. RowsNamed' /\ JarNamed'
    BY <2>1, <2>2, <2>4 DEF Shape, RowsNamed, JarNamed, TypeOK
  <2>7. Rooted'
    <3>1. session[session[x]] = session[x]
      BY <2>2 DEF Shape, Rooted
    <3>2. \A n \in Name : session[n] \in Name => session[n] # r
      BY <1>1 DEF Shape, Rooted
    <3> QED
      BY <2>2, <2>3, <3>1, <3>2 DEF Shape, Rooted
  <2>8. x # r /\ Keeps(x) /\ ~Keeps(x)' /\ Keeps(r)' /\ \A n \in Name \ {r, x} : Keeps(n)' <=> Keeps(n)
    <3>1. Keeps(x) /\ Keeps(r)'
      BY <1>3, <2>1, <2>2, <2>3 DEF Keeps
    <3>2. ~Keeps(x)'
      <4>1. x \in Req => pc[x] # "insert"
        BY <1>3 DEF Shape, Stages, Running
      <4> QED
        BY <2>1, <2>2, <2>3, <4>1 DEF Keeps
    <3>3. \A n \in Name \ {r, x} : Keeps(n)' <=> Keeps(n)
      BY <2>1, <2>3 DEF Keeps
    <3> QED
      BY <2>2, <3>1, <3>2, <3>3
  <2>9. OneHolder'
    <3> SUFFICES ASSUME NEW m \in Name, NEW n \in Name, Keeps(m)', Keeps(n)',
                        session'[m] = session'[n]
                 PROVE  m = n
      BY DEF OneHolder
    <3>1. OneHolder /\ Keeps(x) /\ ~Keeps(x)'
      BY <2>8 DEF Shape
    <3>2. \A k \in Name \ {r} : Keeps(k)' => k # x /\ Keeps(k) /\ session'[k] = session[k]
      BY <2>3, <2>8
    <3>3. \A k \in Name \ {r} : Keeps(k)' => session[k] # session[x]
      BY <2>2, <3>1, <3>2 DEF OneHolder
    <3> QED
      BY <2>3, <3>1, <3>2, <3>3 DEF OneHolder
  <2>10. Takes(r)
    BY <1>1, <2>1, <2>2, <2>8 DEF Takes
  <2>11. (op \in [Req -> Op \union {NoOp}])'
    BY <2>1 DEF Shape
  <2> QED
    BY <2>10, <2>11, <2>5, <2>6, <2>7, <2>9 DEF Shape
<1> QED
  BY <1>2, <1>3

\* A sign-in opens a session of its own name.
Opens(r) ==
    /\ session[r] = None
    /\ session' = [session EXCEPT ![r] = r]
    /\ Keeps(r)'
    /\ \A n \in Name \ {r} : Keeps(n)' <=> Keeps(n)

LEMMA InsertKeepsShape ==
    ASSUME TypeOK, Shape, NEW r \in Req, Insert(r)
    PROVE  Shape' /\ (Quiet \/ Opens(r))
<1> USE NoneIsNoName DEF Goto
<1>0. /\ Stages(r) /\ pc[r] = "insert" /\ r \in Name /\ r \notin rows
      /\ UNCHANGED <<op, jar>>
  BY DEF Shape, Insert, Stages, Running, Name
<1>1. CASE pc' = [pc EXCEPT ![r] = "failed"] /\ UNCHANGED <<rows, session>>
  BY <1>0, <1>1, Moving DEF Running, Final
<1>2. ASSUME NEW l \in {"done", "answer"}, pc' = [pc EXCEPT ![r] = l],
             rows' = rows \union {r},
             session' = [session EXCEPT ![r] = IF op[r].kind = "refresh" THEN @ ELSE r]
      PROVE  Shape' /\ (Quiet \/ Opens(r))
  <2>1. /\ pc'[r] = l
        /\ \A q \in Req \ {r} : pc'[q] = pc[q]
        /\ \A n \in Name \ {r} : session'[n] = session[n]
        /\ session'[r] \in Name
        /\ op[r].kind = "refresh" => session' = session /\ session[r] \in Name
        /\ op[r].kind # "refresh" => session[r] = None /\ session'[r] = r
    BY <1>0, <1>2 DEF TypeOK, Stages
  <2>2. \A n \in Name : session[n] \in Name => session'[n] = session[n]
    BY <1>0, <2>1
  <2>3. \A n \in Name \ {r} : Keeps(n)' <=> Keeps(n)
    BY <1>2, <2>1 DEF Keeps
  <2>4. Quiet \/ Opens(r)
    <3>1. CASE op[r].kind = "refresh"
      BY <1>0, <2>1, <2>3, <3>1 DEF Quiet, Keeps
    <3>2. CASE op[r].kind # "refresh"
      BY <1>0, <1>2, <2>1, <2>3, <3>2 DEF Opens, Keeps
    <3> QED
      BY <3>1, <3>2
  <2>5. \A q \in Req : Stages(q)'
    <3> TAKE q \in Req
    <3>1. Stages(q)
      BY DEF Shape
    <3>2. CASE q # r
      <4>1. /\ session'[q] = session[q] /\ pc'[q] = pc[q] /\ op'[q] = op[q]
            /\ q \in rows' => q \in rows
        BY <1>0, <1>2, <2>1, <3>2 DEF Name
      <4> QED
        BY <2>2, <3>1, <4>1 DEF Stages
    <3>3. CASE q = r
      <4>1. op[r] \in Op
        BY <1>0 DEF Stages
      <4>2. op[r].kind \in {"logout", "refresh"}
              => op[r].arg \in Name /\ session'[op[r].arg] \in Name
        BY <1>0, <2>2 DEF Stages
      <4> QED
        BY <1>0, <2>1, <3>3, <4>1, <4>2 DEF Stages, Running
    <3> QED
      BY <3>2, <3>3
  <2>6. RowsNamed' /\ JarNamed'
    BY <1>0, <1>2, <2>1, <2>2 DEF Shape, RowsNamed, JarNamed, TypeOK
  <2>7. Rooted'
    <3>1. \A n \in Name : session[n] \in Name /\ session[r] = None => session[n] # r
      BY DEF Shape, Rooted
    <3> QED
      BY <1>0, <2>1, <2>2, <3>1 DEF Shape, Rooted
  <2>8. OneHolder'
    <3>1. CASE op[r].kind = "refresh"
      <4>1. \A n \in Name : Keeps(n)' => Keeps(n)
        BY <1>0, <2>1, <2>3, <3>1 DEF Keeps
      <4> QED
        BY <2>1, <3>1, <4>1 DEF Shape, OneHolder
    <3>2. CASE op[r].kind # "refresh"
      <4>1. \A n \in Name \ {r} : Keeps(n)' => session'[n] # r
        BY <2>1, <3>2 DEF Shape, Rooted, Keeps
      <4> QED
        BY <2>1, <2>3, <3>2, <4>1 DEF Shape, OneHolder
    <3> QED
      BY <3>1, <3>2
  <2> QED
    BY <1>0, <2>4, <2>5, <2>6, <2>7, <2>8 DEF Shape
<1> QED
  BY <1>1, <1>2 DEF Insert

-----------------------------------------------------------------------------
(***************************************************************************)
(* Types.                                                                   *)
(***************************************************************************)

LEMMA InitType == Init => TypeOK
BY SessionsAssumption DEF Init, TypeOK, Name, None, Earlier

\* Ways to end a session name sessions only.
LEMMA DoomedType == ASSUME TypeOK, NEW v PROVE Doomed(v) \subseteq Name
BY DEF Doomed, Live, Name

LEMMA RemoveType ==
    ASSUME TypeOK, Shape, NEW x, NEW r \in Req, Remove(x, r)
    PROVE  /\ rows' \subseteq rows /\ ended' \subseteq Name \X Req
           /\ UNCHANGED <<token, aged, session, slipped>>
BY DEF TypeOK, Shape, RowsNamed, Remove

LEMMA WipeType ==
    ASSUME TypeOK, NEW r \in Req, WipeRows(r)
    PROVE  /\ rows' \subseteq rows /\ ended' \subseteq Name \X Req /\ slipped' \subseteq Req \X Req
           /\ UNCHANGED <<token, aged, session>>
BY DoomedType DEF TypeOK, WipeRows

LEMMA StepKeepsType ==
    ASSUME TypeOK, Shape, NEW r \in Req, Step(r)
    PROVE  TypeOK'
<1> USE NoneIsNoName DEF Goto, calls, ledger, owner, letters
<1>0. r \in Name /\ Stages(r)
  BY DEF Name, Shape
<1>1. CASE \E k, l : Look(r, k, l) /\ l \in Running \union Final
  BY <1>1 DEF Look, TypeOK
<1>2. CASE CreateAccount(r)
  BY <1>0, <1>2 DEF CreateAccount, TypeOK, Running, Final
<1>3. CASE Insert(r)
  <2>1. second' \in 1..MaxSecond /\ 0..MaxSecond # {} /\ second' \in 0..MaxSecond
    BY <1>3, SessionsAssumption DEF Insert, TypeOK
  <2>2. op[r].kind = "refresh" \/ session[r] = None
    BY <1>0, <1>3 DEF Insert, Stages
  <2>3. (session \in [Name -> Name \union {None}])'
    BY <1>0, <1>3 DEF Insert, TypeOK
  <2>4. (pc \in [Req -> {"idle"} \union Running \union Final])'
    BY <1>3 DEF Insert, TypeOK, Running, Final
  <2>5. (token \in [Name -> 0..MaxSecond])' /\ (rows \subseteq Name)'
    BY <1>0, <1>3, <2>1 DEF Insert, TypeOK
  <2>6. (\A x, y \in rows : token[x] = token[y] => x = y)'
    <3>1. CASE UNCHANGED <<rows, token>>
      BY <3>1 DEF TypeOK
    <3>2. CASE /\ \A x \in rows : token[x] # second'
               /\ rows' = rows \union {r} /\ token' = [token EXCEPT ![r] = second']
      BY <1>0, <3>2 DEF TypeOK
    <3> QED
      BY <1>3, <3>1, <3>2 DEF Insert
  <2> QED
    BY <1>3, <2>1, <2>3, <2>4, <2>5, <2>6 DEF Insert, TypeOK
<1>4. CASE FindRow(r)
  BY <1>4 DEF FindRow, TypeOK, Running, Final
<1>5. CASE DeleteOld(r)
  <2>1. session[op[r].arg] \in Name
    BY <1>0, <1>5 DEF DeleteOld, Stages
  <2> QED
    BY <1>0, <1>5, <2>1 DEF DeleteOld, TypeOK, Running, Final
<1>6. CASE PurgeAged(r)
  BY <1>6, RemoveType DEF PurgeAged, TypeOK, Final
<1>7. CASE Logout(r)
  <2>1. session[op[r].arg] \in Name
    BY <1>0, <1>7 DEF Logout, Stages
  <2>2. rows' \subseteq rows /\ ended' \subseteq Name \X Req
    BY <1>7, <2>1 DEF Logout, TypeOK, Shape, RowsNamed
  <2> QED
    BY <1>7, <2>2 DEF Logout, TypeOK, Running
<1>8. CASE LogoutAll(r)
  BY <1>8, WipeType DEF LogoutAll, TypeOK, Running
<1>9. CASE RevokeSession(r)
  BY <1>9, RemoveType DEF RevokeSession, TypeOK, Final
<1>10. CASE ChangePassword(r)
  <2>1. ended' \subseteq Name \X Req
    BY <1>10, DoomedType DEF ChangePassword, TypeOK
  <2> QED
    BY <1>0, <1>10, <2>1 DEF ChangePassword, TypeOK, Running
<1>11. CASE RevokeAll(r)
  BY <1>11, WipeType DEF RevokeAll, TypeOK, Final
<1>12. CASE CreateReset(r)
  BY <1>12 DEF CreateReset, TypeOK, Running
<1>13. CASE Enqueue(r)
  BY <1>13 DEF Enqueue, TypeOK, Final
<1>14. CASE ResetPassword(r)
  BY <1>0, <1>14 DEF ResetPassword, TypeOK, Final
<1>15. CASE Deliver(r)
  BY <1>0, <1>15 DEF Deliver, TypeOK, Final
<1>16. CASE Lose(r)
  BY <1>16 DEF Lose, TypeOK, Final
<1>17. CASE Crash(r)
  BY <1>17 DEF Crash, TypeOK, Final
<1>18. CASE FindToRegister(r) \/ FindToLogin(r) \/ FindGoogle(r) \/ FindToChange(r)
            \/ FindToForget(r) \/ FindToReset(r)
  <2>1. account \in {"none", "password", "google"}
    BY DEF TypeOK
  <2> QED
    BY <1>1, <1>18, <2>1 DEF FindToRegister, FindToLogin, FindGoogle, FindToChange,
       FindToForget, FindToReset, Running, Final
<1> QED
  BY <1>2, <1>3, <1>4, <1>5, <1>6, <1>7, <1>8, <1>9, <1>10, <1>11, <1>12, <1>13, <1>14,
     <1>15, <1>16, <1>17, <1>18 DEF Step

LEMMA InitInv == Init => Inv
BY InitShape, InitType DEF Inv

\* Steps of a call end, open or hand over at most one session.
LEMMA StepKeepsShape ==
    ASSUME TypeOK, Shape, NEW r \in Req, Step(r)
    PROVE  Shape' /\ (Quiet \/ Opens(r) \/ Takes(r))
BY StepsThatMove, FindRowKeepsShape, DeleteOldKeepsShape, InsertKeepsShape DEF Step

LEMMA NextKeepsInv ==
    ASSUME Inv, [Next]_vars
    PROVE  Inv' /\ (Quiet \/ \E r \in Req : Opens(r) \/ Takes(r))
<1> USE DEF Inv
<1>0. ASSUME UNCHANGED <<rows, session, jar, pc, op>> PROVE Shape' /\ Quiet
  BY <1>0 DEF Shape, Stages, RowsNamed, JarNamed, Rooted, OneHolder, Keeps, Quiet
<1>1. ASSUME NEW r \in Req, NEW b \in Browser, SendPublic(r, b) \/ SendGuarded(r, b)
      PROVE  Inv' /\ Quiet
  <2>1. PICK k, at, arg : Send(r, k, at, arg)
    BY <1>1 DEF SendPublic, SendGuarded
  <2>2. TypeOK'
    BY <2>1 DEF Send, Goto, TypeOK, InFlight, Running, owner, ledger, letters
  <2> QED
    BY <1>1, <2>2, SendingKeepsShape
<1>2. ASSUME NEW r \in Req, Step(r) PROVE Inv' /\ (Quiet \/ Opens(r) \/ Takes(r))
  BY <1>2, StepKeepsShape, StepKeepsType
<1>3. ASSUME NEW r \in Req, SendMail(r) PROVE Inv' /\ Quiet
  BY <1>0, <1>3 DEF SendMail, TypeOK, owner, ledger, calls
<1>4. CASE ExpireResets
  BY <1>0, <1>4 DEF ExpireResets, TypeOK, owner, ledger, calls
<1>5. CASE UNCHANGED vars
  BY <1>0, <1>5 DEF vars, TypeOK, owner, ledger, letters, calls
<1> QED
  BY <1>1, <1>2, <1>3, <1>4, <1>5 DEF Next, Quiescent

LEMMA Invariant == Spec => []Inv
BY InitInv, NextKeepsInv, PTL DEF Spec

\* Whatever the calls and however they overlap, every variable keeps its type,
\* and no two rows of refresh_tokens hold the same token.
THEOREM TypeCorrect == Spec => []TypeOK
<1>1. Inv => TypeOK
  BY DEF Inv
<1> QED
  BY <1>1, Invariant, PTL

-----------------------------------------------------------------------------
(***************************************************************************)
(* The refinement.                                                          *)
(***************************************************************************)
Held(s) == \E n \in Name : Keeps(n) /\ session[n] = s

\* In a state of the invariant no session is forked, and one that is held has
\* begun.
LifePlain ==
    /\ Life = [s \in Name |-> IF Held(s) THEN "live"
                              ELSE IF session[s] = s THEN "over" ELSE "new"]
    /\ \A s \in Name : Held(s) => session[s] = s

LEMMA LifeIs == Inv => LifePlain
<1> SUFFICES ASSUME Inv PROVE LifePlain
  OBVIOUS
<1>1. ASSUME NEW s \in Name
      PROVE  Holders(s) = {n \in Name : Keeps(n) /\ session[n] = s}
  BY DEF Holders, Keeps
<1>2. ASSUME NEW s \in Name
      PROVE  /\ Held(s) <=> Holders(s) # {}
             /\ ~\E m, n \in Holders(s) : m # n
  BY <1>1 DEF Held, Inv, Shape, OneHolder
<1>3. Life = [s \in Name |-> IF Held(s) THEN "live"
                             ELSE IF session[s] = s THEN "over" ELSE "new"]
  BY <1>2 DEF Life
<1>4. \A s \in Name : Held(s) => session[s] = s
  BY DEF Held, Inv, Shape, Rooted, Keeps
<1> QED
  BY <1>3, <1>4 DEF LifePlain

LEMMA LifeWillBe == Inv' => LifePlain'
BY LifeIs, PTL

LEMMA InitRefines == Init => SL!Init
<1> SUFFICES ASSUME Init PROVE SL!Init
  OBVIOUS
<1>1. Inv
  BY InitInv
<1>2. \A s \in Name : session[s] = s => Held(s)
  BY NoneIsNoName DEF Init, Held, Keeps
<1> QED
  BY <1>1, <1>2, LifeIs DEF SL!Init, LifePlain

LEMMA QuietRefines ==
    ASSUME Inv, Inv', Quiet
    PROVE  \E S \in SUBSET Name : SL!End(S)
<1> DEFINE S == {s \in Name : Held(s) /\ ~Held(s)'}
<1>1. ASSUME NEW s \in Name, Held(s)' PROVE Held(s)
  BY <1>1 DEF Held, Quiet
<1>2. \A s \in S : Life[s] = "live"
  BY LifeIs DEF LifePlain
<1>3. Life' = [s \in Name |-> IF Held(s)' THEN "live"
                              ELSE IF session'[s] = s THEN "over" ELSE "new"]
  BY LifeWillBe DEF LifePlain
<1>4. Life' = [s \in Name |-> IF s \in S THEN "over" ELSE Life[s]]
  BY <1>1, <1>3, LifeIs DEF Quiet, LifePlain
<1>5. SL!End(S)
  BY <1>2, <1>4 DEF SL!End
<1> QED
  BY <1>5

LEMMA OpensRefines ==
    ASSUME Inv, Inv', NEW r \in Req, Opens(r)
    PROVE  SL!Begin(r)
<1> USE NoneIsNoName
<1>0. r \in Name /\ session \in [Name -> Name \union {None}]
  BY DEF Name, Inv, TypeOK
<1>1. \A n \in Name : Keeps(n) => n # r /\ session[n] # r
  BY DEF Opens, Keeps, Inv, Shape, Rooted
<1>2. ~Held(r) /\ Held(r)'
  BY <1>0, <1>1 DEF Held, Opens
<1>3. ASSUME NEW s \in Name \ {r}
      PROVE  (Held(s)' <=> Held(s)) /\ session'[s] = session[s]
  BY <1>0, <1>1 DEF Held, Opens
<1>4. Life' = [s \in Name |-> IF Held(s)' THEN "live"
                              ELSE IF session'[s] = s THEN "over" ELSE "new"]
  BY LifeWillBe DEF LifePlain
<1>5. Life[r] = "new"
  BY <1>0, <1>2, LifeIs DEF Opens, LifePlain
<1>6. Life' = [s \in Name |-> IF s = r THEN "live" ELSE Life[s]]
  BY <1>0, <1>2, <1>3, <1>4, LifeIs DEF LifePlain
<1>7. DOMAIN Life = Name
  BY DEF Life
<1>8. Life' = [Life EXCEPT ![r] = "live"]
  BY <1>0, <1>6, <1>7, LifeIs DEF LifePlain
<1> QED
  BY <1>5, <1>8 DEF SL!Begin

LEMMA TakesRefines ==
    ASSUME Inv, Inv', NEW r \in Req, Takes(r)
    PROVE  Life' = Life
<1> USE NoneIsNoName
<1>0. r \in Name /\ session \in [Name -> Name \union {None}]
  BY DEF Name, Inv, TypeOK
<1>1. PICK x \in Name :
        /\ x # r /\ Keeps(x)
        /\ session' = [session EXCEPT ![r] = session[x]]
        /\ session[r] = None /\ Keeps(r)' /\ ~Keeps(x)'
        /\ \A n \in Name \ {r, x} : Keeps(n)' <=> Keeps(n)
  BY DEF Takes
<1>2. session'[r] = session[x] /\ \A n \in Name \ {r} : session'[n] = session[n]
  BY <1>0, <1>1
<1>3. ~Keeps(r)
  BY <1>1 DEF Keeps
<1>4. ASSUME NEW s \in Name PROVE Held(s)' <=> Held(s)
  BY <1>0, <1>1, <1>2, <1>3 DEF Held
<1>5. ASSUME NEW s \in Name PROVE session'[s] = s <=> session[s] = s
  <2>1. session[x] # r
    BY <1>1 DEF Keeps, Inv, Shape, Rooted
  <2> QED
    BY <1>1, <1>2, <2>1
<1>6. Life' = [s \in Name |-> IF Held(s)' THEN "live"
                              ELSE IF session'[s] = s THEN "over" ELSE "new"]
  BY LifeWillBe DEF LifePlain
<1> QED
  BY <1>4, <1>5, <1>6, LifeIs DEF LifePlain

\* AuthService implements SessionLife: for any number of tabs, browsers and
\* calls, and wherever the process stops, a session begins with one sign-in,
\* is never held by two rows, and never comes back.
THEOREM ImplementsSessionLife == Spec => SessionLifeSpec
<1>1. Inv /\ Inv' /\ [Next]_vars => [SL!Next]_Life
  <2> SUFFICES ASSUME Inv, Inv', [Next]_vars PROVE [SL!Next]_Life
    OBVIOUS
  <2>1. CASE Quiet
    BY <2>1, QuietRefines DEF SL!Next
  <2>2. ASSUME NEW r \in Req, Opens(r) PROVE SL!Next
    BY <2>2, OpensRefines DEF SL!Next, Name
  <2>3. ASSUME NEW r \in Req, Takes(r) PROVE Life' = Life
    BY <2>3, TakesRefines
  <2> QED
    BY <2>1, <2>2, <2>3, NextKeepsInv
<1> QED
  BY <1>1, InitRefines, Invariant, PTL DEF Spec, SessionLifeSpec, SL!Spec

-----------------------------------------------------------------------------
(***************************************************************************)
(* Cookies and ended sessions.  As long as no two tokens are equal, every     *)
(* session stays with one browser, which sends its refreshes and its sign-out; *)
(* calls that are in flight together have met.                               *)
(***************************************************************************)
Storing == SignIns \union {"refresh"}

\* A token is signed when its row is stored; only calls that sign in or refresh store.
Signed ==
    /\ \A x \in rows : token[x] # 0
    /\ \A r \in Req : /\ pc[r] = "idle" => op[r] = NoOp
                      /\ pc[r] \in {"idle"} \union (Running \ {"answer"}) => token[r] = 0
                      /\ pc[r] = "insert" => op[r].kind \in Storing
                      /\ session[r] \in Name => op[r].kind \in Storing

MetWhenTwo == \A q, r \in Req : pc[q] \in Running /\ pc[r] \in Running /\ q # r => {q, r} \in met

\* A change of the password ends sessions from its first statement on.
Ending ==
    \A s \in Name, e \in Req : <<s, e>> \in ended =>
        pc[e] # "idle" /\ (op[e].kind = "change" => pc[e] \in {"wipe", "failed", "done"})

\* Only a sign-in that is past its password is ended before it begins.
Reserved ==
    \A y, e \in Req : <<y, e>> \in ended /\ session[y] = None =>
        /\ pc[y] \in {"insert", "failed"}
        /\ pc[y] = "insert" => <<y, e>> \in slipped \/ Unfinished(e)

\* h is the browser that had a session at first.
Home(s, h) == IF s = Earlier THEN h ELSE op[s].at

AtHome(h) ==
    /\ \A b \in Browser : jar[b] # None => Home(session[jar[b]], h) = b
    /\ \A r \in Req : session[r] \in Name => Home(session[r], h) = op[r].at
    /\ \A r \in Req : op[r].kind \in {"refresh", "logout"}
                        => Home(session[op[r].arg], h) = op[r].at

\* A cookie is what an answer has brought.
Brought(n) == n \in Req => pc[n] = "done"

Cookies ==
    /\ \A b \in Browser : Brought(jar[b])
    /\ \A r \in Req : op[r].kind \in {"refresh", "logout"} => Brought(op[r].arg)

\* Some call has ended the session, and come to its end.
Over(s) == \E e \in Req : <<s, e>> \in ended /\ ~Unfinished(e)

\* A call with an answer on its way holds its session, or nobody does.
Answering ==
    \A r \in Req : pc[r] = "answer" /\ session[r] \in Name =>
        /\ r \in rows \/ Over(session[r])
        /\ \A n \in Name : Keeps(n) /\ session[n] = session[r] => n = r

Good(c) ==
    \/ c \in rows
    \/ Over(session[c])
    \/ \E r \in Req : op[r].kind = "refresh" /\ op[r].arg = c /\ session[r] # None /\ pc[r] # "done"

\* Why a session may go on after call e has ended it; OutExcuse is that of a
\* sign-out.
OutExcuse(s, e) == \E y \in Req : session[y] = s /\ ({y, e} \in met \/ pc[y] = "lost")

Excuse(s, e) ==
    \/ Unfinished(e)
    \/ \E y \in Req : session[y] = s /\ <<y, e>> \in slipped
    \/ op[e].kind = "logout" /\ OutExcuse(s, e)

\* A session has moved on from a cookie because of a call that is still to answer,
\* or never will; when a sign-out has been sent, only with an excuse.
JarFresh ==
    \A b \in Browser, n \in Name :
        jar[b] # None /\ Keeps(n) /\ session[n] = session[jar[b]] /\ n # jar[b] =>
            \E y \in Req : session[y] = session[n] /\ pc[y] \in Running \union {"lost"}

SignOutFresh ==
    \A r \in Req, n, s \in Name :
        /\ pc[r] = "find" /\ op[r].kind = "logout"
        /\ Keeps(n) /\ session[n] = s /\ session[op[r].arg] = s /\ n # op[r].arg
        => OutExcuse(s, r)

EndedExcused ==
    \A n, s \in Name, e \in Req :
        Keeps(n) /\ session[n] = s /\ <<s, e>> \in ended => Excuse(s, e)

Custody ==
    /\ \E h \in Browser \union {None} : AtHome(h)
    /\ Cookies /\ Answering /\ JarFresh /\ SignOutFresh /\ EndedExcused
    /\ \A b \in Browser : jar[b] # None => Good(jar[b])

CustodyInv == Inv /\ Signed /\ MetWhenTwo /\ Ending /\ Reserved /\ (Distinct => Custody)

LEMMA InitCustody == Init => CustodyInv
<1> SUFFICES ASSUME Init PROVE CustodyInv
  OBVIOUS
<1> USE NoneIsNoName
<1>1. /\ \A r \in Req : pc[r] = "idle" /\ op[r] = NoOp /\ session[r] = None /\ token[r] = 0 /\ r \in Name
      /\ rows \in {{}, {Earlier}} /\ ended = {}
      /\ \A n \in Name : session[n] = IF n \in rows THEN n ELSE None
  <2>1. \A r \in Req : r \in Name /\ r # Earlier
    BY NamesAssumption DEF Name
  <2> QED BY <2>1 DEF Init
<1>2. /\ \A b \in Browser : jar[b] # None => jar[b] = Earlier /\ Earlier \in rows
      /\ \E h \in Browser \union {None} : \A b \in Browser : jar[b] # None => b = h
  BY DEF Init
<1>3. Signed
  <2>1. \A x \in rows : token[x] # 0
    BY DEF Init, Name
  <2> QED BY <1>1, <2>1 DEF Signed, Running
<1>4. MetWhenTwo /\ Ending /\ Reserved
  BY <1>1 DEF MetWhenTwo, Ending, Reserved, Running
<1>5. session[Earlier] = Earlier \/ Earlier \notin rows
  BY <1>1 DEF Name
<1>6. \E h \in Browser \union {None} : AtHome(h)
  BY <1>1, <1>2, <1>5 DEF AtHome, Home, NoOp
<1>7. Cookies /\ Answering /\ SignOutFresh /\ EndedExcused
  BY <1>1, <1>2, NamesAssumption DEF Cookies, Brought, Answering, SignOutFresh, EndedExcused, NoOp
<1>8. JarFresh
  BY <1>1, <1>2, <1>5 DEF JarFresh, Keeps
<1>9. \A b \in Browser : jar[b] # None => Good(jar[b])
  BY <1>2 DEF Good
<1> QED BY <1>3, <1>4, <1>6, <1>7, <1>8, <1>9, InitInv DEF CustodyInv, Custody

\* What is excused stays so, and what is over is over for good.
LEMMA OutExcusesLast ==
    ASSUME NEW s, NEW e, OutExcuse(s, e), met \subseteq met',
           \A y \in Req : session[y] = s => session'[y] = s,
           \A y \in Req : pc[y] = "lost" => pc'[y] = "lost"
    PROVE  OutExcuse(s, e)'
BY DEF OutExcuse

LEMMA ExcusesLast ==
    ASSUME NEW s, NEW e, Excuse(s, e), met \subseteq met', slipped \subseteq slipped',
           op'[e].kind = op[e].kind, pc[e] \in {"wipe", "failed"} => pc'[e] \in {"wipe", "failed"},
           \A y \in Req : session[y] = s => session'[y] = s,
           \A y \in Req : pc[y] = "lost" => pc'[y] = "lost"
    PROVE  Excuse(s, e)'
BY OutExcusesLast DEF Excuse, Unfinished

LEMMA OverLasts ==
    ASSUME Ending, NEW s \in Name, Over(s), ended \subseteq ended',
           \A e \in Req : pc[e] # "idle" => op'[e].kind = op[e].kind,
           \A e \in Req : pc[e] = "done" => pc'[e] = "done"
    PROVE  Over(s)'
BY DEF Over, Unfinished, Ending

\* A step that signs nothing, brings no cookie and keeps op: it moves a call on and
\* may end sessions, each with an excuse if it is kept.
LEMMA MovingKeepsCustody ==
    ASSUME CustodyInv, Inv', Quiet, NEW r \in Req, NEW l \in Running \union Final,
           pc' = [pc EXCEPT ![r] = l], pc[r] \in Running,
           rows' \subseteq rows, ended \subseteq ended', slipped \subseteq slipped', session' = session,
           UNCHANGED <<op, jar, token, met>>,
           l # "find",
           l = "answer" => op[r].kind \in Outs,
           l = "insert" => op[r].kind \in SignIns,
           l \in Running \ {"answer"} => pc[r] \notin {"insert", "answer"},
           pc[r] = "answer" => l = "lost",
           pc[r] = "insert" /\ op[r].kind = "refresh" => l # "done",
           Ending', Reserved',
           Custody => /\ \A x \in rows \ rows' : Over(session[x])'
                      /\ EndedExcused'
    PROVE  CustodyInv'
<1> USE NoneIsNoName
<1>0. /\ pc'[r] = l /\ \A q \in Req : q # r => pc'[q] = pc[q]
      /\ \A q \in Req : q \in Name
      /\ \A n \in Name : Keeps(n)' => Keeps(n)
      /\ Stages(r) /\ Shape /\ TypeOK
  BY DEF CustodyInv, Inv, TypeOK, Quiet, Name, Shape
<1>1. Signed'
  <2>1. \A x \in rows' : token'[x] # 0
    BY DEF CustodyInv, Signed
  <2>2. ASSUME NEW q \in Req
        PROVE  /\ pc'[q] = "idle" => op'[q] = NoOp
               /\ pc'[q] \in {"idle"} \union (Running \ {"answer"}) => token'[q] = 0
               /\ pc'[q] = "insert" => op'[q].kind \in Storing
               /\ session'[q] \in Name => op'[q].kind \in Storing
    BY <1>0 DEF CustodyInv, Signed, Running, Final, Storing
  <2> QED BY <2>1, <2>2 DEF Signed
<1>2. MetWhenTwo'
  BY <1>0 DEF CustodyInv, MetWhenTwo
<1>3. Distinct' => Distinct
  BY DEF Distinct
<1>4. ASSUME Custody PROVE Custody'
  <2>0. \A s \in Name : Over(s) => Over(s)'
    <3>1. \A e \in Req : pc[e] = "done" => pc'[e] = "done"
      BY <1>0 DEF Running
    <3> QED BY <3>1, OverLasts DEF CustodyInv
  <2>1. PICK h \in Browser \union {None} : AtHome(h)
    BY <1>4 DEF Custody
  <2>2. AtHome(h)'
    BY <2>1 DEF AtHome, Home
  <2>3. \A q \in Req : pc[q] = "done" => pc'[q] = "done"
    BY <1>0 DEF Running
  <2>4. Cookies'
    BY <1>4, <2>3 DEF Custody, Cookies, Brought
  <2>5. Answering'
    <3> SUFFICES ASSUME NEW q \in Req, pc'[q] = "answer", session[q] \in Name
                 PROVE  /\ q \in rows' \/ Over(session[q])'
                        /\ \A n \in Name : Keeps(n)' /\ session[n] = session[q] => n = q
      BY DEF Answering, Over
    <3>1. op[q].kind \notin Outs
      BY DEF CustodyInv, Signed, Storing, SignIns, Outs
    <3>2. pc[q] = "answer"
      BY <1>0, <3>1
    <3>3. q \in rows \/ Over(session[q])
      BY <1>4, <3>2 DEF Custody, Answering
    <3> QED BY <1>0, <1>4, <2>0, <3>2, <3>3 DEF Custody, Answering
  <2>6. \A y \in Req : pc[y] = "lost" => pc'[y] = "lost"
    BY <1>0 DEF Running
  <2>7. JarFresh'
    <3> SUFFICES ASSUME NEW b \in Browser, NEW n \in Name, jar[b] # None, Keeps(n)',
                        session[n] = session[jar[b]], n # jar[b]
                 PROVE  \E y \in Req : session[y] = session[n] /\ pc'[y] \in Running \union {"lost"}
      BY DEF JarFresh
    <3>1. Keeps(n) /\ session[n] \in Name
      BY <1>0 DEF Keeps
    <3>2. PICK y \in Req : session[y] = session[n] /\ pc[y] \in Running \union {"lost"}
      BY <1>4, <3>1 DEF Custody, JarFresh
    <3>3. CASE y # r \/ pc[y] = "lost"
      BY <1>0, <2>6, <3>2, <3>3
    <3>4. CASE y = r /\ pc[r] \in Running
      <4>1. pc[r] \in {"insert", "answer"}
        BY <1>0, <3>1, <3>2, <3>4 DEF Stages
      <4>2. CASE pc[r] = "answer"
        BY <1>0, <3>2, <3>4, <4>2
      <4>3. CASE pc[r] = "insert"
        <5>1. Keeps(r)
          BY <1>0, <3>1, <3>2, <3>4, <4>3 DEF Keeps
        <5>2. n = r
          BY <1>0, <3>1, <3>2, <3>4, <5>1 DEF Shape, OneHolder
        <5>3. r \notin rows
          BY <1>0, <4>3 DEF Stages, Running
        <5> QED BY <1>0, <3>1, <3>2, <3>4, <5>2, <5>3 DEF Keeps, Running
      <4> QED BY <4>1, <4>2, <4>3
    <3> QED BY <3>2, <3>3, <3>4
  <2>8. SignOutFresh'
    <3> SUFFICES ASSUME NEW q \in Req, NEW n \in Name, NEW s \in Name, pc'[q] = "find", op[q].kind = "logout",
                        Keeps(n)', session[n] = s, session[op[q].arg] = s, n # op[q].arg
                 PROVE  OutExcuse(s, q)'
      BY DEF SignOutFresh
    <3>1. pc[q] = "find" /\ Keeps(n)
      BY <1>0 DEF Keeps
    <3>2. OutExcuse(s, q)
      BY <1>4, <3>1 DEF Custody, SignOutFresh
    <3> QED BY <2>6, <3>2, OutExcusesLast
  <2>9. ASSUME NEW b \in Browser, jar[b] # None PROVE Good(jar[b])'
    <3>1. CASE jar[b] \in rows
      BY <1>4, <3>1 DEF Good, Over
    <3>2. CASE Over(session[jar[b]])
      <4>1. session[jar[b]] \in Name
        BY <1>0, <2>9 DEF Shape, JarNamed
      <4> QED BY <2>0, <3>2, <4>1 DEF Good, Over
    <3>3. ASSUME NEW q \in Req, op[q].kind = "refresh", op[q].arg = jar[b], session[q] # None, pc[q] # "done"
          PROVE  Good(jar[b])'
      <4>1. q = r => pc[r] \in {"insert", "answer"}
        BY <1>0, <3>3 DEF Stages
      <4>2. pc'[q] # "done"
        BY <1>0, <3>3, <4>1
      <4> QED BY <3>3, <4>2 DEF Good
    <3> QED BY <1>4, <2>9, <3>1, <3>2, <3>3 DEF Custody, Good
  <2> QED BY <1>4, <2>1, <2>2, <2>4, <2>5, <2>7, <2>8, <2>9 DEF Custody
<1> QED BY <1>1, <1>2, <1>3, <1>4 DEF CustodyInv

\* Sessions that have begun are not reserved for a sign-in to come.
LEMMA BegunIsNotReserved ==
    ASSUME Inv, NEW n \in Name, session[n] \in Name
    PROVE  session[session[n]] # None
BY NoneIsNoName DEF Inv, Shape, Rooted

\* Deleting one row ends its session, and leaves nobody to hold it.
LEMMA RemoveExcuses ==
    ASSUME CustodyInv, Inv', NEW a, NEW r \in Req, Remove(a, r),
           NEW l \in Final, pc' = [pc EXCEPT ![r] = l], pc[r] \in {"find", "purge"},
           op[r].kind # "change", UNCHANGED <<op, met>>
    PROVE  /\ Ending' /\ Reserved'
           /\ \A x \in rows \ rows' : Over(session[x])'
           /\ Custody => EndedExcused'
<1> USE NoneIsNoName
<1>0. /\ rows' = rows \ {a} /\ session' = session /\ slipped' = slipped
      /\ ended' = ended \union {<<session[x], r>> : x \in {a} \intersect rows}
      /\ Inv /\ Shape /\ TypeOK
      /\ \A q \in Req : pc'[q] = IF q = r THEN l ELSE pc[q]
  BY DEF Remove, CustodyInv, Inv, TypeOK
<1>1. \A x \in rows : x \in Name /\ session[x] \in Name
  BY <1>0 DEF TypeOK, Shape, RowsNamed
<1>2. Ending'
  BY <1>0 DEF CustodyInv, Ending, Final
<1>3. Reserved'
  <2> SUFFICES ASSUME NEW y \in Req, NEW e \in Req, <<y, e>> \in ended', session[y] = None
               PROVE  /\ pc'[y] \in {"insert", "failed"}
                      /\ pc'[y] = "insert" => <<y, e>> \in slipped \/ Unfinished(e)'
    BY <1>0 DEF Reserved
  <2>1. <<y, e>> \in ended
    BY <1>0, <1>1, BegunIsNotReserved
  <2>2. pc[y] \in {"insert", "failed"} /\ (pc[y] = "insert" => <<y, e>> \in slipped \/ Unfinished(e))
    BY <2>1 DEF CustodyInv, Reserved
  <2> QED BY <1>0, <2>2 DEF Unfinished
<1>4. ASSUME NEW x \in rows \ rows' PROVE Over(session[x])'
  BY <1>0, <1>4 DEF Over, Unfinished
<1>5. ASSUME Custody, NEW n \in Name, NEW s \in Name, NEW e \in Req,
             Keeps(n)', session[n] = s, <<s, e>> \in ended'
      PROVE  Excuse(s, e)'
  <2>1. Keeps(n) /\ session[n] \in Name
    BY <1>0, <1>5 DEF Keeps, Running, Final
  <2>2. <<s, e>> \in ended
    <3> SUFFICES ASSUME a \in rows, session[n] = session[a] PROVE FALSE
      BY <1>0, <1>5
    <3>1. Keeps(a)
      BY <1>1 DEF Keeps
    <3>2. n = a
      BY <1>0, <1>1, <2>1, <3>1 DEF Shape, OneHolder
    <3>3. a \in Req => pc[a] # "insert"
      BY <1>0 DEF Shape, Stages, Running
    <3> QED BY <1>0, <1>5, <3>2, <3>3 DEF Keeps, Final
  <2>3. Excuse(s, e)
    BY <1>5, <2>1, <2>2 DEF Custody, EndedExcused
  <2>4. \A y \in Req : pc[y] \in {"lost", "wipe", "failed"} => pc'[y] = pc[y]
    BY <1>0
  <2> QED BY <1>0, <2>3, <2>4, ExcusesLast
<1> QED BY <1>0, <1>2, <1>3, <1>4, <1>5 DEF EndedExcused

\* What is to be ended has begun, or is a sign-in past its password.
LEMMA DoomedIs ==
    ASSUME Inv, NEW v, NEW y \in Req, y \in Doomed(v), session[y] = None
    PROVE  pc[y] = "insert"
<1>1. y \in Live => \E n \in Name : session[n] = y
  BY DEF Live, Holders
<1>2. y \in Name
  BY DEF Name
<1>3. y \notin Live
  BY <1>1, <1>2, BegunIsNotReserved
<1> QED BY <1>3 DEF Doomed

LEMMA RowsAreDoomed ==
    ASSUME Inv, NEW v, NEW x \in rows
    PROVE  session[x] \in Doomed(v)
<1>1. x \in Holders(session[x]) /\ session[x] \in Name
  BY DEF Inv, TypeOK, Shape, RowsNamed, Holders
<1> QED BY <1>1 DEF Doomed, Live

\* Deleting every row leaves the calls between their two writes.
LEMMA WipeExcuses ==
    ASSUME CustodyInv, NEW r \in Req, WipeRows(r),
           NEW l \in {"answer", "done"}, pc' = [pc EXCEPT ![r] = l], pc[r] \in {"find", "wipe"},
           op[r].kind = "change" => l = "done",
           met' = met, op' = op
    PROVE  /\ Ending' /\ Reserved'
           /\ \A x \in rows \ rows' : Over(session[x])'
           /\ Custody => EndedExcused'
<1> USE NoneIsNoName
<1>0. /\ rows' = {} /\ session' = session
      /\ ended' = ended \union (Doomed(password) \X {r})
      /\ slipped' = slipped \union ({y \in Req : pc[y] = "insert"} \X {r})
      /\ Inv /\ Shape /\ TypeOK
      /\ \A q \in Req : pc'[q] = IF q = r THEN l ELSE pc[q]
  BY DEF WipeRows, CustodyInv, Inv, TypeOK
<1>1. Ending'
  <2> SUFFICES ASSUME NEW s \in Name, NEW e \in Req, <<s, e>> \in ended'
               PROVE  /\ pc'[e] # "idle"
                      /\ op[e].kind = "change" => pc'[e] \in {"wipe", "failed", "done"}
    BY DEF Ending
  <2>1. CASE e = r
    BY <1>0, <2>1
  <2>2. CASE e # r
    <3>1. <<s, e>> \in ended
      BY <1>0, <2>2
    <3> QED BY <1>0, <2>2, <3>1 DEF CustodyInv, Ending
  <2> QED BY <2>1, <2>2
<1>2. Reserved'
  <2> SUFFICES ASSUME NEW y \in Req, NEW e \in Req, <<y, e>> \in ended', session[y] = None
               PROVE  /\ pc'[y] \in {"insert", "failed"}
                      /\ pc'[y] = "insert" => <<y, e>> \in slipped' \/ Unfinished(e)'
    BY <1>0 DEF Reserved
  <2>1. pc[y] \in {"insert", "failed"} /\ pc'[y] = pc[y]
    <3>1. <<y, e>> \in ended => pc[y] \in {"insert", "failed"}
      BY DEF CustodyInv, Reserved
    <3>2. <<y, e>> \notin ended => y \in Doomed(password)
      BY <1>0
    <3> QED BY <1>0, <3>1, <3>2, DoomedIs
  <2>2. CASE e = r
    BY <1>0, <2>1, <2>2
  <2>3. CASE e # r
    <3>1. <<y, e>> \in ended
      BY <1>0, <2>3
    <3> QED BY <1>0, <2>1, <2>3, <3>1 DEF CustodyInv, Reserved, Unfinished
  <2> QED BY <2>1, <2>2, <2>3
<1>3. ASSUME NEW x \in rows PROVE Over(session[x])'
  <2>1. <<session[x], r>> \in ended'
    BY <1>0, RowsAreDoomed
  <2> QED BY <1>0, <2>1 DEF Over, Unfinished
<1>4. ASSUME Custody, NEW n \in Name, NEW s \in Name, NEW e \in Req,
             Keeps(n)', session[n] = s, <<s, e>> \in ended'
      PROVE  Excuse(s, e)'
  <2>1. n \in Req /\ pc[n] = "insert" /\ Keeps(n)
    BY <1>0, <1>4 DEF Keeps
  <2>2. CASE e = r
    <3>1. <<n, r>> \in slipped' /\ session'[n] = s
      BY <1>0, <1>4, <2>1
    <3> QED BY <2>1, <2>2, <3>1 DEF Excuse
  <2>3. CASE e # r
    <3>1. <<s, e>> \in ended
      BY <1>0, <1>4, <2>3
    <3>2. Excuse(s, e)
      BY <1>4, <2>1, <3>1 DEF Custody, EndedExcused
    <3> QED BY <1>0, <2>3, <3>2, ExcusesLast
  <2> QED BY <2>2, <2>3
<1> QED BY <1>0, <1>1, <1>2, <1>3, <1>4 DEF EndedExcused

\* A change of the password ends sessions, and has not deleted a row yet.
LEMMA ChangingExcuses ==
    ASSUME CustodyInv, NEW r \in Req, ChangePassword(r)
    PROVE  Ending' /\ Reserved' /\ (Custody => EndedExcused')
<1> USE NoneIsNoName DEF Goto
<1>0. /\ pc[r] = "update" /\ op[r].kind = "change" /\ UNCHANGED <<rows, session, slipped, op, met>>
      /\ ended' = ended \union (Doomed(r) \X {r})
      /\ Inv /\ TypeOK
      /\ \A q \in Req : pc'[q] = IF q = r THEN "wipe" ELSE pc[q]
  BY DEF ChangePassword, CustodyInv, Inv, TypeOK
<1>1. Ending'
  <2> SUFFICES ASSUME NEW s \in Name, NEW e \in Req, <<s, e>> \in ended'
               PROVE  /\ pc'[e] # "idle"
                      /\ op[e].kind = "change" => pc'[e] \in {"wipe", "failed", "done"}
    BY <1>0 DEF Ending
  <2>1. e # r => <<s, e>> \in ended
    BY <1>0
  <2> QED BY <1>0, <2>1 DEF CustodyInv, Ending
<1>2. Reserved'
  <2> SUFFICES ASSUME NEW y \in Req, NEW e \in Req, <<y, e>> \in ended', session[y] = None
               PROVE  /\ pc'[y] \in {"insert", "failed"}
                      /\ pc'[y] = "insert" => <<y, e>> \in slipped \/ Unfinished(e)'
    BY <1>0 DEF Reserved
  <2>1. CASE <<y, e>> \in ended
    BY <1>0, <2>1 DEF CustodyInv, Reserved, Unfinished
  <2>2. CASE <<y, e>> \notin ended
    <3>1. e = r /\ y \in Doomed(r)
      BY <1>0, <2>2
    <3>2. pc[y] = "insert"
      BY <1>0, <3>1, DoomedIs
    <3> QED BY <1>0, <3>1, <3>2 DEF Unfinished
  <2> QED BY <2>1, <2>2
<1>3. ASSUME Custody, NEW n \in Name, NEW s \in Name, NEW e \in Req,
             Keeps(n)', session[n] = s, <<s, e>> \in ended'
      PROVE  Excuse(s, e)'
  <2>1. CASE e = r
    BY <1>0, <2>1 DEF Excuse, Unfinished
  <2>2. CASE e # r
    <3>1. <<s, e>> \in ended /\ Keeps(n)
      BY <1>0, <1>3, <2>2 DEF Keeps
    <3>2. Excuse(s, e)
      BY <1>3, <3>1 DEF Custody, EndedExcused
    <3> QED BY <1>0, <2>2, <3>2, ExcusesLast
  <2> QED BY <2>1, <2>2
<1> QED BY <1>0, <1>1, <1>2, <1>3 DEF EndedExcused

\* A sign-out deletes the row of its cookie; if the session has moved on from it,
\* it has an excuse.
LEMMA LogoutReserves ==
    ASSUME CustodyInv, NEW r \in Req, Logout(r)
    PROVE  Ending' /\ Reserved'
<1> USE NoneIsNoName DEF Goto
<1> DEFINE c == op[r].arg
<1>0. /\ pc[r] = "find" /\ op[r].kind = "logout" /\ UNCHANGED <<session, op, met, slipped>>
      /\ ended' = ended \union ({session[x] : x \in {c} \union (rows \ rows')} \X {r})
      /\ Inv /\ Shape /\ TypeOK /\ Stages(r)
      /\ \A q \in Req : pc'[q] = IF q = r THEN "answer" ELSE pc[q]
  BY DEF Logout, CustodyInv, Inv, Shape, TypeOK
<1>1. \A x \in {c} \union rows : x \in Name /\ session[x] \in Name
  BY <1>0 DEF Stages, TypeOK, Shape, RowsNamed
<1>2. Ending'
  BY <1>0 DEF CustodyInv, Ending
<1>3. Reserved'
  <2> SUFFICES ASSUME NEW y \in Req, NEW e \in Req, <<y, e>> \in ended', session[y] = None
               PROVE  /\ pc'[y] \in {"insert", "failed"}
                      /\ pc'[y] = "insert" => <<y, e>> \in slipped \/ Unfinished(e)'
    BY <1>0 DEF Reserved
  <2>1. <<y, e>> \in ended
    BY <1>0, <1>1, BegunIsNotReserved
  <2>2. pc[y] \in {"insert", "failed"} /\ (pc[y] = "insert" => <<y, e>> \in slipped \/ Unfinished(e))
    BY <2>1 DEF CustodyInv, Reserved
  <2> QED BY <1>0, <2>2 DEF Unfinished
<1> QED BY <1>2, <1>3

LEMMA LogoutExcuses ==
    ASSUME CustodyInv, Distinct, Custody, NEW r \in Req, Logout(r)
    PROVE  /\ \A x \in rows \ rows' : Over(session[x])'
           /\ EndedExcused'
<1> USE NoneIsNoName DEF Goto
<1> DEFINE c == op[r].arg
<1>0. /\ pc[r] = "find" /\ op[r].kind = "logout"
      /\ rows' = {x \in rows : token[x] # token[c]}
      /\ ended' = ended \union ({session[x] : x \in {c} \union (rows \ rows')} \X {r})
      /\ UNCHANGED <<session, op, met, slipped>>
      /\ Inv /\ Shape /\ TypeOK /\ Stages(r)
      /\ \A q \in Req : pc'[q] = IF q = r THEN "answer" ELSE pc[q]
  BY DEF Logout, CustodyInv, Inv, Shape, TypeOK
<1>1. c \in Name /\ session[c] \in Name /\ rows \subseteq Name
  BY <1>0 DEF Stages, TypeOK
<1>2. \A x \in rows : x \notin rows' <=> x = c
  BY <1>0, <1>1 DEF Distinct, CustodyInv, Signed
<1>3. c \in Req => pc[c] = "done"
  BY <1>0 DEF Custody, Cookies, Brought
<1>4. ASSUME NEW n \in Name, NEW s \in Name, NEW e \in Req,
             Keeps(n)', session[n] = s, <<s, e>> \in ended'
      PROVE  Excuse(s, e)'
  <2>1. Keeps(n) /\ session[n] \in Name
    BY <1>0, <1>4 DEF Keeps
  <2>2. n # c
    BY <1>0, <1>2, <1>3, <1>4 DEF Keeps
  <2>3. <<s, e>> \in ended => Excuse(s, e)
    BY <1>4, <2>1 DEF Custody, EndedExcused
  <2>4. session[n] = session[c] => OutExcuse(s, r)
    BY <1>0, <1>1, <1>4, <2>1, <2>2 DEF Custody, SignOutFresh
  <2>5. <<s, e>> \in ended \/ (session[n] = session[c] /\ e = r)
    BY <1>0, <1>2, <1>4
  <2>6. Excuse(s, e)
    BY <1>0, <2>3, <2>4, <2>5 DEF Excuse
  <2>7. \A y \in Req : pc[y] \in {"lost", "wipe", "failed"} => pc'[y] = pc[y]
    BY <1>0
  <2> QED BY <1>0, <2>6, <2>7, ExcusesLast
<1>5. ASSUME NEW x \in rows \ rows' PROVE Over(session[x])'
  BY <1>0, <1>5 DEF Over, Unfinished
<1> QED BY <1>0, <1>4, <1>5 DEF EndedExcused

-----------------------------------------------------------------------------
(***************************************************************************)
(* The steps, one by one.                                                   *)
(***************************************************************************)

\* A step that ends nothing.
LEMMA EndlessExcuses ==
    ASSUME CustodyInv, NEW r \in Req, NEW l \in Running \union Final, pc' = [pc EXCEPT ![r] = l],
           pc[r] \in Running, UNCHANGED <<ended, slipped, session, met>>, Quiet,
           \A q \in Req : op'[q].kind = op[q].kind,
           pc[r] \in {"insert", "wipe"} => l = "failed"
    PROVE  Ending' /\ Reserved' /\ (Custody => EndedExcused')
<1>0. /\ \A q \in Req : pc'[q] = IF q = r THEN l ELSE pc[q]
      /\ pc[r] \notin {"failed", "done", "idle", "lost"} /\ l # "idle"
  BY DEF CustodyInv, Inv, TypeOK, Running, Final
<1>1. Ending'
  BY <1>0 DEF CustodyInv, Ending
<1>2. Reserved'
  <2> SUFFICES ASSUME NEW y \in Req, NEW e \in Req, <<y, e>> \in ended, session[y] = None
               PROVE  /\ pc'[y] \in {"insert", "failed"}
                      /\ pc'[y] = "insert" => <<y, e>> \in slipped \/ Unfinished(e)'
    BY DEF Reserved
  <2> QED BY <1>0 DEF CustodyInv, Reserved, Unfinished
<1>3. ASSUME Custody, NEW n \in Name, NEW s \in Name, NEW e \in Req,
             Keeps(n)', session[n] = s, <<s, e>> \in ended
      PROVE  Excuse(s, e)'
  <2>1. Excuse(s, e)
    BY <1>3 DEF Custody, EndedExcused, Quiet
  <2>2. /\ \A y \in Req : pc[y] = "lost" => pc'[y] = "lost"
        /\ pc[e] \in {"wipe", "failed"} => pc'[e] \in {"wipe", "failed"}
    BY <1>0
  <2> QED BY <2>1, <2>2, ExcusesLast
<1> QED BY <1>1, <1>2, <1>3 DEF EndedExcused

LEMMA PlainMoveKeepsCustody ==
    ASSUME CustodyInv, Inv', Quiet, NEW r \in Req, NEW l \in Running \union Final,
           pc' = [pc EXCEPT ![r] = l], pc[r] \in Running,
           UNCHANGED <<rows, ended, slipped, session, op, jar, token, met>>,
           l \notin {"find", "answer"},
           l = "insert" => op[r].kind \in SignIns,
           l \in Running => pc[r] \notin {"insert", "answer"},
           pc[r] = "answer" => l = "lost",
           pc[r] \in {"insert", "wipe"} => l = "failed"
    PROVE  CustodyInv'
BY EndlessExcuses, MovingKeepsCustody

LEMMA LooksKeepCustody ==
    ASSUME CustodyInv, Inv', Quiet, NEW r \in Req,
           \/ FindToRegister(r) \/ FindToLogin(r) \/ FindGoogle(r) \/ FindToChange(r)
           \/ FindToForget(r) \/ FindToReset(r)
    PROVE  CustodyInv'
<1>1. PICK k \in Kinds, l \in {"create", "insert", "enqueue", "update", "done", "rejected"} :
        Look(r, k, l) /\ (l = "insert" => k \in SignIns)
  <2>1. CASE FindToRegister(r)
    BY <2>1 DEF FindToRegister, Kinds, SignIns
  <2>2. CASE FindToLogin(r)
    BY <2>2 DEF FindToLogin, Kinds, SignIns
  <2>3. CASE FindGoogle(r)
    <3>1. account \in {"none", "password", "google"}
      BY DEF CustodyInv, Inv, TypeOK
    <3> QED BY <2>3, <3>1 DEF FindGoogle, Kinds, SignIns
  <2>4. CASE FindToChange(r)
    BY <2>4 DEF FindToChange, Kinds, SignIns
  <2>5. CASE FindToForget(r)
    BY <2>5 DEF FindToForget, Kinds, SignIns
  <2>6. CASE FindToReset(r)
    BY <2>6 DEF FindToReset, Kinds, SignIns
  <2> QED BY <2>1, <2>2, <2>3, <2>4, <2>5, <2>6
<1>2. /\ pc[r] = "find" /\ op[r].kind = k /\ pc' = [pc EXCEPT ![r] = l]
      /\ UNCHANGED <<rows, ended, slipped, session, op, jar, token, met>>
  BY <1>1 DEF Look, Goto, ledger
<1>3. l \in Running \union Final /\ pc[r] \in Running
  BY <1>2 DEF Running, Final
<1> QED BY <1>1, <1>2, <1>3, PlainMoveKeepsCustody

LEMMA MovesKeepCustody ==
    ASSUME CustodyInv, Inv', Quiet, NEW r \in Req,
           \/ CreateAccount(r) \/ PurgeAged(r) \/ Logout(r) \/ LogoutAll(r) \/ RevokeSession(r)
           \/ ChangePassword(r) \/ RevokeAll(r) \/ CreateReset(r) \/ Enqueue(r)
           \/ ResetPassword(r) \/ Lose(r) \/ Crash(r)
    PROVE  CustodyInv'
<1> USE DEF Goto, calls, ledger
<1>0. Stages(r)
  BY DEF CustodyInv, Inv, Shape
<1>1. CASE CreateAccount(r)
  <2>1. PICK l \in {"insert", "failed"} : pc' = [pc EXCEPT ![r] = l]
    BY <1>1 DEF CreateAccount
  <2>2. /\ pc[r] = "create" /\ op[r].kind \in SignIns
        /\ UNCHANGED <<rows, ended, slipped, session, op, jar, token, met>>
    BY <1>1 DEF CreateAccount, SignIns
  <2>3. l \in Running \union Final /\ l \notin {"find", "answer"} /\ pc[r] \in Running
    BY <2>2 DEF Running, Final
  <2> QED BY <2>1, <2>2, <2>3, PlainMoveKeepsCustody
<1>2. CASE PurgeAged(r)
  <2>1. PICK l \in {"rejected", "failed"} : pc' = [pc EXCEPT ![r] = l]
    BY <1>2 DEF PurgeAged
  <2>2. /\ pc[r] = "purge" /\ Remove(op[r].arg, r) /\ rows' \subseteq rows /\ ended \subseteq ended'
        /\ UNCHANGED <<slipped, session, op, jar, token, met>> /\ op[r].kind # "change"
    BY <1>0, <1>2 DEF PurgeAged, Remove, Stages
  <2>3. l \in Final /\ pc[r] \in Running /\ l \notin Running
    BY <2>2 DEF Final, Running
  <2> QED BY <2>1, <2>2, <2>3, RemoveExcuses, MovingKeepsCustody
<1>3. CASE RevokeSession(r)
  <2>1. /\ pc[r] = "find" /\ Remove(op[r].arg, r) /\ rows' \subseteq rows /\ ended \subseteq ended'
        /\ UNCHANGED <<slipped, session, op, jar, token, met>> /\ op[r].kind # "change"
        /\ pc' = [pc EXCEPT ![r] = "done"]
    BY <1>3 DEF RevokeSession, Remove
  <2>2. "done" \in Final /\ pc[r] \in Running /\ "done" \notin Running
    BY <2>1 DEF Final, Running
  <2> QED BY <2>1, <2>2, RemoveExcuses, MovingKeepsCustody
<1>4. CASE LogoutAll(r) \/ RevokeAll(r)
  <2>1. PICK l \in {"answer", "done"} :
          /\ pc' = [pc EXCEPT ![r] = l] /\ pc[r] \in {"find", "wipe"}
          /\ l = "answer" => op[r].kind = "logoutAll"
          /\ op[r].kind = "change" => l = "done"
          /\ WipeRows(r)
          /\ UNCHANGED <<session, op, jar, token, met>>
    BY <1>4 DEF LogoutAll, RevokeAll, WipeRows
  <2>2. rows' \subseteq rows /\ ended \subseteq ended' /\ slipped \subseteq slipped'
    BY <2>1 DEF WipeRows
  <2>3. l \in Running \union Final /\ pc[r] \in Running
    BY <2>1 DEF Running, Final
  <2> QED BY <2>1, <2>2, <2>3, WipeExcuses, MovingKeepsCustody DEF Outs
<1>5. CASE Logout(r)
  <2>1. /\ pc[r] = "find" /\ op[r].kind = "logout" /\ pc' = [pc EXCEPT ![r] = "answer"]
        /\ rows' \subseteq rows /\ ended \subseteq ended'
        /\ UNCHANGED <<slipped, session, op, jar, token, met>>
    BY <1>5 DEF Logout
  <2>2. Ending' /\ Reserved'
    BY <1>5, LogoutReserves
  <2>3. CASE Distinct
    <3>1. Custody
      BY <2>3 DEF CustodyInv
    <3> QED BY <1>5, <2>1, <2>2, <2>3, <3>1, LogoutExcuses, MovingKeepsCustody DEF Running, Outs
  <2>4. CASE ~Distinct
    <3>1. ~Distinct'
      BY <2>1, <2>4 DEF Distinct
    <3>2. \A q \in Req : pc'[q] = IF q = r THEN "answer" ELSE pc[q]
      BY <2>1 DEF CustodyInv, Inv, TypeOK
    <3>3. MetWhenTwo'
      BY <2>1, <3>2 DEF CustodyInv, MetWhenTwo, Running
    <3>4. Signed'
      BY <2>1, <3>2 DEF CustodyInv, Signed, Running
    <3> QED BY <2>2, <3>1, <3>3, <3>4 DEF CustodyInv
  <2> QED BY <2>3, <2>4
<1>6. CASE ChangePassword(r)
  <2>1. /\ pc[r] = "update" /\ pc' = [pc EXCEPT ![r] = "wipe"] /\ ended \subseteq ended'
        /\ UNCHANGED <<rows, slipped, session, op, jar, token, met>>
    BY <1>6 DEF ChangePassword
  <2> QED BY <1>6, <2>1, ChangingExcuses, MovingKeepsCustody DEF Running
<1>7. CASE CreateReset(r)
  BY <1>7, PlainMoveKeepsCustody DEF CreateReset, Running
<1>8. CASE Enqueue(r)
  <2>1. PICK l \in {"rejected", "done"} : pc' = [pc EXCEPT ![r] = l]
    BY <1>8 DEF Enqueue
  <2> QED BY <1>8, <2>1, PlainMoveKeepsCustody DEF Enqueue, Running, Final
<1>9. CASE ResetPassword(r)
  BY <1>9, PlainMoveKeepsCustody DEF ResetPassword, Running, Final
<1>10. CASE Lose(r)
  <2>1. /\ pc[r] = "answer" /\ pc' = [pc EXCEPT ![r] = "lost"]
        /\ UNCHANGED <<rows, ended, slipped, session, op, jar, token, met>>
    BY <1>10 DEF Lose
  <2>2. "lost" \in Running \union Final /\ "lost" \notin Running /\ pc[r] \in Running
    BY <2>1 DEF Running, Final
  <2> QED BY <2>1, <2>2, PlainMoveKeepsCustody
<1>11. CASE Crash(r)
  <2>1. /\ pc[r] \in Running \ {"find", "answer"} /\ pc' = [pc EXCEPT ![r] = "failed"]
        /\ UNCHANGED <<rows, ended, slipped, session, op, jar, token, met>>
    BY <1>11 DEF Crash
  <2>2. "failed" \in Running \union Final /\ "failed" \notin Running
    BY DEF Running, Final
  <2> QED BY <2>1, <2>2, PlainMoveKeepsCustody
<1> QED BY <1>1, <1>2, <1>3, <1>4, <1>5, <1>6, <1>7, <1>8, <1>9, <1>10, <1>11

\* An answer brings its cookie to the browser its session lives in.
LEMMA DeliverKeepsCustody ==
    ASSUME CustodyInv, Inv', Quiet, NEW r \in Req, Deliver(r)
    PROVE  CustodyInv'
<1> USE NoneIsNoName DEF Goto
<1> DEFINE out == op[r].kind \in Outs
<1>0. /\ pc[r] = "answer" /\ UNCHANGED <<rows, ended, slipped, session, op, token, met>>
      /\ \A q \in Req : pc'[q] = IF q = r THEN "done" ELSE pc[q]
      /\ \A b \in Browser : jar'[b] = IF b = op[r].at THEN (IF out THEN None ELSE r) ELSE jar[b]
      /\ Inv /\ Shape /\ TypeOK /\ Stages(r) /\ r \in Name
      /\ ~out => session[r] \in Name
  BY DEF Deliver, CustodyInv, Inv, Shape, Stages, TypeOK, Outs, ledger, Name
<1>1. out => session[r] \notin Name
  BY DEF CustodyInv, Signed, Storing, SignIns, Outs
<1>2. Signed' /\ MetWhenTwo' /\ Ending' /\ Reserved'
  <2>1. Signed' /\ MetWhenTwo'
    BY <1>0 DEF CustodyInv, Signed, MetWhenTwo, Running
  <2>2. Ending' /\ Reserved'
    BY <1>0 DEF CustodyInv, Ending, Reserved, Unfinished
  <2> QED BY <2>1, <2>2
<1>3. Distinct' => Distinct
  BY <1>0 DEF Distinct
<1>4. \A n \in Name : Keeps(n)' <=> Keeps(n)
  BY <1>0 DEF Keeps
<1>5. /\ \A s, e : OutExcuse(s, e) => OutExcuse(s, e)'
      /\ \A s : \A e \in Req : Excuse(s, e) => Excuse(s, e)'
      /\ \A s : Over(s) => Over(s)'
  <2>1. \A s, e : OutExcuse(s, e) => OutExcuse(s, e)'
    BY <1>0 DEF OutExcuse
  <2>2. \A s : \A e \in Req : Excuse(s, e) => Excuse(s, e)'
    BY <1>0, <2>1 DEF Excuse, Unfinished
  <2>3. \A s : Over(s) => Over(s)'
    BY <1>0 DEF Over, Unfinished
  <2> QED BY <2>1, <2>2, <2>3
<1>6. ASSUME Custody PROVE Custody'
  <2>1. PICK h \in Browser \union {None} : AtHome(h)
    BY <1>6 DEF Custody
  <2>2. AtHome(h)'
    <3>1. \A b \in Browser : jar'[b] # None => Home(session[jar'[b]], h) = b
      BY <1>0, <2>1 DEF AtHome
    <3> QED BY <1>0, <2>1, <3>1 DEF AtHome, Home
  <2>3. Cookies'
    BY <1>0, <1>6, NamesAssumption DEF Custody, Cookies, Brought
  <2>4. Answering'
    BY <1>0, <1>4, <1>5, <1>6 DEF Custody, Answering
  <2>5. SignOutFresh'
    <3> SUFFICES ASSUME NEW q \in Req, NEW n \in Name, NEW s \in Name, pc'[q] = "find", op[q].kind = "logout",
                        Keeps(n)', session[n] = s, session[op[q].arg] = s, n # op[q].arg
                 PROVE  OutExcuse(s, q)'
      BY <1>0 DEF SignOutFresh
    <3>1. pc[q] = "find" /\ Keeps(n)
      BY <1>0, <1>4
    <3> QED BY <1>0, <1>5, <1>6, <3>1 DEF Custody, SignOutFresh
  <2>6. EndedExcused'
    BY <1>0, <1>4, <1>5, <1>6 DEF Custody, EndedExcused
  <2>7. JarFresh'
    <3> SUFFICES ASSUME NEW b \in Browser, NEW n \in Name, jar'[b] # None, Keeps(n),
                        session[n] = session[jar'[b]], n # jar'[b]
                 PROVE  \E y \in Req : session[y] = session[n] /\ pc'[y] \in Running \union {"lost"}
      BY <1>0, <1>4 DEF JarFresh
    <3>1. jar'[b] = jar[b] /\ b # op[r].at
      BY <1>0, <1>6 DEF Custody, Answering
    <3>2. session[r] # session[n] \/ out
      BY <1>0, <2>1, <3>1 DEF AtHome
    <3>3. session[n] \in Name
      BY DEF Keeps
    <3>4. \A y \in Req : session[y] = session[n] => pc'[y] = pc[y]
      BY <1>0, <1>1, <3>2, <3>3
    <3> QED BY <1>0, <1>6, <3>1, <3>4 DEF Custody, JarFresh
  <2>8. ASSUME NEW b \in Browser, NEW c, c = jar'[b], c # None PROVE Good(c)'
    <3>1. CASE b = op[r].at
      <4>1. c = r /\ (r \in rows \/ Over(session[r]))
        BY <1>0, <1>6, <2>8, <3>1 DEF Custody, Answering
      <4> QED BY <1>0, <1>5, <4>1 DEF Good, Over
    <3>2. CASE b # op[r].at
      <4>1. c = jar[b] /\ Good(c)
        BY <1>0, <1>6, <2>8, <3>2 DEF Custody
      <4>2. ASSUME NEW q \in Req, op[q].kind = "refresh", op[q].arg = c, session[q] # None, pc[q] # "done"
            PROVE  pc'[q] # "done"
        <5>1. q # r
          BY <2>1, <2>8, <3>2, <4>1, <4>2 DEF AtHome
        <5> QED BY <1>0, <4>2, <5>1
      <4> QED BY <1>0, <1>5, <4>1, <4>2 DEF Good, Over
    <3> QED BY <3>1, <3>2
  <2>9. (\A b \in Browser : jar[b] # None => Good(jar[b]))'
    BY <2>8 DEF Good
  <2> QED BY <2>2, <2>3, <2>4, <2>5, <2>6, <2>7, <2>9 DEF Custody
<1> QED BY <1>2, <1>3, <1>6 DEF CustodyInv

\* The old row is gone: the call that deleted it keeps the session, and is why the
\* cookie is no longer good.
LEMMA TakingKeepsCustody ==
    ASSUME CustodyInv, Inv', NEW r \in Req, DeleteOld(r), op[r].arg \in rows
    PROVE  CustodyInv'
<1> USE NoneIsNoName DEF Goto
<1> DEFINE x == op[r].arg
<1>0. /\ pc[r] = "delete" /\ op[r].kind = "refresh" /\ session[r] = None /\ r \in Name
      /\ x \in Name /\ session[x] \in Name /\ x # r
      /\ Inv /\ Shape /\ TypeOK
  BY DEF DeleteOld, CustodyInv, Inv, Shape, TypeOK, Stages, Running, Name
<1>1. /\ rows' = rows \ {x}
      /\ \A n \in Name : session'[n] = IF n = r THEN session[x] ELSE session[n]
      /\ \A q \in Req : pc'[q] = IF q = r THEN "insert" ELSE pc[q]
      /\ \A q \in Req : q \in Name
      /\ UNCHANGED <<ended, slipped, op, jar, token, met>>
  BY <1>0 DEF DeleteOld, TypeOK, Name
<1>2. Signed'
  BY <1>0, <1>1 DEF CustodyInv, Signed, Running, Storing
<1>3. MetWhenTwo' /\ Ending' /\ Reserved'
  <2>1. MetWhenTwo'
    BY <1>0, <1>1 DEF CustodyInv, MetWhenTwo, Running
  <2>2. Ending'
    BY <1>0, <1>1 DEF CustodyInv, Ending
  <2>3. Reserved'
    BY <1>0, <1>1 DEF CustodyInv, Reserved, Unfinished
  <2> QED BY <2>1, <2>2, <2>3
<1>4. Distinct' => Distinct
  BY <1>1 DEF Distinct
<1>5. ASSUME NEW n \in Name, n # r, Keeps(n)' PROVE Keeps(n) /\ session'[n] = session[n] /\ session[n] \in Name
  BY <1>1, <1>5 DEF Keeps
<1>6. Keeps(x)
  BY <1>0 DEF Keeps
<1>7. ASSUME NEW s \in Name
      PROVE  /\ \A e : OutExcuse(s, e) => OutExcuse(s, e)'
             /\ \A e \in Req : Excuse(s, e) => Excuse(s, e)'
             /\ Over(s) => Over(s)'
  <2>1. \A e : OutExcuse(s, e) => OutExcuse(s, e)'
    BY <1>0, <1>1 DEF OutExcuse
  <2>2. \A e \in Req : Excuse(s, e) => Excuse(s, e)'
    BY <1>0, <1>1, <2>1 DEF Excuse, Unfinished
  <2>3. Over(s) => Over(s)'
    BY <1>0, <1>1 DEF Over, Unfinished
  <2> QED BY <2>1, <2>2, <2>3
<1>8. ASSUME Custody PROVE Custody'
  <2>1. PICK h \in Browser \union {None} : AtHome(h)
    BY <1>8 DEF Custody
  <2>2. \A b \in Browser : jar[b] # None => jar[b] # r /\ jar[b] \in Name /\ session[jar[b]] \in Name
    BY <1>0 DEF Shape, JarNamed
  <2>3. \A q \in Req : op[q].kind \in {"refresh", "logout"}
                         => op[q].arg # r /\ (op[q].arg \in Req => pc[op[q].arg] = "done")
    BY <1>0, <1>8 DEF Custody, Cookies, Brought
  <2>4. \A q \in Req : op[q].kind \in {"refresh", "logout"} => op[q].arg \in Name
    BY <1>0 DEF CustodyInv, Signed, Shape, Stages, NoOp
  <2>5. AtHome(h)'
    <3>1. \A b \in Browser : jar[b] # None => Home(session'[jar[b]], h) = b
      BY <1>1, <2>1, <2>2 DEF AtHome
    <3>2. \A q \in Req : session'[q] \in Name => Home(session'[q], h) = op[q].at
      BY <1>0, <1>1, <2>1 DEF AtHome
    <3>3. \A q \in Req : op[q].kind \in {"refresh", "logout"} => Home(session'[op[q].arg], h) = op[q].at
      BY <1>1, <2>1, <2>3, <2>4 DEF AtHome
    <3> QED BY <1>1, <3>1, <3>2, <3>3 DEF AtHome, Home
  <2>6. Cookies'
    BY <1>0, <1>1, <1>8 DEF Custody, Cookies, Brought
  <2>7. Answering'
    <3> SUFFICES ASSUME NEW q \in Req, pc'[q] = "answer", session'[q] \in Name
                 PROVE  /\ q \in rows' \/ \E s \in Name : s = session'[q] /\ Over(s)'
                        /\ \A n \in Name : Keeps(n)' /\ session'[n] = session'[q] => n = q
      BY DEF Answering, Over
    <3>1. q # r /\ pc[q] = "answer" /\ session'[q] = session[q] /\ session[q] \in Name
      BY <1>1
    <3>2. q # x
      BY <1>0, <2>3, <3>1
    <3>3. q \in rows' \/ \E s \in Name : s = session'[q] /\ Over(s)'
      BY <1>1, <1>7, <1>8, <3>1, <3>2 DEF Custody, Answering
    <3>4. session[x] # session[q]
      BY <1>0, <1>6, <1>8, <3>1, <3>2 DEF Custody, Answering
    <3>5. ASSUME NEW n \in Name, Keeps(n)', session'[n] = session'[q] PROVE n = q
      <4>1. n # r
        BY <1>1, <3>1, <3>4, <3>5
      <4> QED BY <1>5, <1>8, <3>1, <3>5, <4>1 DEF Custody, Answering
    <3> QED BY <3>3, <3>5
  <2>8. JarFresh'
    <3> SUFFICES ASSUME NEW b \in Browser, NEW n \in Name, jar[b] # None, Keeps(n)',
                        session'[n] = session'[jar[b]], n # jar[b]
                 PROVE  \E y \in Req : session'[y] = session'[n] /\ pc'[y] \in Running \union {"lost"}
      BY <1>1 DEF JarFresh
    <3>1. CASE n = r
      BY <1>1, <3>1 DEF Running
    <3>2. CASE n # r
      <4>1. Keeps(n) /\ session'[n] = session[n] /\ session[n] \in Name
        BY <1>5, <3>2
      <4>2. session[n] = session[jar[b]]
        BY <1>1, <2>2, <4>1
      <4>3. \E y \in Req : session[y] = session[n] /\ pc[y] \in Running \union {"lost"}
        BY <1>8, <4>1, <4>2 DEF Custody, JarFresh
      <4>4. \A y \in Req : session[y] = session[n] => session'[y] = session[n] /\ pc'[y] = pc[y]
        BY <1>0, <1>1, <4>1
      <4> QED BY <4>1, <4>3, <4>4
    <3> QED BY <3>1, <3>2
  <2>9. SignOutFresh'
    <3> SUFFICES ASSUME NEW q \in Req, NEW n \in Name, NEW s \in Name, pc'[q] = "find", op[q].kind = "logout",
                        Keeps(n)', session'[n] = s, session'[op[q].arg] = s, n # op[q].arg
                 PROVE  OutExcuse(s, q)'
      BY <1>1 DEF SignOutFresh
    <3>1. q # r /\ pc[q] = "find"
      BY <1>1
    <3>2. CASE n = r
      <4>1. {r, q} \in met
        BY <1>0, <3>1 DEF CustodyInv, MetWhenTwo, Running
      <4> QED BY <1>0, <1>1, <3>2, <4>1 DEF OutExcuse
    <3>3. CASE n # r
      <4>1. Keeps(n) /\ session'[n] = session[n] /\ session[n] \in Name
        BY <1>5, <3>3
      <4>2. session[n] = session[op[q].arg]
        BY <1>1, <2>3, <2>4, <4>1
      <4> QED BY <1>7, <1>8, <3>1, <4>1, <4>2 DEF Custody, SignOutFresh
    <3> QED BY <3>2, <3>3
  <2>10. EndedExcused'
    <3> SUFFICES ASSUME NEW n \in Name, NEW s \in Name, NEW e \in Req, Keeps(n)', session'[n] = s, <<s, e>> \in ended
                 PROVE  Excuse(s, e)'
      BY <1>1 DEF EndedExcused
    <3>1. PICK m \in Name : Keeps(m) /\ session[m] = session'[n] /\ session[m] \in Name
      BY <1>0, <1>1, <1>5, <1>6 DEF Keeps
    <3> QED BY <1>7, <1>8, <3>1 DEF Custody, EndedExcused
  <2>11. ASSUME NEW b \in Browser, NEW c, c = jar[b], c # None PROVE Good(c)'
    <3>0. Good(c) /\ session'[c] = session[c] /\ c \in Name /\ session[c] \in Name
      BY <1>1, <1>8, <2>2, <2>11 DEF Custody
    <3>1. CASE c = x
      BY <1>0, <1>1, <3>1 DEF Good
    <3>2. CASE c # x
      <4>1. CASE Over(session[c])
        <5>1. Over(session[c])'
          BY <1>7, <3>0, <4>1
        <5> QED BY <1>1, <3>0, <5>1 DEF Good, Over
      <4>2. CASE ~Over(session[c])
        BY <1>0, <1>1, <3>0, <3>2, <4>2 DEF Good
      <4> QED BY <4>1, <4>2
    <3> QED BY <3>1, <3>2
  <2>12. (\A b \in Browser : jar[b] # None => Good(jar[b]))'
    BY <1>1, <2>11 DEF Good
  <2> QED BY <2>5, <2>6, <2>7, <2>8, <2>9, <2>10, <2>12 DEF Custody
<1> QED BY <1>2, <1>3, <1>4, <1>8 DEF CustodyInv

LEMMA DeletingKeepsCustody ==
    ASSUME CustodyInv, Inv', NEW r \in Req, DeleteOld(r)
    PROVE  CustodyInv'
<1>1. CASE op[r].arg \notin rows
  <2>1. /\ pc[r] = "delete" /\ pc' = [pc EXCEPT ![r] = "failed"]
        /\ UNCHANGED <<rows, ended, slipped, session, op, jar, token, met>>
    BY <1>1 DEF DeleteOld, Goto
  <2>2. "failed" \in Running \union Final /\ "failed" \notin Running /\ pc[r] \in Running
    BY <2>1 DEF Running, Final
  <2>3. Quiet
    BY <2>1, <2>2 DEF Quiet, Keeps, CustodyInv, Inv, TypeOK
  <2> QED BY <2>1, <2>2, <2>3, PlainMoveKeepsCustody
<1> QED BY <1>1, TakingKeepsCustody

\* Where no two tokens are equal, a refresh finds the row of its own cookie.
LEMMA FindingKeepsCustody ==
    ASSUME CustodyInv, Inv', Quiet, NEW r \in Req, FindRow(r)
    PROVE  CustodyInv'
<1> USE NoneIsNoName DEF Goto
<1> DEFINE c == op[r].arg
<1>0. /\ pc[r] = "find" /\ op[r].kind = "refresh" /\ op[r] \in Op /\ c \in Name
      /\ Inv /\ Shape /\ TypeOK
  BY DEF FindRow, CustodyInv, Inv, Shape, Stages
<1>1. PICK l \in {"rejected", "purge", "delete"} :
        /\ pc' = [pc EXCEPT ![r] = l]
        /\ \/ op' = op
           \/ \E x \in rows : token[x] = token[c] /\ op' = [op EXCEPT ![r].arg = x]
  BY DEF FindRow
<1>2. UNCHANGED <<rows, ended, slipped, session, jar, token, met>>
  BY DEF FindRow
<1>3. \A q \in Req : pc'[q] = IF q = r THEN l ELSE pc[q]
  BY <1>0, <1>1 DEF TypeOK
<1>4. l \in Running \union Final /\ l \notin {"find", "answer", "insert"} /\ pc[r] \in Running
  BY <1>0 DEF Running, Final
<1>5. Ending' /\ Reserved' /\ (Custody => EndedExcused')
  <2>1. \A q \in Req : op'[q].kind = op[q].kind
    BY <1>0, <1>1 DEF Shape, Op, NoOp
  <2> QED BY <1>0, <1>1, <1>2, <1>4, <2>1, EndlessExcuses
<1>6. CASE Distinct
  <2>1. \A x \in rows : x \in Name /\ token[x] # 0
    BY <1>0 DEF TypeOK, CustodyInv, Signed
  <2>2. \A x \in rows : token[x] = token[c] => x = c
    BY <1>0, <1>6, <2>1 DEF Distinct
  <2>3. op \in [Req -> Op \union {NoOp}]
    BY <1>0 DEF Shape
  <2>4. [op EXCEPT ![r].arg = c] = op
    BY <1>0, <2>3 DEF Op
  <2>5. op' = op
    BY <1>1, <2>2, <2>4
  <2> QED BY <1>0, <1>1, <1>2, <1>4, <1>5, <2>5, MovingKeepsCustody
<1>7. CASE ~Distinct
  <2>1. ~Distinct'
    BY <1>2, <1>7 DEF Distinct
  <2>2. MetWhenTwo'
    BY <1>2, <1>3, <1>4 DEF CustodyInv, MetWhenTwo
  <2>3. \A q \in Req : (q # r => op'[q] = op[q]) /\ op'[q].kind = op[q].kind
    BY <1>0, <1>1 DEF Shape, Op, NoOp
  <2>4. Signed'
    BY <1>0, <1>2, <1>3, <2>3 DEF CustodyInv, Signed, Running
  <2> QED BY <1>5, <2>1, <2>2, <2>4 DEF CustodyInv
<1> QED BY <1>6, <1>7

\* A row is stored: the session begins, or goes on with the call that kept it.
LEMMA StoringKeepsCustody ==
    ASSUME CustodyInv, Inv', NEW r \in Req, NEW l \in {"done", "answer"}, pc[r] = "insert",
           op[r].kind = "refresh" => l = "answer",
           NEW t \in Nat \ {0}, rows' = rows \union {r},
           token' = [token EXCEPT ![r] = t],
           session' = [session EXCEPT ![r] = IF op[r].kind = "refresh" THEN @ ELSE r],
           pc' = [pc EXCEPT ![r] = l],
           UNCHANGED <<ended, slipped, op, jar, met>>
    PROVE  CustodyInv'
<1> USE NoneIsNoName
<1> DEFINE again == op[r].kind = "refresh"
<1>0. /\ Inv /\ Shape /\ TypeOK /\ Stages(r) /\ r \in Name /\ r # Earlier /\ r \notin rows
      /\ token[r] = 0 /\ op[r].kind \in Storing
      /\ again => session[r] \in Name /\ Keeps(r)
      /\ ~again => session[r] = None /\ \A n \in Name : session[n] # r
      /\ \A q \in Req : q \in Name
  <2>1. Inv /\ Shape /\ TypeOK /\ Stages(r) /\ r \in Name /\ r # Earlier /\ \A q \in Req : q \in Name
    BY NamesAssumption DEF CustodyInv, Inv, Shape, Name
  <2>2. r \notin rows /\ token[r] = 0 /\ op[r].kind \in Storing
    BY <2>1 DEF CustodyInv, Signed, Stages, Running
  <2>3. again => session[r] \in Name /\ Keeps(r)
    BY <2>1 DEF Stages, Keeps
  <2>4. ~again => session[r] = None /\ \A n \in Name : session[n] # r
    BY <2>1 DEF Stages, Shape, Rooted
  <2> QED BY <2>1, <2>2, <2>3, <2>4
<1>1. /\ \A n \in Name : token'[n] = IF n = r THEN t ELSE token[n]
      /\ \A n \in Name : n # r => session'[n] = session[n]
      /\ session'[r] = IF again THEN session[r] ELSE r
      /\ \A q \in Req : pc'[q] = IF q = r THEN l ELSE pc[q]
  BY <1>0 DEF TypeOK
<1>2. \A n \in Name : session[n] \in Name => session'[n] = session[n]
  BY <1>0, <1>1
<1>3. Signed'
  BY <1>0, <1>1 DEF CustodyInv, Signed, Running, TypeOK
<1>4. MetWhenTwo'
  BY <1>1 DEF CustodyInv, MetWhenTwo, Running
<1>5. Ending' /\ Reserved'
  <2>1. Ending'
    BY <1>0, <1>1 DEF CustodyInv, Ending
  <2>2. Reserved'
    BY <1>0, <1>1 DEF CustodyInv, Reserved, Unfinished
  <2> QED BY <2>1, <2>2
<1>6. Distinct' => Distinct
  <2> SUFFICES ASSUME Distinct', NEW m \in Name, NEW n \in Name, m # n, token[m] = token[n]
               PROVE  token[m] = 0
    BY DEF Distinct
  <2>1. CASE m = r \/ n = r
    BY <1>0, <2>1
  <2>2. CASE m # r /\ n # r
    BY <1>1, <2>2 DEF Distinct
  <2> QED BY <2>1, <2>2
<1>7. ASSUME NEW n \in Name, n # r, Keeps(n)'
      PROVE  Keeps(n) /\ session'[n] = session[n] /\ session[n] \in Name
  BY <1>1, <1>7 DEF Keeps
<1>8. ASSUME NEW s \in Name
      PROVE  /\ \A e : OutExcuse(s, e) => OutExcuse(s, e)'
             /\ \A e \in Req : Excuse(s, e) => Excuse(s, e)'
             /\ Over(s) => Over(s)'
  <2>1. \A y \in Req : session[y] = s => session'[y] = s
    BY <1>0, <1>2
  <2>2. \A y \in Req : pc[y] \in {"lost", "wipe", "failed", "done"} => pc'[y] = pc[y]
    BY <1>1
  <2>3. Over(s) => Over(s)'
    BY <1>1 DEF Over, Unfinished
  <2> QED BY <2>1, <2>2, <2>3, OutExcusesLast, ExcusesLast
<1>9. Keeps(r)'
  BY <1>0, <1>1 DEF Keeps
<1>10. \A b \in Browser : jar[b] # None => jar[b] \in Name /\ session[jar[b]] \in Name
  BY <1>0 DEF Shape, JarNamed
<1>11. \A q \in Req : op[q].kind \in {"refresh", "logout"}
                        => op[q].arg \in Name /\ session[op[q].arg] \in Name
  <2> SUFFICES ASSUME NEW q \in Req, op[q].kind \in {"refresh", "logout"}
               PROVE  op[q].arg \in Name /\ session[op[q].arg] \in Name
    OBVIOUS
  <2>1. Stages(q) /\ pc[q] # "idle"
    BY <1>0 DEF Shape, CustodyInv, Signed, NoOp
  <2> QED BY <2>1 DEF Stages
<1>12. ASSUME Custody PROVE Custody'
  <2>1. PICK h \in Browser \union {None} : AtHome(h)
    BY <1>12 DEF Custody
  <2>2. AtHome(h)'
    <3>1. \A b \in Browser : jar[b] # None => Home(session'[jar[b]], h) = b
      BY <1>2, <1>10, <2>1 DEF AtHome
    <3>2. \A q \in Req : session'[q] \in Name => Home(session'[q], h) = op[q].at
      <4> SUFFICES ASSUME NEW q \in Req, session'[q] \in Name PROVE Home(session'[q], h) = op[q].at
        OBVIOUS
      <4>1. CASE session'[q] = session[q]
        BY <2>1, <4>1 DEF AtHome
      <4>2. CASE q = r /\ session'[q] = r
        BY <1>0, <4>2 DEF Home
      <4> QED BY <1>0, <1>1, <4>1, <4>2
    <3>3. \A q \in Req : op[q].kind \in {"refresh", "logout"} => Home(session'[op[q].arg], h) = op[q].at
      BY <1>2, <1>11, <2>1 DEF AtHome
    <3> QED BY <3>1, <3>2, <3>3 DEF AtHome, Home
  <2>3. Cookies'
    BY <1>1, <1>12 DEF Custody, Cookies, Brought
  <2>4. Answering'
    <3> SUFFICES ASSUME NEW q \in Req, pc'[q] = "answer", session'[q] \in Name
                 PROVE  /\ q \in rows' \/ \E s \in Name : s = session'[q] /\ Over(s)'
                        /\ \A n \in Name : Keeps(n)' /\ session'[n] = session'[q] => n = q
      BY DEF Answering, Over
    <3>1. CASE q = r
      BY <1>0, <1>9, <3>1 DEF Inv, Shape, OneHolder
    <3>2. CASE q # r
      <4>1. pc[q] = "answer" /\ session'[q] = session[q] /\ session[q] \in Name
        BY <1>0, <1>1, <3>2
      <4>2. session'[r] # session[q]
        BY <1>0, <1>1, <1>12, <3>2, <4>1 DEF Custody, Answering
      <4>3. ASSUME NEW n \in Name, Keeps(n)', session'[n] = session'[q] PROVE n = q
        <5>1. n # r
          BY <4>1, <4>2, <4>3
        <5> QED BY <1>7, <1>12, <4>1, <4>3, <5>1 DEF Custody, Answering
      <4>4. q \in rows' \/ \E s \in Name : s = session'[q] /\ Over(s)'
        BY <1>8, <1>12, <4>1 DEF Custody, Answering
      <4> QED BY <4>3, <4>4
    <3> QED BY <3>1, <3>2
  <2>5. JarFresh'
    <3> SUFFICES ASSUME NEW b \in Browser, NEW n \in Name, jar[b] # None, Keeps(n)',
                        session'[n] = session'[jar[b]], n # jar[b]
                 PROVE  \E y \in Req : session'[y] = session'[n] /\ pc'[y] \in Running \union {"lost"}
      BY DEF JarFresh
    <3>1. session'[n] = session[jar[b]] /\ session'[n] \in Name
      BY <1>2, <1>10
    <3>2. CASE n = r
      <4>1. again /\ session'[r] = session[r]
        BY <1>0, <1>1, <1>10, <3>1, <3>2
      <4> QED BY <1>1, <3>2, <4>1 DEF Running
    <3>3. CASE n # r
      <4>1. Keeps(n) /\ session'[n] = session[n]
        BY <1>7, <3>3
      <4>2. \E y \in Req : session[y] = session[n] /\ pc[y] \in Running \union {"lost"}
        <5>1. session[n] = session[jar[b]] /\ JarFresh
          BY <1>12, <3>1, <4>1 DEF Custody
        <5> QED BY <4>1, <5>1 DEF JarFresh
      <4>3. session[r] # session[n]
        <5>1. CASE again
          BY <1>0, <3>3, <4>1, <5>1 DEF Shape, OneHolder
        <5>2. CASE ~again
          BY <1>0, <3>1, <4>1, <5>2
        <5> QED BY <5>1, <5>2
      <4>4. \A y \in Req : session[y] = session[n] => session'[y] = session[n] /\ pc'[y] = pc[y]
        BY <1>0, <1>1, <4>3
      <4> QED BY <3>1, <4>1, <4>2, <4>4
    <3> QED BY <3>2, <3>3
  <2>6. SignOutFresh'
    <3> SUFFICES ASSUME NEW q \in Req, NEW n \in Name, NEW s \in Name, pc'[q] = "find", op[q].kind = "logout",
                        Keeps(n)', session'[n] = s, session'[op[q].arg] = s, n # op[q].arg
                 PROVE  OutExcuse(s, q)'
      BY DEF SignOutFresh
    <3>1. q # r /\ pc[q] = "find" /\ session'[n] \in Name /\ session'[n] = session[op[q].arg]
      BY <1>1, <1>2, <1>11
    <3>2. CASE n = r
      <4>1. {r, q} \in met
        BY <3>1 DEF CustodyInv, MetWhenTwo, Running
      <4> QED BY <3>1, <3>2, <4>1 DEF OutExcuse
    <3>3. CASE n # r
      <4>1. Keeps(n) /\ session'[n] = session[n]
        BY <1>7, <3>3
      <4> QED BY <1>8, <1>12, <3>1, <4>1 DEF Custody, SignOutFresh
    <3> QED BY <3>2, <3>3
  <2>7. EndedExcused'
    <3> SUFFICES ASSUME NEW n \in Name, NEW s \in Name, NEW e \in Req, Keeps(n)', session'[n] = s, <<s, e>> \in ended
                 PROVE  Excuse(s, e)'
      BY DEF EndedExcused
    <3>1. CASE n = r /\ ~again
      <4>1. <<r, e>> \in slipped \/ Unfinished(e)
        BY <1>0, <1>1, <3>1 DEF CustodyInv, Reserved
      <4>2. <<r, e>> \in slipped \/ Unfinished(e)'
        BY <1>1, <4>1 DEF Unfinished
      <4> QED BY <1>0, <1>1, <3>1, <4>2 DEF Excuse
    <3>2. CASE n # r \/ again
      <4>1. Keeps(n) /\ session'[n] = session[n] /\ session[n] \in Name
        BY <1>0, <1>1, <1>7, <3>2
      <4> QED BY <1>8, <1>12, <4>1 DEF Custody, EndedExcused
    <3> QED BY <3>1, <3>2
  <2>8. ASSUME NEW b \in Browser, NEW c, c = jar[b], c # None PROVE Good(c)'
    <3>1. Good(c) /\ c \in Name /\ session'[c] = session[c] /\ session[c] \in Name
      BY <1>2, <1>10, <1>12, <2>8 DEF Custody
    <3>2. ASSUME NEW q \in Req, op[q].kind = "refresh", op[q].arg = c, session[q] # None, pc[q] # "done"
          PROVE  session'[q] # None /\ pc'[q] # "done"
      BY <1>0, <1>1, <3>2
    <3>3. Over(session[c]) => Over(session[c])'
      BY <1>8, <3>1
    <3> QED BY <3>1, <3>2, <3>3 DEF Good, Over
  <2>9. (\A b \in Browser : jar[b] # None => Good(jar[b]))'
    BY <2>8 DEF Good
  <2> QED BY <2>2, <2>3, <2>4, <2>5, <2>6, <2>7, <2>9 DEF Custody
<1> QED BY <1>3, <1>4, <1>5, <1>6, <1>12 DEF CustodyInv

LEMMA InsertKeepsCustody ==
    ASSUME CustodyInv, Inv', NEW r \in Req, Insert(r)
    PROVE  CustodyInv'
<1> USE DEF Goto
<1>0. pc[r] = "insert" /\ TypeOK
  BY DEF Insert, CustodyInv, Inv
<1>1. CASE pc' = [pc EXCEPT ![r] = "failed"] /\ UNCHANGED <<rows, token, session>>
  <2>1. "failed" \in Running \union Final /\ "failed" \notin Running /\ pc[r] \in Running
    BY <1>0 DEF Running, Final
  <2>2. Quiet
    BY <1>0, <1>1 DEF Quiet, Keeps, TypeOK
  <2>3. UNCHANGED <<ended, slipped, op, jar, met>>
    BY DEF Insert
  <2> QED BY <1>0, <1>1, <2>1, <2>2, <2>3, PlainMoveKeepsCustody
<1>2. CASE /\ rows' = rows \union {r}
           /\ token' = [token EXCEPT ![r] = second']
           /\ session' = [session EXCEPT ![r] = IF op[r].kind = "refresh" THEN @ ELSE r]
           /\ pc' = [pc EXCEPT ![r] = IF op[r].kind = "register" THEN "done" ELSE "answer"]
  <2>1. second' \in Nat \ {0}
    BY SessionsAssumption DEF Inv, TypeOK
  <2>2. PICK l \in {"done", "answer"} :
          pc' = [pc EXCEPT ![r] = l] /\ (op[r].kind = "refresh" => l = "answer")
    BY <1>2
  <2>3. UNCHANGED <<ended, slipped, op, jar, met>>
    BY DEF Insert
  <2> QED BY <1>0, <1>2, <2>1, <2>2, <2>3, StoringKeepsCustody
<1> QED BY <1>1, <1>2 DEF Insert

\* A call is sent: those under way are known to overlap with it.
LEMMA SendingKeepsCustody ==
    ASSUME CustodyInv, Inv', NEW r \in Req, NEW b \in Browser,
           SendPublic(r, b) \/ SendGuarded(r, b)
    PROVE  CustodyInv'
<1> USE NoneIsNoName DEF Goto
<1>1. PICK k, at, arg :
        /\ Send(r, k, at, arg)
        /\ k \in {"logout", "refresh"} => at = b /\ arg # None /\ arg = jar[b]
  <2> DEFINE Goal == \E k, at, arg :
                        /\ Send(r, k, at, arg)
                        /\ k \in {"logout", "refresh"} => at = b /\ arg # None /\ arg = jar[b]
  <2>1. ASSUME NEW k, NEW at, NEW arg, Send(r, k, at, arg),
               k \in {"logout", "refresh"} => at = b /\ arg # None /\ arg = jar[b]
        PROVE  Goal
    BY <2>1
  <2> HIDE DEF Goal
  <2>2. ASSUME SendPublic(r, b) PROVE Goal
    <3>1. CASE \/ Send(r, "register", None, None) \/ Send(r, "forgot", None, password)
               \/ Send(r, "google", b, None) \/ Send(r, "login", b, password)
      BY <2>1, <3>1
    <3>2. ASSUME NEW t \in Req, Send(r, "reset", None, t) PROVE Goal
      BY <2>1, <3>2
    <3>3. CASE jar[b] # None /\ Send(r, "refresh", b, jar[b])
      BY <2>1, <3>3
    <3> QED BY <2>2, <3>1, <3>2, <3>3 DEF SendPublic
  <2>3. ASSUME SendGuarded(r, b) PROVE Goal
    <3>1. ASSUME NEW k \in {"logout", "logoutAll"}, Send(r, k, b, jar[b]), jar[b] # None PROVE Goal
      BY <2>1, <3>1
    <3>2. ASSUME NEW x \in rows, Send(r, "revoke", None, x) PROVE Goal
      BY <2>1, <3>2
    <3>3. CASE Send(r, "change", None, password)
      BY <2>1, <3>3
    <3> QED BY <2>3, <3>1, <3>2, <3>3 DEF SendGuarded
  <2> QED BY <2>2, <2>3 DEF Goal
<1> DEFINE Asks(q) == op[q].kind \in {"refresh", "logout"}
<1>0. /\ pc[r] = "idle" /\ session[r] = None /\ r \notin rows /\ token[r] = 0 /\ op[r] = NoOp
      /\ Inv /\ Shape /\ TypeOK /\ r \in Name /\ r # Earlier
      /\ ~Asks(r)
  <2>1. pc[r] = "idle" /\ Inv /\ Shape /\ TypeOK /\ r \in Name /\ r # Earlier
    BY <1>1, NamesAssumption DEF Send, CustodyInv, Inv, Name
  <2>2. session[r] = None /\ r \notin rows
    BY <2>1 DEF Shape, Stages
  <2>3. token[r] = 0 /\ op[r] = NoOp
    BY <2>1 DEF CustodyInv, Signed
  <2> QED BY <2>1, <2>2, <2>3 DEF NoOp
<1>2. /\ \A q \in Req : pc'[q] = IF q = r THEN "find" ELSE pc[q]
      /\ \A q \in Req : q # r => op'[q] = op[q]
      /\ op'[r] = [kind |-> k, at |-> at, arg |-> arg]
      /\ UNCHANGED <<rows, ended, slipped, session, jar, token>>
      /\ met \subseteq met'
      /\ \A q \in InFlight : {q, r} \in met'
  BY <1>0, <1>1 DEF Send, TypeOK, Shape, ledger
<1>3. Signed'
  <2>1. \A x \in rows' : token'[x] # 0
    BY <1>2 DEF CustodyInv, Signed
  <2>2. ASSUME NEW q \in Req
        PROVE  /\ pc'[q] = "idle" => op'[q] = NoOp
               /\ pc'[q] \in {"idle"} \union (Running \ {"answer"}) => token'[q] = 0
               /\ pc'[q] = "insert" => op'[q].kind \in Storing
               /\ session'[q] \in Name => op'[q].kind \in Storing
    <3>1. CASE q = r
      BY <1>0, <1>2, <3>1
    <3>2. CASE q # r
      BY <1>2, <3>2 DEF CustodyInv, Signed
    <3> QED BY <3>1, <3>2
  <2> QED BY <2>1, <2>2 DEF Signed
<1>4. MetWhenTwo'
  <2> SUFFICES ASSUME NEW q \in Req, NEW p \in Req, pc'[q] \in Running, pc'[p] \in Running, q # p
               PROVE  {q, p} \in met'
    BY DEF MetWhenTwo
  <2>1. CASE q # r /\ p # r
    BY <1>2, <2>1 DEF CustodyInv, MetWhenTwo
  <2>2. CASE q = r
    <3>1. p \in InFlight /\ {q, p} = {p, q}
      BY <1>2, <2>2 DEF InFlight
    <3> QED BY <1>2, <2>2, <3>1
  <2>3. CASE p = r
    BY <1>2, <2>3 DEF InFlight
  <2> QED BY <2>1, <2>2, <2>3
<1>5. Ending' /\ Reserved' /\ (Distinct' => Distinct)
  <2>1. Ending'
    BY <1>0, <1>2 DEF CustodyInv, Ending
  <2>2. Reserved'
    BY <1>0, <1>2 DEF CustodyInv, Reserved, Unfinished
  <2> QED BY <1>2, <2>1, <2>2 DEF Distinct
<1>6. \A n \in Name : Keeps(n)' <=> Keeps(n)
  BY <1>0, <1>2 DEF Keeps
<1>7. ASSUME NEW s \in Name
      PROVE  /\ \A e : OutExcuse(s, e) => OutExcuse(s, e)'
             /\ \A e \in Req : pc[e] # "idle" /\ Excuse(s, e) => Excuse(s, e)'
             /\ Over(s) => Over(s)'
  <2>1. \A e : OutExcuse(s, e) => OutExcuse(s, e)'
    BY <1>0, <1>2 DEF OutExcuse
  <2>2. \A e \in Req : pc[e] # "idle" /\ Excuse(s, e) => Excuse(s, e)'
    BY <1>0, <1>2, <2>1 DEF Excuse, Unfinished
  <2>3. Over(s) => Over(s)'
    BY <1>0, <1>2, OverLasts DEF CustodyInv
  <2> QED BY <2>1, <2>2, <2>3
<1>8. \A b1 \in Browser : jar[b1] # None => jar[b1] \in Name /\ session[jar[b1]] \in Name
  BY <1>0 DEF Shape, JarNamed
<1>9. ASSUME NEW q \in Req, Asks(q) PROVE op[q].arg \in Name /\ session[op[q].arg] \in Name
  <2>1. Stages(q) /\ pc[q] # "idle"
    BY <1>0, <1>9 DEF Shape, CustodyInv, Signed, NoOp
  <2> QED BY <1>9, <2>1 DEF Stages
<1>10. Asks(r)' => at = b /\ arg = jar[b] /\ jar[b] # None
  BY <1>1, <1>2
<1>11. ASSUME Custody PROVE Custody'
  <2>1. PICK h \in Browser \union {None} : AtHome(h)
    BY <1>11 DEF Custody
  <2> DEFINE NewHome(s) == IF s = Earlier THEN h ELSE op'[s].at
  <2>2. \A n \in Name : session[n] \in Name => NewHome(session[n]) = Home(session[n], h)
    <3>1. \A n \in Name : session[n] # r
      BY <1>0 DEF Shape, Rooted
    <3>2. \A s \in Name : s # r => NewHome(s) = Home(s, h)
      BY <1>2 DEF Home, Name
    <3> QED BY <3>1, <3>2
  <2>3. AtHome(h)'
    <3> HIDE DEF NewHome
    <3>1. \A b1 \in Browser : jar[b1] # None => NewHome(session[jar[b1]]) = b1
      BY <1>8, <2>1, <2>2 DEF AtHome
    <3>2. \A q \in Req : session[q] \in Name => NewHome(session[q]) = op'[q].at
      BY <1>0, <1>2, <2>1, <2>2 DEF AtHome, Name
    <3>3. ASSUME NEW q \in Req, op'[q].kind \in {"refresh", "logout"}
          PROVE  NewHome(session[op'[q].arg]) = op'[q].at
      <4>1. CASE q = r
        BY <1>2, <1>8, <1>10, <3>1, <3>3, <4>1
      <4>2. CASE q # r
        BY <1>2, <1>9, <2>1, <2>2, <3>3, <4>2 DEF AtHome
      <4> QED BY <4>1, <4>2
    <3> QED BY <1>2, <3>1, <3>2, <3>3 DEF AtHome, Home, NewHome
  <2>4. Cookies'
    <3>1. \A n : Brought(n) => Brought(n)'
      BY <1>0, <1>2 DEF Brought
    <3> QED BY <1>2, <1>10, <1>11, <3>1 DEF Custody, Cookies
  <2>5. Answering'
    <3>1. \A q \in Req : session[q] \in Name /\ Over(session[q])
                         => \E e \in Req : <<session'[q], e>> \in ended' /\ ~Unfinished(e)'
      BY <1>2, <1>7 DEF Over
    <3> QED BY <1>2, <1>6, <1>11, <3>1 DEF Custody, Answering, Over
  <2>6. EndedExcused'
    <3> SUFFICES ASSUME NEW n \in Name, NEW s \in Name, NEW e \in Req, Keeps(n), session[n] = s, <<s, e>> \in ended
                 PROVE  Excuse(s, e)'
      BY <1>2, <1>6 DEF EndedExcused
    <3>1. session[n] \in Name
      BY DEF Keeps
    <3>2. Excuse(s, e) /\ pc[e] # "idle"
      BY <1>11, <3>1 DEF Custody, EndedExcused, CustodyInv, Ending
    <3> QED BY <1>7, <3>1, <3>2
  <2>7. JarFresh'
    <3> SUFFICES ASSUME NEW b1 \in Browser, NEW n \in Name, jar[b1] # None, Keeps(n),
                        session[n] = session[jar[b1]], n # jar[b1]
                 PROVE  \E y \in Req : session[y] = session[n] /\ pc'[y] \in Running \union {"lost"}
      BY <1>2, <1>6 DEF JarFresh
    <3>1. \E y \in Req : session[y] = session[n] /\ pc[y] \in Running \union {"lost"}
      BY <1>11 DEF Custody, JarFresh
    <3>2. \A y \in Req : pc[y] \in Running \union {"lost"} => pc'[y] = pc[y]
      BY <1>0, <1>2 DEF Running
    <3> QED BY <3>1, <3>2
  <2>8. SignOutFresh'
    <3> SUFFICES ASSUME NEW q \in Req, NEW n \in Name, NEW s \in Name, pc'[q] = "find", op'[q].kind = "logout",
                        Keeps(n), session[n] = s, session[op'[q].arg] = s, n # op'[q].arg
                 PROVE  OutExcuse(s, q)'
      BY <1>2, <1>6 DEF SignOutFresh
    <3>0. session[n] \in Name
      BY DEF Keeps
    <3>1. CASE q # r
      <4>1. OutExcuse(s, q)
        BY <1>2, <1>11, <3>1 DEF Custody, SignOutFresh
      <4> QED BY <1>7, <3>0, <4>1
    <3>2. CASE q = r
      <4>1. op'[r].arg = jar[b] /\ jar[b] # None
        BY <1>2, <1>10, <3>2
      <4>2. PICK y \in Req : session[y] = session[n] /\ pc[y] \in Running \union {"lost"}
        BY <1>11, <3>2, <4>1 DEF Custody, JarFresh
      <4>3. pc[y] \in Running => {y, r} \in met'
        BY <1>2 DEF InFlight
      <4>4. y # r
        BY <1>0, <3>0, <4>2, NoneIsNoName
      <4> QED BY <1>2, <3>2, <4>2, <4>3, <4>4 DEF OutExcuse
    <3> QED BY <3>1, <3>2
  <2>9. ASSUME NEW b1 \in Browser, NEW c, c = jar[b1], c # None PROVE Good(c)'
    <3>1. Good(c)
      BY <1>11, <2>9 DEF Custody
    <3>2. ASSUME NEW q \in Req, op[q].kind = "refresh", op[q].arg = c, session[q] # None, pc[q] # "done"
          PROVE  op'[q] = op[q] /\ pc'[q] # "done"
      BY <1>0, <1>2, <3>2
    <3>3. Over(session[c]) => \E e \in Req : <<session[c], e>> \in ended' /\ ~Unfinished(e)'
      BY <1>2, <1>7, <1>8, <2>9 DEF Over
    <3> QED BY <1>2, <3>1, <3>2, <3>3 DEF Good, Over
  <2>10. (\A b1 \in Browser : jar[b1] # None => Good(jar[b1]))'
    BY <1>2, <2>9 DEF Good
  <2> QED BY <2>3, <2>4, <2>5, <2>6, <2>7, <2>8, <2>10 DEF Custody
<1> QED BY <1>3, <1>4, <1>5, <1>11 DEF CustodyInv

LEMMA StepCustody ==
    ASSUME CustodyInv, [Next]_vars
    PROVE  CustodyInv'
<1>0. Inv /\ TypeOK /\ Shape /\ Inv'
  BY NextKeepsInv DEF CustodyInv, Inv
<1>1. ASSUME NEW r \in Req, Step(r) PROVE CustodyInv'
  <2>1. CASE \/ FindToRegister(r) \/ FindToLogin(r) \/ FindGoogle(r) \/ FindToChange(r)
             \/ FindToForget(r) \/ FindToReset(r)
    BY <1>0, <2>1, StepsThatMove, LooksKeepCustody
  <2>2. CASE \/ CreateAccount(r) \/ PurgeAged(r) \/ Logout(r) \/ LogoutAll(r) \/ RevokeSession(r)
             \/ ChangePassword(r) \/ RevokeAll(r) \/ CreateReset(r) \/ Enqueue(r)
             \/ ResetPassword(r) \/ Lose(r) \/ Crash(r)
    BY <1>0, <2>2, StepsThatMove, MovesKeepCustody
  <2>3. CASE Deliver(r)
    BY <1>0, <2>3, StepsThatMove, DeliverKeepsCustody
  <2>4. CASE FindRow(r)
    BY <1>0, <2>4, FindRowKeepsShape, FindingKeepsCustody
  <2>5. CASE DeleteOld(r)
    BY <1>0, <2>5, DeletingKeepsCustody
  <2>6. CASE Insert(r)
    BY <1>0, <2>6, InsertKeepsCustody
  <2> QED BY <1>1, <2>1, <2>2, <2>3, <2>4, <2>5, <2>6 DEF Step
<1>2. ASSUME UNCHANGED <<rows, token, session, ended, slipped, jar, pc, op, met>> PROVE CustodyInv'
  <2>1. Signed' /\ MetWhenTwo' /\ Ending' /\ Reserved' /\ (Distinct' => Distinct)
    BY <1>2 DEF CustodyInv, Signed, MetWhenTwo, Ending, Reserved, Unfinished, Distinct
  <2>2. ASSUME Custody PROVE Custody'
    <3>0. /\ rows' = rows /\ session' = session /\ ended' = ended /\ slipped' = slipped
          /\ jar' = jar /\ pc' = pc /\ op' = op /\ met' = met
      BY <1>2
    <3>1. \A h : AtHome(h) => AtHome(h)'
      BY <3>0 DEF AtHome, Home, Keeps
    <3>2. Cookies' /\ Answering'
      BY <2>2, <3>0 DEF Custody, Cookies, Brought, Answering, Over, Unfinished, Keeps
    <3>3. JarFresh'
      BY <2>2, <3>0 DEF Custody, JarFresh, Keeps
    <3>4. SignOutFresh'
      <4>1. \A s, r : OutExcuse(s, r) => OutExcuse(s, r)'
        BY <3>0 DEF OutExcuse
      <4>2. \A n : Keeps(n)' => Keeps(n)
        BY <3>0 DEF Keeps
      <4> QED BY <2>2, <3>0, <4>1, <4>2 DEF Custody, SignOutFresh
    <3>5. EndedExcused'
      <4>1. \A s, e : Excuse(s, e) => Excuse(s, e)'
        BY <3>0 DEF Excuse, OutExcuse, Unfinished
      <4>2. \A n : Keeps(n)' => Keeps(n)
        BY <3>0 DEF Keeps
      <4> QED BY <2>2, <3>0, <4>1, <4>2 DEF Custody, EndedExcused
    <3>6. \A b \in Browser : jar[b] # None => Good(jar[b])'
      BY <2>2, <3>0 DEF Custody, Good, Over, Unfinished
    <3> QED BY <2>2, <3>0, <3>1, <3>2, <3>3, <3>4, <3>5, <3>6 DEF Custody
  <2> QED BY <1>0, <2>1, <2>2 DEF CustodyInv
<1>3. ASSUME NEW r \in Req, SendMail(r) PROVE CustodyInv'
  BY <1>2, <1>3 DEF SendMail, ledger, calls
<1>4. CASE ExpireResets
  BY <1>2, <1>4 DEF ExpireResets, ledger, calls
<1>5. CASE UNCHANGED vars
  BY <1>2, <1>5 DEF vars, ledger, calls
<1> QED BY <1>0, <1>1, <1>3, <1>4, <1>5, SendingKeepsCustody DEF Next, Quiescent

LEMMA CustodyInvariant == Spec => []CustodyInv
BY InitCustody, StepCustody, PTL DEF Spec

\* A session its owner has ended has no row and gets none again, however refreshes
\* and sign-ins interleave with the call that ends it, but for the cases
\* EndedMeansEnded names, while no two tokens are of one second: the promise of
\* logout, logoutAll, revokeSession and changePassword.
THEOREM EndedStaysEnded == Spec => []EndedMeansEnded
<1>1. CustodyInv => EndedMeansEnded
  <2> SUFFICES ASSUME CustodyInv, Distinct, NEW x \in rows, NEW e \in Req, <<session[x], e>> \in ended
               PROVE  Excuse(session[x], e)
    BY DEF EndedMeansEnded, Excuse, OutExcuse
  <2>1. x \in Name /\ session[x] \in Name /\ Keeps(x)
    BY DEF CustodyInv, Inv, TypeOK, Shape, RowsNamed, Keeps
  <2> QED BY <2>1 DEF CustodyInv, Custody, EndedExcused
<1> QED BY <1>1, CustodyInvariant, PTL

\* A browser loses its session to the owner's ending it, or to a refresh of its own
\* whose answer has not come, while no two tokens are of one second: what
\* refreshTokens promises by deleting the old row and storing the next.
THEOREM CookiesAreGood == Spec => []CookieIsGood
<1>1. CustodyInv => CookieIsGood
  BY DEF CustodyInv, Custody, Good, Over, CookieIsGood
<1> QED BY <1>1, CustodyInvariant, PTL

-----------------------------------------------------------------------------
(***************************************************************************)
(* Reset tokens.  A call finds them as every call left them that it did not   *)
(* overlap with.                                                            *)
(***************************************************************************)
\* The tokens in use that were asked for by a call t did not overlap with.
Seen(t) == {a \in Active : {a, t} \notin met}

\* The calls that ask for a token, and those that use one.
Asked ==
    \A t \in Req :
        /\ resets[t] # "none" => op[t].kind = "forgot" /\ pc[t] \notin {"find", "create"}
        /\ op[t].kind = "forgot" /\ pc[t] = "create" => Cardinality(Seen(t)) < MaxActive

Used ==
    \A r \in Req : op[r].kind = "reset" =>
        /\ op[r].arg \in Req /\ resets[op[r].arg] # "none"
        /\ pc[r] \in {"find", "update", "done", "rejected", "failed"}
        /\ pc[r] = "done" => resets[op[r].arg] = "used"

UsedOnce ==
    \A q, r \in Req :
        /\ q # r /\ pc[q] = "done" /\ pc[r] \in {"update", "done"}
        /\ op[q].kind = "reset" /\ op[r].kind = "reset" /\ op[q].arg = op[r].arg
        => {q, r} \in met

FewActive ==
    /\ IsFiniteSet(Active)
    /\ Cardinality(Active) > MaxActive => \E q, r \in Active : q # r /\ {q, r} \in met

\* Since a reset every token in use or on its way was asked for with the password
\* it set, or by a call that overlapped with it.
AskedSince ==
    /\ password \in Req => pc[password] # "idle"
    /\ password \in Req /\ op[password].kind = "reset" =>
         \A t \in Req : op[t].kind = "forgot" /\ (t \in Active \/ pc[t] \in Running)
                          => op[t].arg = password \/ {t, password} \in met

ResetsInv == Asked /\ Used /\ UsedOnce /\ FewActive /\ AskedSince

LEMMA InitResets == Init => ResetsInv
<1> SUFFICES ASSUME Init PROVE ResetsInv
  OBVIOUS
<1>1. Active = {} /\ IsFiniteSet({}) /\ Cardinality({}) = 0
  BY FS_EmptySet DEF Init, Active
<1>2. \A r \in Req : pc[r] = "idle" /\ op[r] = NoOp /\ resets[r] = "none"
  BY DEF Init
<1>3. password \notin Req
  BY NamesAssumption DEF Init
<1> QED
  BY <1>1, <1>2, <1>3, SessionsAssumption
     DEF ResetsInv, Asked, Used, UsedOnce, FewActive, AskedSince, NoOp

\* A call sees no more tokens as long as none is made, or is made by a call that
\* overlaps with it.
LEMMA SeesNoMore ==
    ASSUME FewActive, NEW t, Cardinality(Seen(t)) < MaxActive, Seen(t)' \subseteq Seen(t)
    PROVE  Cardinality(Seen(t)') < MaxActive
<1>1. Seen(t) \subseteq Active /\ IsFiniteSet(Active)
  BY DEF Seen, FewActive
<1>2. IsFiniteSet(Seen(t)) /\ Cardinality(Seen(t)) \in Nat
  BY <1>1, FS_Subset, FS_CardinalityType
<1>3. Cardinality(Seen(t)') <= Cardinality(Seen(t)) /\ Cardinality(Seen(t)') \in Nat
  BY <1>2, FS_Subset, FS_CardinalityType
<1> QED BY <1>2, <1>3, SessionsAssumption

\* The steps that are not about reset tokens.
LEMMA AsideKeepsResets ==
    ASSUME CustodyInv, ResetsInv, NEW r \in Req, NEW l \in Running \union Final,
           pc' = [pc EXCEPT ![r] = l], pc[r] \in Running,
           UNCHANGED <<resets, met>>,
           \A q \in Req : q # r \/ op[q].kind \in {"forgot", "reset"} => op'[q] = op[q],
           op'[r].kind = op[r].kind,
           op[r].kind = "reset" => l \in {"rejected", "failed"},
           l # "find",
           l = "create" => op[r].kind # "forgot" \/ (pc[r] = "find" /\ Cardinality(Active) < MaxActive),
           \/ password' = password \/ password' = None
           \/ password' = r /\ op[r].kind # "reset"
    PROVE  ResetsInv'
<1>0. /\ \A q \in Req : pc'[q] = IF q = r THEN l ELSE pc[q]
      /\ \A q \in Req : op'[q].kind = op[q].kind
      /\ Active' = Active /\ None \notin Req
  BY NamesAssumption DEF CustodyInv, Inv, TypeOK, Active
<1>1. Asked'
  <2>1. \A t \in Req : Seen(t)' = Seen(t)
    BY <1>0 DEF Seen
  <2>2. Seen(r) \subseteq Active /\ IsFiniteSet(Active) /\ Cardinality(Active) \in Nat
    BY FS_CardinalityType DEF Seen, ResetsInv, FewActive
  <2>3. Cardinality(Seen(r)) <= Cardinality(Active) /\ Cardinality(Seen(r)) \in Nat
    BY <2>2, FS_Subset, FS_CardinalityType
  <2>4. l = "create" /\ op[r].kind = "forgot" => Cardinality(Seen(r)) < MaxActive
    BY <2>2, <2>3, SessionsAssumption
  <2> QED BY <1>0, <2>1, <2>4 DEF ResetsInv, Asked
<1>2. Used' /\ UsedOnce'
  <2> SUFFICES ASSUME NEW q \in Req, op[q].kind = "reset"
               PROVE  /\ op'[q] = op[q]
                      /\ pc'[q] \in {"find", "update", "done", "rejected", "failed"}
                      /\ pc'[q] = "done" => pc[q] = "done"
                      /\ pc'[q] = "update" => pc[q] = "update"
    BY <1>0 DEF ResetsInv, Used, UsedOnce
  <2> QED BY <1>0 DEF ResetsInv, Used
<1>3. FewActive'
  BY <1>0 DEF ResetsInv, FewActive
<1>4. AskedSince'
  <2>0. \A p \in Req : p = password' => pc'[p] # "idle"
    BY <1>0 DEF ResetsInv, AskedSince, Running, Final
  <2> SUFFICES ASSUME NEW p \in Req, p = password', op'[p].kind = "reset",
                      NEW t \in Req, op[t].kind = "forgot", t \in Active \/ pc'[t] \in Running
               PROVE  op'[t].arg = p \/ {t, p} \in met
    BY <1>0, <2>0 DEF AskedSince
  <2>1. p = password /\ op[p].kind = "reset"
    BY <1>0
  <2>2. t \in Active \/ pc[t] \in Running
    BY <1>0
  <2> QED BY <2>1, <2>2 DEF ResetsInv, AskedSince
<1> QED BY <1>1, <1>2, <1>3, <1>4 DEF ResetsInv

LEMMA AsideStepsKeepResets ==
    ASSUME CustodyInv, ResetsInv, NEW r \in Req,
           \/ FindToRegister(r) \/ FindToLogin(r) \/ FindGoogle(r) \/ CreateAccount(r) \/ Insert(r)
           \/ FindRow(r) \/ DeleteOld(r) \/ PurgeAged(r)
           \/ Logout(r) \/ LogoutAll(r) \/ RevokeSession(r)
           \/ FindToChange(r) \/ ChangePassword(r) \/ RevokeAll(r)
           \/ FindToForget(r) \/ Enqueue(r) \/ Deliver(r) \/ Lose(r) \/ Crash(r)
    PROVE  ResetsInv'
<1> USE DEF Goto, calls, ledger, owner, letters
<1> DEFINE k == op[r].kind
<1>0. /\ Stages(r) /\ op \in [Req -> Op \union {NoOp}]
      /\ k = "reset" => pc[r] \in {"find", "update", "done", "rejected", "failed"}
      /\ pc[r] = "insert" => k \in Storing
  BY DEF CustodyInv, Inv, Shape, Signed, ResetsInv, Used
<1> HIDE DEF k
<1>1. ASSUME NEW l \in Running \union Final, pc' = [pc EXCEPT ![r] = l], pc[r] \in Running,
             UNCHANGED <<resets, met, op>>,
             k = "reset" => l \in {"rejected", "failed"},
             l # "find",
             l = "create" => k # "forgot" \/ (pc[r] = "find" /\ Cardinality(Active) < MaxActive),
             \/ password' = password \/ password' = None
             \/ password' = r /\ k # "reset"
      PROVE  ResetsInv'
  BY <1>1, AsideKeepsResets DEF k
<1>2. CASE FindToRegister(r) \/ FindToLogin(r) \/ FindGoogle(r) \/ FindToChange(r) \/ FindToForget(r)
  <2>1. PICK l \in {"create", "insert", "enqueue", "update", "done", "rejected"} :
          /\ pc' = [pc EXCEPT ![r] = l] /\ pc[r] = "find" /\ k # "reset"
          /\ l = "create" => k # "forgot" \/ Cardinality(Active) < MaxActive
          /\ UNCHANGED <<resets, met, op, password>>
    <3>1. CASE FindToRegister(r)
      BY <3>1 DEF FindToRegister, Look, k
    <3>2. CASE FindToLogin(r)
      BY <3>2 DEF FindToLogin, Look, k
    <3>3. CASE FindGoogle(r)
      <4>1. account \in {"none", "password", "google"}
        BY DEF CustodyInv, Inv, TypeOK
      <4> QED BY <3>3, <4>1 DEF FindGoogle, Look, k
    <3>4. CASE FindToChange(r)
      BY <3>4 DEF FindToChange, Look, k
    <3>5. CASE FindToForget(r)
      BY <3>5 DEF FindToForget, Look, k
    <3> QED BY <1>2, <3>1, <3>2, <3>3, <3>4, <3>5
  <2>2. l \in Running \union Final /\ pc[r] \in Running
    BY <2>1 DEF Running, Final
  <2> QED BY <1>1, <2>1, <2>2
<1>3. CASE CreateAccount(r) \/ ChangePassword(r)
  <2>1. PICK l \in {"insert", "failed", "wipe"} :
          /\ pc' = [pc EXCEPT ![r] = l] /\ pc[r] \in {"create", "update"} /\ k # "reset"
          /\ password' \in {password, None, r}
          /\ UNCHANGED <<resets, met, op>>
    BY <1>3 DEF CreateAccount, ChangePassword, k
  <2>2. l \in Running \union Final /\ pc[r] \in Running
    BY <2>1 DEF Running, Final
  <2> QED BY <1>1, <2>1, <2>2
<1>4. CASE Insert(r) \/ DeleteOld(r) \/ PurgeAged(r) \/ Logout(r) \/ LogoutAll(r) \/ RevokeSession(r)
  <2>1. PICK l \in {"answer", "done", "failed", "insert", "rejected"} :
          /\ pc' = [pc EXCEPT ![r] = l] /\ pc[r] \in {"insert", "delete", "purge", "find"}
          /\ UNCHANGED <<resets, met, op, password>>
    BY <1>4 DEF Insert, DeleteOld, PurgeAged, Logout, LogoutAll, RevokeSession
  <2>2. k # "reset"
    BY <1>0, <1>4 DEF Stages, Storing, SignIns, Insert, DeleteOld, PurgeAged, Logout, LogoutAll,
                     RevokeSession, k
  <2>3. l \in Running \union Final /\ pc[r] \in Running
    BY <2>1 DEF Running, Final
  <2> QED BY <1>1, <2>1, <2>2, <2>3
<1>5. CASE RevokeAll(r) \/ Enqueue(r) \/ Deliver(r) \/ Lose(r) \/ Crash(r)
  <2>1. PICK l \in {"rejected", "done", "lost", "failed"} :
          /\ pc' = [pc EXCEPT ![r] = l] /\ pc[r] \in Running
          /\ l = "failed" \/ pc[r] \in {"wipe", "enqueue", "answer"}
          /\ UNCHANGED <<resets, met, op, password>>
    BY <1>5 DEF RevokeAll, Enqueue, Deliver, Lose, Crash, Running
  <2>2. l \in Running \union Final
    BY DEF Final
  <2> QED BY <1>0, <1>1, <2>1, <2>2
<1>6. CASE FindRow(r)
  <2>1. PICK l \in {"rejected", "purge", "delete"} : pc' = [pc EXCEPT ![r] = l]
    BY <1>6 DEF FindRow
  <2>2. /\ pc[r] = "find" /\ op[r].kind = "refresh" /\ UNCHANGED <<resets, met, password>>
        /\ op' = op \/ \E x \in rows : op' = [op EXCEPT ![r].arg = x]
    BY <1>6 DEF FindRow
  <2>3. \A q \in Req : (q # r => op'[q] = op[q]) /\ op'[q].kind = op[q].kind
    BY <1>0, <2>2 DEF Op, NoOp
  <2>4. l \in Running \union Final /\ pc[r] \in Running
    BY <2>2 DEF Running, Final
  <2> QED BY <2>1, <2>2, <2>3, <2>4, AsideKeepsResets
<1> QED BY <1>2, <1>3, <1>4, <1>5, <1>6

\* A token is made while there is room for it, unless two calls looked at once.
LEMMA CreateKeepsResets ==
    ASSUME CustodyInv, ResetsInv, NEW r \in Req, CreateReset(r)
    PROVE  ResetsInv'
<1> USE DEF Goto
<1>0. /\ pc[r] = "create" /\ op[r].kind = "forgot" /\ UNCHANGED <<met, op, password>>
      /\ \A q \in Req : pc'[q] = IF q = r THEN "enqueue" ELSE pc[q]
      /\ \A t \in Req : resets'[t] = IF t = r THEN "active" ELSE resets[t]
      /\ resets[r] = "none" /\ pc[r] \in Running
  BY DEF CreateReset, CustodyInv, Inv, TypeOK, ResetsInv, Asked, calls, owner, Running
<1>1. /\ Active' = Active \union {r} /\ r \notin Active
      /\ IsFiniteSet(Active)
      /\ \A t \in Req : pc[t] = "create" /\ t # r => {r, t} \in met
  BY <1>0 DEF Active, ResetsInv, FewActive, CustodyInv, MetWhenTwo, Running
<1>2. Asked'
  <2>1. ASSUME NEW t \in Req, t # r, op[t].kind = "forgot", pc[t] = "create"
        PROVE  Cardinality(Seen(t)') < MaxActive
    <3>1. Seen(t)' \subseteq Seen(t)
      BY <1>0, <1>1, <2>1 DEF Seen
    <3>2. Cardinality(Seen(t)) < MaxActive
      BY <2>1 DEF ResetsInv, Asked
    <3> QED BY <3>1, <3>2, SeesNoMore DEF ResetsInv
  <2> QED BY <1>0, <2>1 DEF ResetsInv, Asked
<1>3. Used' /\ UsedOnce'
  BY <1>0 DEF ResetsInv, Used, UsedOnce
<1>4. FewActive'
  <2>1. IsFiniteSet(Active') /\ Cardinality(Active') = Cardinality(Active) + 1
    BY <1>1, FS_AddElement
  <2>2. CASE \E q \in Active : {q, r} \in met
    BY <1>0, <1>1, <2>1, <2>2 DEF FewActive
  <2>3. CASE \A q \in Active : {q, r} \notin met
    <3>1. Seen(r) = Active
      BY <2>3 DEF Seen
    <3>2. Cardinality(Active) < MaxActive /\ Cardinality(Active) \in Nat
      BY <1>0, <1>1, <3>1, FS_CardinalityType DEF ResetsInv, Asked
    <3>3. ~(Cardinality(Active') > MaxActive)
      BY <2>1, <3>2, SessionsAssumption
    <3> QED BY <2>1, <3>3 DEF FewActive
  <2> QED BY <2>2, <2>3
<1>5. AskedSince'
  BY <1>0, <1>1 DEF ResetsInv, AskedSince, Running
<1> QED BY <1>2, <1>3, <1>4, <1>5 DEF ResetsInv

LEMMA FindToResetKeepsResets ==
    ASSUME CustodyInv, ResetsInv, NEW r \in Req, FindToReset(r)
    PROVE  ResetsInv'
<1> USE DEF Goto, owner, letters
<1>0. PICK l \in {"update", "rejected"} :
        /\ pc[r] = "find" /\ op[r].kind = "reset" /\ UNCHANGED <<met, op, password, resets>>
        /\ pc' = [pc EXCEPT ![r] = l]
        /\ l = "update" => op[r].arg \in Active
  BY DEF FindToReset, Look
<1>1. CASE l = "rejected"
  BY <1>0, <1>1, AsideKeepsResets DEF Running, Final
<1>2. CASE l = "update"
  <2>1. /\ \A q \in Req : pc'[q] = IF q = r THEN "update" ELSE pc[q]
        /\ Active' = Active /\ resets[op[r].arg] = "active"
    BY <1>0, <1>2 DEF CustodyInv, Inv, TypeOK, Active
  <2>2. Asked'
    BY <1>0, <2>1 DEF ResetsInv, Asked, Seen
  <2>3. Used' /\ UsedOnce'
    BY <1>0, <2>1 DEF ResetsInv, Used, UsedOnce
  <2>4. FewActive'
    BY <1>0, <2>1 DEF ResetsInv, FewActive
  <2>5. AskedSince'
    BY <1>0, <2>1 DEF ResetsInv, AskedSince, Running
  <2> QED BY <2>2, <2>3, <2>4, <2>5 DEF ResetsInv
<1> QED BY <1>0, <1>1, <1>2

\* A reset uses up every token; whoever is about to make or to use one overlaps with
\* it.
LEMMA ResetKeepsResets ==
    ASSUME CustodyInv, ResetsInv, NEW r \in Req, ResetPassword(r)
    PROVE  ResetsInv'
<1> USE DEF Goto
<1>0. /\ pc[r] = "update" /\ op[r].kind = "reset" /\ UNCHANGED <<met, op>> /\ password' = r
      /\ \A q \in Req : pc'[q] = IF q = r THEN "done" ELSE pc[q]
      /\ \A t \in Req : resets'[t] = IF resets[t] \in {"active", "expired"} \/ t = op[r].arg
                                       THEN "used" ELSE resets[t]
      /\ op[r].arg \in Req
      /\ pc[r] \in Running
  BY DEF ResetPassword, CustodyInv, Inv, TypeOK, ResetsInv, Used, calls, Running
<1>1. /\ \A q \in Req : pc[q] \in Running /\ q # r => {q, r} \in met /\ {r, q} \in met
      /\ Active' = {} /\ IsFiniteSet({}) /\ Cardinality({}) = 0
  BY <1>0, FS_EmptySet DEF CustodyInv, MetWhenTwo, Active
<1>2. Asked'
  <2>1. ASSUME NEW t \in Req, resets'[t] # "none"
        PROVE  op[t].kind = "forgot" /\ pc'[t] \notin {"find", "create"}
    <3>1. resets[t] # "none"
      BY <1>0, <2>1 DEF ResetsInv, Used
    <3> QED BY <1>0, <3>1 DEF ResetsInv, Asked
  <2>3. ASSUME NEW t \in Req PROVE Cardinality(Seen(t)') < MaxActive
    <3>1. Seen(t)' = {}
      BY <1>1 DEF Seen
    <3>2. Cardinality(Seen(t)') = 0
      BY <1>1, <3>1
    <3> QED BY <3>2, SessionsAssumption
  <2> QED BY <1>0, <2>1, <2>3 DEF Asked
<1>3. Used'
  <2> SUFFICES ASSUME NEW q \in Req, op[q].kind = "reset"
               PROVE  /\ op[q].arg \in Req /\ resets'[op[q].arg] # "none"
                      /\ pc'[q] \in {"find", "update", "done", "rejected", "failed"}
                      /\ pc'[q] = "done" => resets'[op[q].arg] = "used"
    BY <1>0 DEF Used
  <2>1. CASE q = r
    BY <1>0, <2>1
  <2>2. CASE q # r
    BY <1>0, <1>1, <2>2 DEF ResetsInv, Used, Running
  <2> QED BY <2>1, <2>2
<1>4. UsedOnce'
  <2> SUFFICES ASSUME NEW p \in Req, NEW q \in Req, p # q, pc'[p] = "done", pc'[q] \in {"update", "done"},
                      op[p].kind = "reset", op[q].kind = "reset", op[p].arg = op[q].arg
               PROVE  {p, q} \in met
    BY <1>0 DEF UsedOnce
  <2>1. CASE p # r /\ q # r
    BY <1>0, <2>1 DEF ResetsInv, UsedOnce
  <2>2. CASE q = r
    BY <1>0, <2>2 DEF ResetsInv, UsedOnce
  <2>3. CASE p = r /\ pc[q] = "update"
    BY <1>0, <1>1, <2>3 DEF Running
  <2>4. CASE p = r /\ pc[q] = "done"
    <3>1. {q, r} \in met /\ {q, r} = {r, q}
      BY <1>0, <2>4 DEF ResetsInv, UsedOnce
    <3> QED BY <2>4, <3>1
  <2> QED BY <1>0, <2>1, <2>2, <2>3, <2>4
<1>5. FewActive'
  BY <1>1, SessionsAssumption DEF FewActive
<1>6. AskedSince'
  BY <1>0, <1>1 DEF AskedSince
<1> QED BY <1>2, <1>3, <1>4, <1>5, <1>6 DEF ResetsInv

LEMMA SendingKeepsResets ==
    ASSUME CustodyInv, ResetsInv, NEW r \in Req, NEW b \in Browser,
           SendPublic(r, b) \/ SendGuarded(r, b)
    PROVE  ResetsInv'
<1> USE DEF Goto
<1>1. PICK k, at, arg : Send(r, k, at, arg) /\ (k = "reset" => arg \in Req /\ resets[arg] # "none")
                                            /\ (k = "forgot" => arg = password)
  <2> DEFINE Goal == \E k, at, arg : Send(r, k, at, arg) /\ (k = "reset" => arg \in Req /\ resets[arg] # "none")
                                                         /\ (k = "forgot" => arg = password)
  <2>1. ASSUME NEW k, NEW at, NEW arg, Send(r, k, at, arg),
               k = "reset" => arg \in Req /\ resets[arg] # "none", k = "forgot" => arg = password
        PROVE  Goal
    BY <2>1
  <2> HIDE DEF Goal
  <2>2. ASSUME SendPublic(r, b) PROVE Goal
    <3>1. CASE \/ Send(r, "register", None, None) \/ Send(r, "forgot", None, password)
               \/ Send(r, "google", b, None) \/ Send(r, "login", b, password)
               \/ Send(r, "refresh", b, jar[b])
      BY <2>1, <3>1
    <3>2. ASSUME NEW t \in Req, resets[t] # "none", Send(r, "reset", None, t) PROVE Goal
      BY <2>1, <3>2
    <3> QED BY <2>2, <3>1, <3>2 DEF SendPublic
  <2>3. ASSUME SendGuarded(r, b) PROVE Goal
    <3>1. ASSUME NEW k \in {"logout", "logoutAll"}, Send(r, k, b, jar[b]) PROVE Goal
      BY <2>1, <3>1
    <3>2. ASSUME NEW x \in rows, Send(r, "revoke", None, x) PROVE Goal
      BY <2>1, <3>2
    <3>3. CASE Send(r, "change", None, password)
      BY <2>1, <3>3
    <3> QED BY <2>3, <3>1, <3>2, <3>3 DEF SendGuarded
  <2> QED BY <2>2, <2>3 DEF Goal
<1>2. /\ pc[r] = "idle" /\ op[r] = NoOp
      /\ \A q \in Req : pc'[q] = IF q = r THEN "find" ELSE pc[q]
      /\ \A q \in Req : q # r => op'[q] = op[q]
      /\ op'[r] = [kind |-> k, at |-> at, arg |-> arg]
      /\ UNCHANGED <<password, resets>> /\ met \subseteq met'
      /\ Active' = Active
  BY <1>1 DEF Send, CustodyInv, Inv, TypeOK, Shape, Signed, owner, letters, Active
<1>3. Asked'
  <2>1. resets[r] = "none"
    BY <1>2 DEF ResetsInv, Asked, NoOp
  <2>2. ASSUME NEW t \in Req, op[t].kind = "forgot", pc[t] = "create"
        PROVE  Cardinality(Seen(t)') < MaxActive
    <3>1. Seen(t)' \subseteq Seen(t)
      BY <1>2 DEF Seen
    <3>2. Cardinality(Seen(t)) < MaxActive
      BY <2>2 DEF ResetsInv, Asked
    <3> QED BY <3>1, <3>2, SeesNoMore DEF ResetsInv
  <2>3. ASSUME NEW t \in Req
        PROVE  /\ resets'[t] # "none" => op'[t].kind = "forgot" /\ pc'[t] \notin {"find", "create"}
               /\ op'[t].kind = "forgot" /\ pc'[t] = "create" =>
                     op[t].kind = "forgot" /\ pc[t] = "create"
    BY <1>2, <2>1 DEF ResetsInv, Asked
  <2> QED BY <2>2, <2>3 DEF Asked
<1>4. Used'
  <2> SUFFICES ASSUME NEW q \in Req, op'[q].kind = "reset"
               PROVE  /\ op'[q].arg \in Req /\ resets[op'[q].arg] # "none"
                      /\ pc'[q] \in {"find", "update", "done", "rejected", "failed"}
                      /\ pc'[q] = "done" => resets[op'[q].arg] = "used"
    BY <1>2 DEF Used
  <2>1. CASE q = r
    BY <1>1, <1>2, <2>1
  <2>2. CASE q # r
    BY <1>2, <2>2 DEF ResetsInv, Used
  <2> QED BY <2>1, <2>2
<1>5. UsedOnce'
  BY <1>2 DEF ResetsInv, UsedOnce
<1>6. FewActive'
  BY <1>2 DEF ResetsInv, FewActive
<1>7. AskedSince'
  <2>1. password # r /\ (password \in Req => pc'[password] # "idle")
    BY <1>2 DEF ResetsInv, AskedSince
  <2> SUFFICES ASSUME password \in Req, op[password].kind = "reset",
                      NEW t \in Req, op'[t].kind = "forgot", t \in Active \/ pc'[t] \in Running
               PROVE  op'[t].arg = password \/ {t, password} \in met'
    BY <1>2, <2>1 DEF AskedSince
  <2>2. CASE t = r
    BY <1>1, <1>2, <2>2
  <2>3. CASE t # r
    BY <1>2, <2>3 DEF ResetsInv, AskedSince
  <2> QED BY <2>2, <2>3
<1> QED BY <1>3, <1>4, <1>5, <1>6, <1>7 DEF ResetsInv

LEMMA StepResets ==
    ASSUME CustodyInv, ResetsInv, [Next]_vars
    PROVE  ResetsInv'
<1>1. ASSUME NEW r \in Req, Step(r) PROVE ResetsInv'
  BY <1>1, AsideStepsKeepResets, CreateKeepsResets, FindToResetKeepsResets, ResetKeepsResets DEF Step
<1>2. ASSUME UNCHANGED <<resets, pc, op, met, password>> PROVE ResetsInv'
  BY <1>2 DEF ResetsInv, Asked, Used, UsedOnce, FewActive, AskedSince, Active, Seen
<1>3. ASSUME NEW r \in Req, SendMail(r) PROVE ResetsInv'
  BY <1>2, <1>3 DEF SendMail, owner, calls
<1>4. CASE ExpireResets
  <2>1. /\ UNCHANGED <<pc, op, met, password>>
        /\ \A t \in Req : resets'[t] = IF resets[t] = "active" THEN "expired" ELSE resets[t]
        /\ Active' = {} /\ IsFiniteSet({}) /\ Cardinality({}) = 0
    BY <1>4, FS_EmptySet DEF ExpireResets, Active, owner, calls
  <2>2. Asked'
    <3>1. \A t \in Req : Seen(t)' = {}
      BY <2>1 DEF Seen
    <3> QED BY <2>1, <3>1, SessionsAssumption DEF ResetsInv, Asked
  <2>3. Used' /\ UsedOnce'
    BY <2>1 DEF ResetsInv, Used, UsedOnce
  <2>4. FewActive'
    BY <2>1, SessionsAssumption DEF FewActive
  <2>5. AskedSince'
    BY <2>1 DEF ResetsInv, AskedSince
  <2> QED BY <2>2, <2>3, <2>4, <2>5 DEF ResetsInv
<1>5. CASE UNCHANGED vars
  BY <1>2, <1>5 DEF vars, owner, letters, calls
<1> QED BY <1>1, <1>3, <1>4, <1>5, SendingKeepsResets DEF Next, Quiescent

\* An account has no more than MaxActive reset tokens in use unless two requests
\* for them overlapped, a token resets the password once unless two resets with it
\* overlapped, and none outlives a reset it was asked for before: what
\* forgotPassword and the transaction of resetPassword promise.
THEOREM ResetTokensAreSpent == Spec => []ResetTokensSpent
<1>1. ResetsInv => ResetTokensSpent
  BY DEF ResetsInv, Asked, UsedOnce, FewActive, AskedSince, ResetTokensSpent, Active
<1> QED BY <1>1, InitResets, StepResets, CustodyInvariant, PTL DEF Spec
=============================================================================
