---------------------------- MODULE SessionLife ----------------------------
(***************************************************************************)
(* What the owner of an account expects of a session: it begins with one     *)
(* sign-in, is held by one refresh token at a time, and once it is over it   *)
(* stays over.  AuthService implements it with tokens that replace each      *)
(* other (module Sessions).                                                  *)
(***************************************************************************)
CONSTANT Session     \* the sessions, named by their sign-in

VARIABLE life        \* "new", "live" or "over"

Init == life \in [Session -> {"new", "live"}]

Begin(s) ==
    /\ life[s] = "new"
    /\ life' = [life EXCEPT ![s] = "live"]

End(S) ==
    /\ \A s \in S : life[s] = "live"
    /\ life' = [s \in Session |-> IF s \in S THEN "over" ELSE life[s]]

Next == (\E s \in Session : Begin(s)) \/ (\E S \in SUBSET Session : End(S))

Spec == Init /\ [][Next]_life
=============================================================================
