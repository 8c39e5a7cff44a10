--------------------------- MODULE MCRefreshQueue ---------------------------
(* A small instance of RefreshQueue for TLC. *)
EXTENDS RefreshQueue

CONSTANTS login, a1, a2, a3

Requests == {login, a1, a2, a3}
Logins == {login}
=============================================================================
