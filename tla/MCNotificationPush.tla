------------------------- MODULE MCNotificationPush -------------------------
(* Small instances of NotificationPush for TLC. *)
EXTENDS NotificationPush, TLC

CONSTANTS s1, s2, t1, t2, c1, c2, c3, e1, e2, e3

OneProcess == {s1}
TwoProcesses == {s1, s2}
OneTab == {t1}
TwoTabs == {t1, t2}
TwoSockets == {c1, c2}
ThreeSockets == {c1, c2, c3}
ThreeEvents == {e1, e2, e3}

\* No action compares or orders any of these.
Interchangeable ==
    Permutations(TwoProcesses) \union Permutations(TwoTabs)
      \union Permutations(ThreeSockets) \union Permutations(ThreeEvents)
=============================================================================
