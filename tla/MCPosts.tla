------------------------------ MODULE MCPosts ------------------------------
(* Small instances of Posts for TLC. *)
EXTENDS Posts, TLC

CONSTANTS r1, r2, r3, r4, r5, topic

ThreeCalls == {r1, r2, r3}
FourCalls == {r1, r2, r3, r4}
FiveCalls == {r1, r2, r3, r4, r5}
OneTag == {topic}

Interchangeable == Permutations(FiveCalls)
=============================================================================
