--------------------------- MODULE MCMeetSession ---------------------------
(* Small instances of MeetSession for TLC.                                 *)
EXTENDS MeetRefinement, TLC

CONSTANTS u1, u2, u3

\* Two users who can only find each other.
Pair == [u \in Users |-> Users \ {u}]

\* u1 finds u2, u2 finds u3, u3 finds u1: no two are matched mutually.
Ring == (u1 :> {u2}) @@ (u2 :> {u3}) @@ (u3 :> {u1})

AllTopics == TopicNumbers

\* The users of Pair are interchangeable.
Symmetry == Permutations(Users)
=============================================================================
