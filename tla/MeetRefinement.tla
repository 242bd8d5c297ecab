--------------------------- MODULE MeetRefinement ---------------------------
(***************************************************************************)
(* The meeting the devices run implements the meeting that is promised:    *)
(* the stage of a user is read off the fields and the screens of its       *)
(* device, and what was agreed, begun and shared off the history.          *)
(***************************************************************************)
EXTENDS MeetSession

\* How far u has come.
Stage(u) ==
    IF phoneShown[u] THEN "informed"
    ELSE IF presented[u] # "main" THEN "talking"
    ELSE IF isStarted[u] THEN "begun"
    ELSE IF screen[u] = "talking" THEN "met"
    ELSE IF isObserving[u] THEN "agreed"
    ELSE "open"

Meeting == INSTANCE Rendezvous
    WITH partner <- matched, stage <- [u \in Users |-> Stage(u)], agreed <- accepted

\* Whatever the interleaving of taps, replies and events, and however old the
\* snapshots they carry: no gate is passed twice, skipped or passed backwards,
\* none before the partner's consent has been given, and the partner does not
\* change between the gates.  Only a process that ends takes a user back.
MeetingRefined == Meeting!Spec

=============================================================================
