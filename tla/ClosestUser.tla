---------------------------- MODULE ClosestUser ----------------------------
(***************************************************************************)
(* The loop of MatchUsers.findClosestUser.  A user is the distance to it:  *)
(* the coordinates cannot change while the loop runs on the main queue.    *)
(* The array is never empty, every caller has added a user before.         *)
(***************************************************************************)
EXTENDS Nearest

CONSTANTS
    Distances,   \* the distances that occur
    MaxUsers     \* bound: length of the array

ASSUME DistancesAssumption == Distances \subseteq Nat
ASSUME MaxUsersAssumption == MaxUsers \in Nat \ {0}

VARIABLES
    distance,          \* distance[i]: from the current user to userArray[i]
    otherUser,         \* the index the loop looks at next
    shortestDistance,
    matchedUser,       \* an index of the array
    returned

vars == <<distance, otherUser, shortestDistance, matchedUser, returned>>

TypeOK ==
    /\ distance \in Seq(Distances) /\ distance # << >>
    /\ otherUser \in 1 .. Len(distance) + 1
    /\ shortestDistance \in Distances
    /\ matchedUser \in 1 .. Len(distance)
    /\ returned \in BOOLEAN

Init ==
    /\ distance \in UNION {[1 .. n -> Distances] : n \in 1 .. MaxUsers}
    /\ otherUser = 1
    /\ shortestDistance = distance[1]
    /\ matchedUser = 1
    /\ returned = FALSE

\* Variant: a user at the same distance is taken, too.
NotFarther(d) == shortestDistance >= d

Closer(d) == shortestDistance > d

\* One turn of the loop.
Compare ==
    /\ otherUser <= Len(distance)
    /\ IF Closer(distance[otherUser])
       THEN /\ shortestDistance' = distance[otherUser]
            /\ matchedUser' = otherUser
       ELSE UNCHANGED <<shortestDistance, matchedUser>>
    /\ otherUser' = otherUser + 1
    /\ UNCHANGED <<distance, returned>>

Return ==
    /\ otherUser > Len(distance)
    /\ ~returned
    /\ returned' = TRUE
    /\ UNCHANGED <<distance, otherUser, shortestDistance, matchedUser>>

Next == Compare \/ Return

Spec == Init /\ [][Next]_vars

\* The user that is returned is the closest of the array and, among equals,
\* the one that was added first: a user who is met twice is the older entry.
ReturnsFirstNearest == returned => IsFirstNearest(distance, matchedUser)

\* Why: the prefix the loop has passed is settled.
LoopInv ==
    /\ shortestDistance = distance[matchedUser]
    /\ \A j \in 1 .. otherUser - 1 : shortestDistance <= distance[j]
    /\ \A j \in 1 .. matchedUser - 1 : shortestDistance < distance[j]
    /\ matchedUser <= otherUser
    /\ returned => otherUser > Len(distance)

=============================================================================
