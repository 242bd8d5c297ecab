------------------------------ MODULE Nearest ------------------------------
(* What it means to be the closest of a list of users.                     *)
EXTENDS Naturals, Sequences

\* distance[i] is the distance to the i-th user of an array; i is the first of
\* those at the shortest distance.
IsFirstNearest(distance, i) ==
    /\ i \in 1 .. Len(distance)
    /\ \A j \in 1 .. Len(distance) : distance[i] <= distance[j]
    /\ \A j \in 1 .. i - 1 : distance[i] < distance[j]

FirstNearest(distance) == CHOOSE i \in 1 .. Len(distance) : IsFirstNearest(distance, i)

=============================================================================
