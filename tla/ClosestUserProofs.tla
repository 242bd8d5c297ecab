------------------------- MODULE ClosestUserProofs -------------------------
(* findClosestUser returns the closest user, for arrays of every length.   *)
EXTENDS ClosestUser, TLAPS

IInv == TypeOK /\ LoopInv

LEMMA InitInv == Init => IInv
<1> SUFFICES ASSUME Init
             PROVE  IInv
  OBVIOUS
<1>1. PICK n \in 1 .. MaxUsers : distance \in [1 .. n -> Distances]
  BY DEF Init
<1>2. /\ distance \in Seq(Distances)
      /\ Len(distance) = n
      /\ n \in Nat \ {0}
  BY <1>1, MaxUsersAssumption
<1>3. distance # << >> /\ 1 \in 1 .. Len(distance) /\ distance[1] \in Distances
  BY <1>1, <1>2
<1>4. TypeOK
  <2>1. /\ otherUser = 1 /\ matchedUser = 1 /\ shortestDistance = distance[1]
        /\ returned \in BOOLEAN
    BY DEF Init
  <2>2. otherUser \in 1 .. Len(distance) + 1
    BY <1>2, <2>1
  <2>3. QED
    BY <1>2, <1>3, <2>1, <2>2 DEF TypeOK
<1>5. LoopInv
  BY <1>2 DEF Init, LoopInv
<1>6. QED
  BY <1>4, <1>5 DEF IInv

LEMMA StepInv == IInv /\ [Next]_vars => IInv'
<1> SUFFICES ASSUME IInv, [Next]_vars
             PROVE  IInv'
  OBVIOUS
<1> USE DistancesAssumption DEF IInv
<1>1. CASE Compare
  <2> DEFINE n == Len(distance)
  <2>1. /\ n \in Nat /\ otherUser \in 1 .. n
        /\ \A j \in 1 .. n : distance[j] \in Distances /\ distance[j] \in Nat
        /\ distance' = distance /\ otherUser' = otherUser + 1 /\ returned' = returned
    <3>1. distance \in Seq(Distances) /\ n \in Nat
      BY DEF TypeOK
    <3>2. \A j \in 1 .. n : distance[j] \in Distances
      BY <3>1
    <3>3. otherUser \in 1 .. n
      BY <1>1, <3>1 DEF Compare, TypeOK
    <3>4. distance' = distance /\ otherUser' = otherUser + 1 /\ returned' = returned
      BY <1>1 DEF Compare
    <3>5. QED
      BY <3>1, <3>2, <3>3, <3>4
  <2>2. CASE Closer(distance[otherUser])
    <3>1. /\ shortestDistance' = distance[otherUser]
          /\ matchedUser' = otherUser
          /\ shortestDistance > distance[otherUser]
      BY <1>1, <2>2 DEF Compare, Closer
    <3>2. TypeOK'
      BY <2>1, <3>1 DEF TypeOK
    <3>3. \A j \in 1 .. otherUser : distance[otherUser] <= distance[j]
      BY <2>1, <3>1 DEF LoopInv, TypeOK
    <3>4. \A j \in 1 .. otherUser - 1 : distance[otherUser] < distance[j]
      BY <2>1, <3>1 DEF LoopInv, TypeOK
    <3>5. LoopInv'
      BY <2>1, <3>1, <3>3, <3>4 DEF LoopInv, TypeOK
    <3>6. QED
      BY <3>2, <3>5
  <2>3. CASE ~Closer(distance[otherUser])
    <3>1. /\ shortestDistance' = shortestDistance
          /\ matchedUser' = matchedUser
          /\ shortestDistance <= distance[otherUser]
      BY <1>1, <2>1, <2>3 DEF Compare, Closer, TypeOK
    <3>2. TypeOK'
      BY <2>1, <3>1 DEF TypeOK
    <3>3. LoopInv'
      BY <2>1, <3>1 DEF LoopInv, TypeOK
    <3>4. QED
      BY <3>2, <3>3
  <2>4. QED
    BY <2>2, <2>3
<1>2. CASE Return
  BY <1>2 DEF Return, TypeOK, LoopInv
<1>3. CASE UNCHANGED vars
  BY <1>3 DEF vars, TypeOK, LoopInv
<1>4. QED
  BY <1>1, <1>2, <1>3 DEF Next

\* Whatever the array, the loop of findClosestUser returns the first of the
\* users at the shortest distance.
THEOREM ClosestTheorem == Spec => []ReturnsFirstNearest
<1>1. IInv => ReturnsFirstNearest
  BY DistancesAssumption DEF IInv, TypeOK, LoopInv, ReturnsFirstNearest, IsFirstNearest
<1>2. QED
  BY <1>1, InitInv, StepInv, PTL DEF Spec

=============================================================================
