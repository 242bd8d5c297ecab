-------------------------- MODULE MatchmakerProofs --------------------------
(***************************************************************************)
(* Proofs about one device, for any number of other users, positions,      *)
(* location updates and completions in flight: it places one meeting       *)
(* point, its types are right - the closest of its users exists - and,     *)
(* when nothing is left to run, it has forgotten neither a user nearby nor *)
(* its match.                                                              *)
(***************************************************************************)
EXTENDS Matchmaker, FiniteSetTheorems, WellFoundedInduction, TLAPS

\* Why the test on the number of annotations is enough once the map shows the
\* device: a meeting point came with a user, and users stay on the map.
MapInv ==
    /\ IsFiniteSet(shown)
    /\ points \in Nat
    /\ points >= 1 => shown # {}

\* A map with the device, a user and a meeting point has no room left.
LEMMA FullMap ==
    ASSUME MapInv, located, points >= 1
    PROVE  ~RoomOnMap
<1>1. Cardinality(shown) \in Nat /\ Cardinality(shown) # 0
  BY FS_CardinalityType, FS_EmptySet DEF MapInv
<1>2. AnnotationCount >= 4
  BY <1>1 DEF AnnotationCount, MapInv
<1>3. AnnotationCount \in Nat
  BY <1>1 DEF AnnotationCount, MapInv
<1>4. QED
  BY <1>2, <1>3 DEF RoomOnMap

\* What a step may do to the annotations: put one user there, put a user and
\* a meeting point there if there is room, or nothing.
LEMMA AnnotationStep ==
    ASSUME [Next]_vars
    PROVE  \/ \E user : /\ RoomOnMap
                        /\ shown' = shown \cup {user} /\ points' = points + 1
           \/ \E user : shown' = shown \cup {user} /\ points' = points
           \/ UNCHANGED <<shown, points>>
<1>1. CASE UNCHANGED vars
  BY <1>1 DEF vars, mapVars
<1>2. CASE Blocks
  <2>1. CASE RunPlace
    BY <2>1 DEF RunPlace
  <2>2. CASE RunMoveTo
    BY <2>2 DEF RunMoveTo
  <2>3. CASE RunOpen \/ RunEntered \/ RunMatch \/ RunMoved \/ RunAnnotate
    BY <2>3 DEF RunOpen, RunEntered, RunMatch, RunMoved, RunAnnotate, mapVars
  <2>4. QED
    BY <1>2, <2>1, <2>2, <2>3 DEF Blocks
<1>3. CASE Enters
  BY <1>3 DEF Enters, Enter, mapVars
<1>4. CASE Replies
  BY <1>4 DEF Replies, Reply
<1>5. CASE World
  BY <1>5 DEF World, Register, Move, mapVars
<1>6. CASE DidUpdateLocations \/ ShowUserLocation
  BY <1>6 DEF DidUpdateLocations, ShowUserLocation, mapVars
<1>7. QED
  BY <1>1, <1>2, <1>3, <1>4, <1>5, <1>6 DEF Next

LEMMA MapInit == Init => MapInv
  BY FS_EmptySet DEF Init, MapInv

LEMMA MapStep == MapInv /\ [Next]_vars => MapInv'
<1>. SUFFICES ASSUME MapInv, [Next]_vars
              PROVE  MapInv'
  OBVIOUS
<1>1. ASSUME NEW user
      PROVE  IsFiniteSet(shown \cup {user}) /\ shown \cup {user} # {}
  BY FS_AddElement DEF MapInv
<1>2. CASE UNCHANGED <<shown, points>>
  BY <1>2 DEF MapInv
<1>3. ASSUME NEW user, shown' = shown \cup {user}, points' \in {points, points + 1}
      PROVE  MapInv'
  <2>1. IsFiniteSet(shown') /\ shown' # {}
    BY <1>1, <1>3
  <2>2. points' \in Nat
    BY <1>3 DEF MapInv
  <2>3. QED
    BY <2>1, <2>2 DEF MapInv
<1>4. QED
  BY <1>2, <1>3, AnnotationStep

\* The invariant of the annotations.
LEMMA MapCorrect == Spec => []MapInv
  BY MapInit, MapStep, PTL DEF Spec

\* However many completions are in flight, a map that shows the device and a
\* meeting point gets no second one.
THEOREM OnePointTheorem == Spec => OneMeetingPoint
<1>1. ASSUME MapInv, [Next]_vars, located, points >= 1
      PROVE  points' = points
  BY <1>1, FullMap, AnnotationStep
<1>2. MapInv /\ [Next]_vars => [(located /\ points >= 1) => points' = points]_vars
  BY <1>1
<1>3. QED
  BY <1>2, MapCorrect, PTL DEF Spec, OneMeetingPoint

----------------------------------------------------------------------------
(* The closest user exists, and lists.                                     *)

\* Natural numbers are well ordered.
LEMMA SmallestMember ==
    ASSUME NEW T \in SUBSET Nat, T # {}
    PROVE  \E m \in T : \A k \in T : m <= k
<1>1. PICK m \in T : \A k \in T : <<k, m>> \notin OpToRel(<, Nat)
  BY WFMin, NatLessThanWellFounded, Zenon
<1>2. \A k \in T : ~(k < m)
  BY <1>1, Zenon DEF OpToRel
<1>3. QED
  BY <1>2

\* A list of distances that is not empty has a first nearest: the smallest
\* distance, and the smallest index of it.
LEMMA FirstNearestExists ==
    ASSUME NEW d \in Seq(Nat), d # << >>
    PROVE  FirstNearest(d) \in 1 .. Len(d)
<1> DEFINE D == {d[j] : j \in 1 .. Len(d)}
<1>1. D \in SUBSET Nat
  OBVIOUS
<1>2. d[1] \in D
  <2>1. 1 \in 1 .. Len(d)
    OBVIOUS
  <2>2. QED
    BY <2>1
<1>3. PICK m \in D : \A y \in D : m <= y
  <2>. HIDE DEF D
  <2>. QED
    BY <1>1, <1>2, SmallestMember
<1> DEFINE I == {j \in 1 .. Len(d) : d[j] = m}
<1>4. I \in SUBSET Nat
  OBVIOUS
<1>5. PICK j \in 1 .. Len(d) : d[j] = m
  BY <1>3
<1>6. PICK i \in I : \A k \in I : i <= k
  <2>1. j \in I
    BY <1>5
  <2>. HIDE DEF I
  <2>. QED
    BY <1>4, <2>1, SmallestMember
<1>7. m \in Nat /\ i \in 1 .. Len(d) /\ d[i] = m
  BY <1>1, <1>3
<1>8. \A k \in 1 .. Len(d) : m <= d[k] /\ d[k] \in Nat
  BY <1>3
<1>9. ASSUME NEW k \in 1 .. i - 1
      PROVE  m < d[k]
  <2>1. k \in 1 .. Len(d) /\ ~(i <= k)
    BY <1>7
  <2>2. d[k] # m
    BY <1>6, <2>1
  <2>3. QED
    BY <1>7, <1>8, <2>1, <2>2
<1>10. IsFirstNearest(d, i)
  BY <1>7, <1>8, <1>9 DEF IsFirstNearest
<1>11. QED
  BY <1>7, <1>10 DEF FirstNearest

\* findClosestUser of an array that is not empty returns one of its objects.
LEMMA FindClosestType ==
    ASSUME NEW array \in Seq(User), array # << >>
    PROVE  FindClosest(array) \in 1 .. Len(array)
<1> DEFINE d == [i \in 1 .. Len(array) |-> Dist[Home, array[i].at]]
<1>1. \A i \in 1 .. Len(array) : Dist[Home, array[i].at] \in Nat
  <2>1. \A x \in User : x.at \in Positions
    BY DEF User
  <2>2. \A i \in 1 .. Len(array) : array[i] \in User
    OBVIOUS
  <2>3. \A i \in 1 .. Len(array) : array[i].at \in Positions
    BY <2>1, <2>2
  <2>4. QED
    BY <2>3, DistAssumption, PlacesAssumption
<1>2. d \in Seq(Nat) /\ Len(d) = Len(array) /\ d # << >>
  <2>1. Len(array) \in Nat /\ Len(array) # 0
    OBVIOUS
  <2>2. d \in [1 .. Len(array) -> Nat]
    BY <1>1
  <2>. HIDE DEF d
  <2>3. d \in Seq(Nat) /\ Len(d) = Len(array)
    BY <2>1, <2>2
  <2>4. QED
    BY <2>1, <2>3
<1>3. FirstNearest(d) \in 1 .. Len(d)
  <2>. HIDE DEF d
  <2>. QED
    BY <1>2, FirstNearestExists
<1>4. QED
  BY <1>2, <1>3 DEF FindClosest, FirstClosest

\* What is in a list with one more member, or without the first one.
LEMMA HasAppend ==
    ASSUME NEW T, NEW s \in Seq(T), NEW x, NEW S
    PROVE  Has(Append(s, x), S) <=> Has(s, S) \/ x \in S
<1>1. /\ Len(Append(s, x)) = Len(s) + 1 /\ Len(s) \in Nat
      /\ Append(s, x)[Len(s) + 1] = x
      /\ \A k \in 1 .. Len(s) : Append(s, x)[k] = s[k]
  OBVIOUS
<1>2. QED
  BY <1>1 DEF Has

LEMMA HasTail ==
    ASSUME NEW T, NEW s \in Seq(T), s # << >>, NEW S
    PROVE  Has(s, S) <=> Head(s) \in S \/ Has(Tail(s), S)
<1>1. /\ Len(s) \in Nat /\ Len(s) >= 1 /\ Len(Tail(s)) = Len(s) - 1
      /\ Head(s) = s[1]
      /\ \A k \in 1 .. Len(s) - 1 : Tail(s)[k] = s[k + 1]
  OBVIOUS
<1>2. ASSUME NEW k \in 1 .. Len(s), s[k] \in S, k # 1
      PROVE  Has(Tail(s), S)
  <2>1. k - 1 \in 1 .. Len(s) - 1 /\ (k - 1) + 1 = k
    BY <1>1, <1>2
  <2>2. QED
    BY <1>1, <1>2, <2>1 DEF Has
<1>3. ASSUME NEW k \in 1 .. Len(s) - 1, Tail(s)[k] \in S
      PROVE  Has(s, S)
  <2>1. k + 1 \in 1 .. Len(s) /\ s[k + 1] \in S
    BY <1>1, <1>3
  <2>2. QED
    BY <2>1 DEF Has
<1>4. QED
  BY <1>1, <1>2, <1>3 DEF Has

LEMMA HasConcat ==
    ASSUME NEW T, NEW s \in Seq(T), NEW r \in Seq(T), NEW S,
           \A k \in 1 .. Len(r) : r[k] \notin S
    PROVE  Has(s \o r, S) <=> Has(s, S)
<1>1. /\ Len(s \o r) = Len(s) + Len(r) /\ Len(s) \in Nat /\ Len(r) \in Nat
      /\ \A k \in 1 .. Len(s) : (s \o r)[k] = s[k]
      /\ \A k \in 1 .. Len(r) : (s \o r)[Len(s) + k] = r[k]
  OBVIOUS
<1>2. ASSUME NEW k \in 1 .. Len(s \o r), (s \o r)[k] \in S
      PROVE  k \in 1 .. Len(s)
  <2>1. SUFFICES ASSUME k > Len(s)
                 PROVE  FALSE
    BY <1>1
  <2>2. k - Len(s) \in 1 .. Len(r) /\ Len(s) + (k - Len(s)) = k
    BY <1>1, <2>1
  <2>3. QED
    BY <1>1, <1>2, <2>2
<1>3. \A k \in 1 .. Len(s) : k \in 1 .. Len(s \o r)
  BY <1>1
<1>4. QED
  BY <1>1, <1>2, <1>3 DEF Has

\* Only the request that is answered leaves the list.
LEMMA HasWithout ==
    ASSUME NEW T, pending \in Seq(T), NEW i \in 1 .. Len(pending)
    PROVE  /\ WithoutRequest(i) \in Seq(T)
           /\ \A S : Has(pending, S) <=> pending[i] \in S \/ Has(WithoutRequest(i), S)
<1> DEFINE w == WithoutRequest(i)
           n == Len(pending)
<1>1. n \in Nat /\ n >= 1 /\ n - 1 \in Nat /\ i \in 1 .. n
  OBVIOUS
<1>2. \A j \in 1 .. n - 1 : w[j] = IF j < i THEN pending[j] ELSE pending[j + 1]
  BY DEF WithoutRequest
<1>3. \A j \in 1 .. n - 1 : w[j] \in T
  BY <1>1, <1>2
<1>4. w \in Seq(T) /\ Len(w) = n - 1
  BY <1>1, <1>3 DEF WithoutRequest
<1>5. ASSUME NEW S, Has(pending, S), pending[i] \notin S
      PROVE  Has(w, S)
  <2>1. PICK k \in 1 .. n : pending[k] \in S
    BY <1>5 DEF Has
  <2>2. k # i
    BY <1>5, <2>1
  <2>3. CASE k < i
    <3>1. k \in 1 .. n - 1 /\ w[k] = pending[k]
      BY <1>1, <1>2, <2>3
    <3>2. QED
      BY <1>4, <2>1, <3>1 DEF Has
  <2>4. CASE k > i
    <3>1. k - 1 \in 1 .. n - 1 /\ ~(k - 1 < i) /\ (k - 1) + 1 = k
      BY <1>1, <2>4
    <3>2. w[k - 1] = pending[k]
      BY <1>2, <3>1
    <3>3. QED
      BY <1>4, <2>1, <3>1, <3>2 DEF Has
  <2>5. QED
    BY <1>1, <2>2, <2>3, <2>4
<1>6. ASSUME NEW S, Has(w, S)
      PROVE  Has(pending, S)
  <2>1. PICK k \in 1 .. n - 1 : w[k] \in S
    BY <1>4, <1>6 DEF Has
  <2>2. k \in 1 .. n /\ k + 1 \in 1 .. n
    BY <1>1
  <2>3. QED
    BY <1>2, <2>1, <2>2 DEF Has
<1>7. QED
  BY <1>4, <1>5, <1>6 DEF Has

----------------------------------------------------------------------------
(* Type correctness.  A completion holds an index of usersArray, so types  *)
(* are kept only together with the objects that blocks and requests hold.  *)

TypeInv == TypeOK /\ ObjectsExist

LEMMA SeqWidens ==
    ASSUME NEW S, NEW T, S \subseteq T, NEW s \in Seq(S)
    PROVE  s \in Seq(T)
<1>1. Len(s) \in Nat /\ \A k \in 1 .. Len(s) : s[k] \in T
  OBVIOUS
<1>2. s \in [1 .. Len(s) -> T]
  BY <1>1
<1>3. QED
  BY <1>1, <1>2

LEMMA AppendType ==
    ASSUME NEW S, NEW s \in Seq(S), NEW x \in S
    PROVE  Append(s, x) \in Seq(S)
  OBVIOUS

\* The fields a block has by its kind.
LEMMA BlockFields ==
    ASSUME NEW b \in Block
    PROVE  /\ b.kind \in {"open", "entered"} => b.known \subseteq Others
           /\ b.kind \in {"entered", "moved", "match"} => b.key \in Others
           /\ b.kind \in {"entered", "moveTo"} => b.at \in Positions
           /\ b.kind \in {"match", "annotate", "place"} => b.user \in Nat
  BY DEF Block

LEMMA RequestFields ==
    ASSUME NEW r \in Request
    PROVE  /\ r.kind \in {"location", "cafes"}
           /\ r.kind = "location" => r.key \in Others
           /\ r.kind = "cafes" => r.user \in Nat
  BY DEF Request

\* The blocks and requests the actions make.
LEMMA NewBlocks ==
    ASSUME NEW n \in Nat
    PROVE  /\ \A known \in SUBSET Others : [kind |-> "open", known |-> known] \in BlocksAbout(n)
           /\ \A key \in Others : \A at \in Positions : \A known \in SUBSET Others :
                 [kind |-> "entered", key |-> key, at |-> at, known |-> known] \in BlocksAbout(n)
           /\ \A key \in Others : [kind |-> "moved", key |-> key] \in BlocksAbout(n)
           /\ \A at \in Positions : [kind |-> "moveTo", at |-> at] \in BlocksAbout(n)
           /\ \A key \in Others : \A user \in 1 .. n :
                 [kind |-> "match", key |-> key, user |-> user] \in BlocksAbout(n)
           /\ \A user \in 1 .. n : [kind |-> "annotate", user |-> user] \in BlocksAbout(n)
           /\ \A user \in 1 .. n : [kind |-> "place", user |-> user] \in BlocksAbout(n)
  BY DEF BlocksAbout, Block

LEMMA NewRequests ==
    ASSUME NEW n \in Nat
    PROVE  /\ \A key \in Others : [kind |-> "location", key |-> key] \in RequestsAbout(n)
           /\ \A user \in 1 .. n : [kind |-> "cafes", user |-> user] \in RequestsAbout(n)
  BY DEF RequestsAbout, Request

\* The array may grow under the blocks and the requests.
LEMMA AboutMore ==
    ASSUME NEW n \in Nat, NEW m \in Nat, n <= m
    PROVE  /\ \A q \in Seq(BlocksAbout(n)) : q \in Seq(BlocksAbout(m))
           /\ \A r \in Seq(RequestsAbout(n)) : r \in Seq(RequestsAbout(m))
<1>1. \A user \in 1 .. n : user \in 1 .. m
  OBVIOUS
<1>2. BlocksAbout(n) \subseteq BlocksAbout(m)
  BY <1>1 DEF BlocksAbout
<1>3. RequestsAbout(n) \subseteq RequestsAbout(m)
  BY <1>1 DEF RequestsAbout
<1>4. QED
  BY <1>2, <1>3, SeqWidens

\* What the block at the head of the queue is made of, and what is left.
LEMMA HeadType ==
    ASSUME TypeInv, mainQ # << >>
    PROVE  /\ Head(mainQ) \in Block
           /\ Head(mainQ) \in BlocksAbout(Len(usersArray))
           /\ Tail(mainQ) \in Seq(BlocksAbout(Len(usersArray)))
           /\ Head(mainQ).kind \in {"match", "annotate", "place"} =>
                 Head(mainQ).user \in 1 .. Len(usersArray)
<1>1. mainQ \in Seq(BlocksAbout(Len(usersArray)))
  BY DEF TypeInv, ObjectsExist
<1>2. /\ Head(mainQ) \in BlocksAbout(Len(usersArray))
      /\ Tail(mainQ) \in Seq(BlocksAbout(Len(usersArray)))
  BY <1>1
<1>3. QED
  BY <1>2 DEF BlocksAbout

\* Everything but the queue and the requests.
StateTyped ==
    /\ where \in [Others -> Positions]
    /\ registered \subseteq Others
    /\ queries \in Seq(Query)
    /\ usersArray \in Seq(User)
    /\ closestUser \in 0 .. Len(usersArray)
    /\ matchedUserUUID \in Others \cup {NoUser}
    /\ shown \subseteq 1 .. Len(usersArray)
    /\ points \in Nat
    /\ located \in BOOLEAN
    /\ noCafes \in BOOLEAN
    /\ updates \in 0 .. MaxUpdates
    /\ moves \in 0 .. MaxMoves

LEMMA TypeParts ==
    ASSUME TypeInv
    PROVE  /\ StateTyped
           /\ Len(usersArray) \in Nat
           /\ mainQ \in Seq(BlocksAbout(Len(usersArray)))
           /\ pending \in Seq(RequestsAbout(Len(usersArray)))
  BY DEF TypeInv, TypeOK, StateTyped, ObjectsExist

\* What a step has to show of the queue and the requests.
LEMMA TypeAfter ==
    ASSUME StateTyped',
           mainQ' \in Seq(BlocksAbout(Len(usersArray'))),
           pending' \in Seq(RequestsAbout(Len(usersArray')))
    PROVE  TypeInv'
<1>1. mainQ' \in Seq(Block)
  <2>1. BlocksAbout(Len(usersArray')) \subseteq Block
    BY DEF BlocksAbout
  <2>2. QED
    BY <2>1, SeqWidens
<1>2. pending' \in Seq(Request)
  <2>1. RequestsAbout(Len(usersArray')) \subseteq Request
    BY DEF RequestsAbout
  <2>2. QED
    BY <2>1, SeqWidens
<1>3. TypeOK'
  BY <1>1, <1>2 DEF StateTyped, TypeOK
<1>4. ObjectsExist'
  BY DEF ObjectsExist
<1>5. QED
  BY <1>3, <1>4 DEF TypeInv

LEMMA RunOpenType == TypeInv /\ RunOpen => TypeInv'
<1> SUFFICES ASSUME TypeInv, RunOpen
             PROVE  TypeInv'
  OBVIOUS
<1>1. Head(mainQ) \in Block /\ Head(mainQ).kind = "open"
  BY HeadType DEF RunOpen, Next_is
<1>2. Head(mainQ).known \subseteq Others
  BY <1>1, BlockFields
<1>3. PICK q \in Query : queries' = Append(queries, q)
  <2>1. PICK p \in Positions :
          queries' = Append(queries, [center |-> p, known |-> Head(mainQ).known, inside |-> {}])
    BY DEF RunOpen
  <2>2. [center |-> p, known |-> Head(mainQ).known, inside |-> {}] \in Query
    BY <1>2 DEF Query
  <2>3. QED
    BY <2>1, <2>2
<1>4. queries' \in Seq(Query)
  BY <1>3, TypeParts DEF StateTyped
<1>5. mainQ' \in Seq(BlocksAbout(Len(usersArray)))
  BY HeadType DEF RunOpen, Next_is
<1>6. UNCHANGED <<worldVars, pending, matchVars, mapVars, updates>>
  BY DEF RunOpen
<1>7. StateTyped'
  BY <1>4, <1>6, TypeParts DEF StateTyped, worldVars, matchVars, mapVars
<1>8. QED
  BY <1>5, <1>6, <1>7, TypeParts, TypeAfter DEF matchVars

LEMMA RunEnteredType == TypeInv /\ RunEntered => TypeInv'
<1> SUFFICES ASSUME TypeInv, RunEntered
             PROVE  TypeInv'
  OBVIOUS
<1> DEFINE b == Head(mainQ)
           n == Len(usersArray)
<1>1. b \in Block /\ b.kind = "entered" /\ Tail(mainQ) \in Seq(BlocksAbout(n))
  BY HeadType DEF RunEntered, Next_is
<1>2. b.key \in Others /\ b.at \in Positions
  BY <1>1, BlockFields
<1>3. UNCHANGED <<worldVars, queries, pending, closestUser, matchedUserUUID, mapVars, updates>>
  BY DEF RunEntered
<1>4. CASE UNCHANGED usersArray /\ mainQ' = Tail(mainQ)
  <2>1. StateTyped'
    BY <1>3, <1>4, TypeParts DEF StateTyped, worldVars, mapVars
  <2>2. QED
    BY <1>1, <1>3, <1>4, <2>1, TypeParts, TypeAfter
<1>5. CASE /\ usersArray' = AddNearbyUser(b)
           /\ mainQ' \in {Tail(mainQ),
                         Append(Tail(mainQ), [kind |-> "match", key |-> b.key,
                                              user |-> FindClosest(AddNearbyUser(b))])}
  <2>1. AddNearbyUser(b) \in Seq(User) /\ Len(AddNearbyUser(b)) = n + 1 /\ n \in Nat
    <3>1. [key |-> b.key, at |-> b.at] \in User
      BY <1>2 DEF User
    <3>2. QED
      BY <3>1, TypeParts DEF AddNearbyUser, StateTyped
  <2>2. AddNearbyUser(b) # << >> /\ n <= n + 1
    BY <2>1
  <2>3. FindClosest(AddNearbyUser(b)) \in 1 .. n + 1
    BY <2>1, <2>2, FindClosestType
  <2>4. /\ Tail(mainQ) \in Seq(BlocksAbout(n + 1))
        /\ pending \in Seq(RequestsAbout(n + 1))
    BY <1>1, <2>1, <2>2, AboutMore, TypeParts
  <2>5. [kind |-> "match", key |-> b.key, user |-> FindClosest(AddNearbyUser(b))]
          \in BlocksAbout(n + 1)
    BY <1>2, <2>1, <2>3, NewBlocks
  <2>6. mainQ' \in Seq(BlocksAbout(n + 1))
    BY <1>5, <2>4, <2>5, AppendType
  <2>7. closestUser \in 0 .. n + 1 /\ shown \subseteq 1 .. n + 1
    BY <2>1, TypeParts DEF StateTyped
  <2>8. StateTyped'
    BY <1>3, <1>5, <2>1, <2>7, TypeParts DEF StateTyped, worldVars, mapVars
  <2>9. QED
    BY <1>3, <1>5, <2>1, <2>4, <2>6, <2>8, TypeAfter
<1>6. QED
  BY <1>4, <1>5 DEF RunEntered

LEMMA RunMatchType == TypeInv /\ RunMatch => TypeInv'
<1> SUFFICES ASSUME TypeInv, RunMatch
             PROVE  TypeInv'
  OBVIOUS
<1> DEFINE b == Head(mainQ)
           n == Len(usersArray)
<1>1. b \in Block /\ b.kind = "match" /\ b.user \in 1 .. n /\ Tail(mainQ) \in Seq(BlocksAbout(n))
  BY HeadType DEF RunMatch, Next_is
<1>2. b.key \in Others
  BY <1>1, BlockFields
<1>3. usersArray \in Seq(User) /\ usersArray # << >> /\ n \in Nat
  <2>1. usersArray \in Seq(User) /\ n \in Nat
    BY TypeParts DEF StateTyped
  <2>2. n # 0
    BY <1>1, <2>1
  <2>3. QED
    BY <2>1, <2>2
<1>4. [kind |-> "annotate", user |-> FindClosest(usersArray)] \in BlocksAbout(n)
  BY <1>3, FindClosestType, NewBlocks
<1>5. /\ closestUser' = b.user /\ matchedUserUUID' = b.key
      /\ mainQ' \in {Tail(mainQ),
                    Append(Tail(mainQ), [kind |-> "annotate", user |-> FindClosest(usersArray)])}
      /\ UNCHANGED <<worldVars, queries, pending, usersArray, mapVars, updates>>
  BY DEF RunMatch
<1>6. mainQ' \in Seq(BlocksAbout(n))
  BY <1>1, <1>4, <1>5, AppendType
<1>7. closestUser' \in 0 .. n
  BY <1>1, <1>3, <1>5
<1>8. StateTyped'
  BY <1>2, <1>5, <1>7, TypeParts DEF StateTyped, worldVars, mapVars
<1>9. QED
  BY <1>5, <1>6, <1>8, TypeParts, TypeAfter

LEMMA RunMovedType == TypeInv /\ RunMoved => TypeInv'
<1> SUFFICES ASSUME TypeInv, RunMoved
             PROVE  TypeInv'
  OBVIOUS
<1> DEFINE n == Len(usersArray)
           r == [kind |-> "location", key |-> matchedUserUUID]
<1>1. Head(mainQ) \in Block /\ Head(mainQ).kind = "moved" /\ Tail(mainQ) \in Seq(BlocksAbout(n))
  BY HeadType DEF RunMoved, Next_is
<1>2. Head(mainQ).key \in Others
  BY <1>1, BlockFields
<1>3. pending' = (IF Head(mainQ).key = matchedUserUUID THEN Append(pending, r) ELSE pending)
  BY DEF RunMoved, IsTheMatch
<1>4. Head(mainQ).key = matchedUserUUID => r \in RequestsAbout(n)
  BY <1>2, TypeParts, NewRequests
<1>5. pending' \in Seq(RequestsAbout(n))
  BY <1>3, <1>4, TypeParts, AppendType
<1>6. mainQ' = Tail(mainQ) /\ UNCHANGED <<worldVars, queries, matchVars, mapVars, updates>>
  BY DEF RunMoved
<1>7. StateTyped'
  BY <1>6, TypeParts DEF StateTyped, worldVars, matchVars, mapVars
<1>8. QED
  BY <1>1, <1>5, <1>6, <1>7, TypeAfter DEF matchVars

LEMMA RunMoveToType == TypeInv /\ RunMoveTo => TypeInv'
<1> SUFFICES ASSUME TypeInv, RunMoveTo
             PROVE  TypeInv'
  OBVIOUS
<1> DEFINE n == Len(usersArray)
<1>1. Head(mainQ) \in Block /\ Head(mainQ).kind = "moveTo" /\ Tail(mainQ) \in Seq(BlocksAbout(n))
  BY HeadType DEF RunMoveTo, Next_is
<1>2. Head(mainQ).at \in Positions
  BY <1>1, BlockFields
<1>3. /\ mainQ' = Tail(mainQ)
      /\ UNCHANGED <<worldVars, queries, pending, closestUser, matchedUserUUID, points, located, noCafes, updates>>
  BY DEF RunMoveTo
<1>4. /\ usersArray' \in Seq(User) /\ Len(usersArray') = n
      /\ shown' \subseteq 1 .. n
  <2>1. CASE closestUser # 0
    <3>1. closestUser \in 1 .. n /\ usersArray \in Seq(User) /\ shown \subseteq 1 .. n
      BY <2>1, TypeParts DEF StateTyped
    <3>2. usersArray[closestUser] \in User
      BY <3>1
    <3>3. [usersArray[closestUser] EXCEPT !.at = Head(mainQ).at] \in User
      BY <1>2, <3>2 DEF User
    <3>4. /\ usersArray' = [usersArray EXCEPT ![closestUser] =
                             [usersArray[closestUser] EXCEPT !.at = Head(mainQ).at]]
          /\ shown' = shown \cup {closestUser}
      BY <2>1, <3>1 DEF RunMoveTo
    <3>5. usersArray' \in Seq(User) /\ Len(usersArray') = n
      BY <3>1, <3>3, <3>4
    <3>6. QED
      BY <3>1, <3>4, <3>5
  <2>2. CASE closestUser = 0
    BY <2>2, TypeParts DEF RunMoveTo, StateTyped
  <2>3. QED
    BY <2>1, <2>2
<1>5. StateTyped'
  BY <1>3, <1>4, TypeParts DEF StateTyped, worldVars
<1>6. QED
  BY <1>1, <1>3, <1>4, <1>5, TypeParts, TypeAfter

LEMMA RunAnnotateType == TypeInv /\ RunAnnotate => TypeInv'
<1> SUFFICES ASSUME TypeInv, RunAnnotate
             PROVE  TypeInv'
  OBVIOUS
<1> DEFINE n == Len(usersArray)
           b == Head(mainQ)
<1>1. b.user \in 1 .. n /\ Tail(mainQ) \in Seq(BlocksAbout(n)) /\ n \in Nat
  BY HeadType, TypeParts DEF RunAnnotate, Next_is
<1>2. /\ closestUser' = b.user
      /\ pending' = Append(pending, [kind |-> "cafes", user |-> b.user])
      /\ mainQ' = Tail(mainQ)
      /\ UNCHANGED <<worldVars, queries, usersArray, matchedUserUUID, mapVars, updates>>
  BY DEF RunAnnotate
<1>3. [kind |-> "cafes", user |-> b.user] \in RequestsAbout(n)
  BY <1>1, NewRequests
<1>4. pending' \in Seq(RequestsAbout(n))
  BY <1>2, <1>3, TypeParts, AppendType
<1>5. closestUser' \in 0 .. n
  BY <1>1, <1>2
<1>6. StateTyped'
  BY <1>2, <1>5, TypeParts DEF StateTyped, worldVars, mapVars
<1>7. QED
  BY <1>1, <1>2, <1>4, <1>6, TypeAfter

LEMMA RunPlaceType == TypeInv /\ RunPlace => TypeInv'
<1> SUFFICES ASSUME TypeInv, RunPlace
             PROVE  TypeInv'
  OBVIOUS
<1> DEFINE n == Len(usersArray)
<1>1. Head(mainQ).user \in 1 .. n /\ Tail(mainQ) \in Seq(BlocksAbout(n))
  BY HeadType DEF RunPlace, Next_is
<1>2. /\ mainQ' = Tail(mainQ)
      /\ UNCHANGED <<worldVars, queries, pending, matchVars, located, noCafes, updates>>
      /\ \/ shown' = shown \cup {Head(mainQ).user} /\ points' = points + 1
         \/ UNCHANGED <<shown, points>>
  BY DEF RunPlace
<1>3. shown' \subseteq 1 .. n /\ points' \in Nat
  BY <1>1, <1>2, TypeParts DEF StateTyped
<1>4. StateTyped'
  BY <1>2, <1>3, TypeParts DEF StateTyped, worldVars, matchVars
<1>5. QED
  BY <1>1, <1>2, <1>4, TypeParts, TypeAfter DEF matchVars

LEMMA EnterType ==
    ASSUME TypeInv, NEW i \in 1 .. Len(queries), NEW v \in Others, Enter(i, v)
    PROVE  TypeInv'
<1> DEFINE n == Len(usersArray)
           b == [kind |-> "entered", key |-> v, at |-> where[v], known |-> queries[i].known]
<1>1. queries \in Seq(Query) /\ where[v] \in Positions
  BY TypeParts DEF StateTyped
<1>2. queries[i] \in Query
  BY <1>1
<1>3. [queries[i] EXCEPT !.inside = queries[i].inside \cup {v}] \in Query
      /\ queries[i].known \in SUBSET Others
  BY <1>2 DEF Query
<1>4. /\ queries' = [queries EXCEPT ![i] = [queries[i] EXCEPT !.inside = queries[i].inside \cup {v}]]
      /\ mainQ' = Append(mainQ, b)
      /\ UNCHANGED <<worldVars, pending, matchVars, mapVars, updates>>
  BY <1>1 DEF Enter
<1>5. queries' \in Seq(Query)
  BY <1>1, <1>3, <1>4
<1>6. b \in BlocksAbout(n)
  BY <1>1, <1>3, NewBlocks, TypeParts
<1>7. mainQ' \in Seq(BlocksAbout(n))
  BY <1>4, <1>6, AppendType, TypeParts
<1>8. StateTyped'
  BY <1>4, <1>5, TypeParts DEF StateTyped, worldVars, matchVars, mapVars
<1>9. QED
  BY <1>4, <1>7, <1>8, TypeParts, TypeAfter DEF matchVars

LEMMA MoveType ==
    ASSUME TypeInv, NEW v \in Others, NEW p \in Positions, Move(v, p)
    PROVE  TypeInv'
<1> DEFINE n == Len(usersArray)
           had == {i \in 1 .. Len(queries) : v \in queries[i].inside}
           has == {i \in had : Within(queries[i].center, p)}
           reports == [i \in 1 .. Cardinality(has) |-> [kind |-> "moved", key |-> v]]
           left(i) == IF i \in had \ has
                      THEN [queries[i] EXCEPT !.inside = queries[i].inside \ {v}]
                      ELSE queries[i]
<1>1. queries \in Seq(Query) /\ Len(queries) \in Nat
  BY TypeParts DEF StateTyped
<1>2. /\ moves < MaxMoves /\ moves' = moves + 1
      /\ where' = [where EXCEPT ![v] = p]
      /\ queries' = [i \in 1 .. Len(queries) |-> left(i)]
      /\ mainQ' = mainQ \o reports
      /\ UNCHANGED <<registered, pending, matchVars, mapVars, updates>>
  BY DEF Move
<1>3. Cardinality(has) \in Nat
  <2>1. IsFiniteSet(1 .. Len(queries))
    BY <1>1, FS_Interval
  <2>2. has \in SUBSET (1 .. Len(queries))
    OBVIOUS
  <2>3. QED
    BY <2>1, <2>2, FS_Subset, FS_CardinalityType
<1>4. reports \in Seq(BlocksAbout(n))
  <2>1. [kind |-> "moved", key |-> v] \in BlocksAbout(n)
    BY NewBlocks, TypeParts
  <2>. HIDE DEF has
  <2>2. QED
    BY <1>3, <2>1
<1>5. mainQ' \in Seq(BlocksAbout(n))
  <2>. HIDE DEF reports
  <2>. QED
    BY <1>2, <1>4, TypeParts
<1>6. queries' \in Seq(Query)
  <2>1. \A i \in 1 .. Len(queries) : queries[i] \in Query
    BY <1>1
  <2>2. \A i \in 1 .. Len(queries) : left(i) \in Query
    BY <2>1 DEF Query
  <2>. HIDE DEF left
  <2>3. QED
    BY <1>1, <1>2, <2>2
<1>7. where' \in [Others -> Positions] /\ moves' \in 0 .. MaxMoves
  BY <1>2, TypeParts, BoundsAssumption DEF StateTyped
<1>8. StateTyped'
  <2>. HIDE DEF left, reports
  <2>. QED
    BY <1>2, <1>6, <1>7, TypeParts DEF StateTyped, matchVars, mapVars
<1>9. QED
  BY <1>2, <1>5, <1>8, TypeParts, TypeAfter DEF matchVars

\* What an answer leaves: the request is gone, and a completion is queued, or
\* the search has failed.
LEMMA ReplyStep ==
    ASSUME TypeInv, NEW i \in 1 .. Len(pending), Reply(i)
    PROVE  /\ pending' = WithoutRequest(i)
           /\ UNCHANGED <<worldVars, queries, matchVars, shown, points, located, updates>>
           /\ \/ /\ pending[i].kind = "location" /\ UNCHANGED noCafes
                 /\ \E at \in Positions : mainQ' = Append(mainQ, [kind |-> "moveTo", at |-> at])
              \/ /\ pending[i].kind = "cafes" /\ UNCHANGED noCafes
                 /\ \E user \in 1 .. Len(usersArray) :
                       mainQ' = Append(mainQ, [kind |-> "place", user |-> user])
              \/ /\ pending[i].kind = "cafes"
                 /\ noCafes' = TRUE /\ UNCHANGED mainQ
<1>1. pending[i] \in RequestsAbout(Len(usersArray))
  BY TypeParts
<1>2. /\ pending[i] \in Request
      /\ pending[i].kind = "cafes" => pending[i].user \in 1 .. Len(usersArray)
  BY <1>1 DEF RequestsAbout
<1>3. pending[i].kind = "location" => where[pending[i].key] \in Positions
  BY <1>2, RequestFields, TypeParts DEF StateTyped
<1>4. CASE LocationReply(pending[i])
  BY <1>3, <1>4 DEF Reply, LocationReply
<1>5. CASE CafesFound(pending[i])
  BY <1>2, <1>5 DEF Reply, CafesFound
<1>6. CASE NoCafes(pending[i])
  BY <1>6 DEF Reply, NoCafes
<1>7. QED
  BY <1>4, <1>5, <1>6 DEF Reply

LEMMA ReplyType ==
    ASSUME TypeInv, NEW i \in 1 .. Len(pending), Reply(i)
    PROVE  TypeInv'
<1> DEFINE n == Len(usersArray)
<1>1. pending' \in Seq(RequestsAbout(n))
  BY TypeParts, HasWithout, ReplyStep
<1>2. mainQ' \in Seq(BlocksAbout(n))
  <2>1. \A at \in Positions : [kind |-> "moveTo", at |-> at] \in BlocksAbout(n)
    BY NewBlocks, TypeParts
  <2>2. \A user \in 1 .. n : [kind |-> "place", user |-> user] \in BlocksAbout(n)
    BY NewBlocks, TypeParts
  <2>3. \A b \in BlocksAbout(n) : Append(mainQ, b) \in Seq(BlocksAbout(n))
    BY TypeParts, AppendType
  <2>4. QED
    BY <2>1, <2>2, <2>3, TypeParts, ReplyStep
<1>3. noCafes' \in BOOLEAN
  BY ReplyStep, TypeParts DEF StateTyped
<1>4. StateTyped'
  <2>1. UNCHANGED <<worldVars, queries, matchVars, shown, points, located, updates>>
    BY ReplyStep
  <2>2. QED
    BY <1>3, <2>1, TypeParts DEF StateTyped, worldVars, matchVars
<1>5. QED
  BY <1>1, <1>2, <1>4, ReplyStep, TypeAfter DEF matchVars

LEMMA DidUpdateLocationsType == TypeInv /\ DidUpdateLocations => TypeInv'
<1> SUFFICES ASSUME TypeInv, DidUpdateLocations
             PROVE  TypeInv'
  OBVIOUS
<1>1. /\ updates < MaxUpdates /\ updates' = updates + 1
      /\ mainQ' = Append(mainQ, [kind |-> "open", known |-> registered])
      /\ UNCHANGED <<worldVars, queries, pending, matchVars, mapVars>>
  BY DEF DidUpdateLocations
<1>2. [kind |-> "open", known |-> registered] \in BlocksAbout(Len(usersArray))
  BY NewBlocks, TypeParts DEF StateTyped
<1>3. mainQ' \in Seq(BlocksAbout(Len(usersArray)))
  BY <1>1, <1>2, AppendType, TypeParts
<1>4. StateTyped'
  BY <1>1, TypeParts, BoundsAssumption DEF StateTyped, worldVars, matchVars, mapVars
<1>5. QED
  BY <1>1, <1>3, <1>4, TypeParts, TypeAfter DEF matchVars

\* A registration, or the device on the map.
LEMMA RegisterType ==
    ASSUME TypeInv, NEW v \in Others, Register(v)
    PROVE  TypeInv'
<1>1. /\ moves < MaxMoves /\ moves' = moves + 1 /\ registered' = registered \cup {v}
      /\ UNCHANGED <<where, queries, mainQ, pending, matchVars, mapVars, updates>>
  BY DEF Register
<1>2. StateTyped'
  BY <1>1, TypeParts, BoundsAssumption DEF StateTyped, matchVars, mapVars
<1>3. QED
  BY <1>1, <1>2, TypeParts, TypeAfter DEF matchVars

LEMMA ShowUserLocationType == TypeInv /\ ShowUserLocation => TypeInv'
<1> SUFFICES ASSUME TypeInv, ShowUserLocation
             PROVE  TypeInv'
  OBVIOUS
<1>1. StateTyped'
  BY TypeParts DEF ShowUserLocation, StateTyped, worldVars, matchVars
<1>2. QED
  BY <1>1, TypeParts, TypeAfter DEF ShowUserLocation, matchVars

LEMMA TypeInit == Init => TypeInv
<1> SUFFICES ASSUME Init
             PROVE  TypeInv
  OBVIOUS
<1>1. Len(usersArray) = 0
  BY DEF Init
<1>2. TypeOK
  <2>1. queries \in Seq(Query) /\ mainQ \in Seq(Block) /\ pending \in Seq(Request) /\ usersArray \in Seq(User)
    BY DEF Init
  <2>2. /\ closestUser \in 0 .. Len(usersArray) /\ shown \subseteq 1 .. Len(usersArray)
        /\ updates \in 0 .. MaxUpdates /\ moves \in 0 .. MaxMoves /\ points \in Nat
    BY <1>1, BoundsAssumption DEF Init
  <2>3. QED
    BY <2>1, <2>2 DEF Init, TypeOK
<1>3. ObjectsExist
  BY DEF Init, ObjectsExist
<1>4. QED
  BY <1>2, <1>3 DEF TypeInv

LEMMA TypeStep == TypeInv /\ [Next]_vars => TypeInv'
<1> SUFFICES ASSUME TypeInv, [Next]_vars
             PROVE  TypeInv'
  OBVIOUS
<1>1. CASE Blocks
  BY <1>1, RunOpenType, RunEnteredType, RunMatchType, RunMovedType, RunMoveToType,
     RunAnnotateType, RunPlaceType DEF Blocks
<1>2. CASE Enters
  BY <1>2, EnterType DEF Enters
<1>3. CASE Replies
  BY <1>3, ReplyType DEF Replies
<1>4. CASE World
  BY <1>4, RegisterType, MoveType DEF World
<1>5. CASE DidUpdateLocations \/ ShowUserLocation
  BY <1>5, DidUpdateLocationsType, ShowUserLocationType
<1>6. CASE UNCHANGED vars
  <2>1. StateTyped'
    BY <1>6, TypeParts DEF vars, worldVars, matchVars, mapVars, StateTyped
  <2>2. QED
    BY <1>6, <2>1, TypeParts, TypeAfter DEF vars, matchVars
<1>7. QED
  BY <1>1, <1>2, <1>3, <1>4, <1>5, <1>6 DEF Next

LEMMA TypeInvCorrect == Spec => []TypeInv
  BY TypeInit, TypeStep, PTL DEF Spec

\* Every index a completion carries through the queue and the requests still
\* names an object of usersArray when it runs, and no location is asked for
\* without a match.
THEOREM TypeTheorem == Spec => []TypeOK
<1>1. TypeInv => TypeOK
  BY DEF TypeInv
<1>2. QED
  BY <1>1, TypeInvCorrect, PTL

----------------------------------------------------------------------------
(* Nothing is forgotten.                                                   *)

\* What is needed beside the types: the annotations can be counted.
SafetyInv == TypeInv /\ MapInv /\ ChainInv

\* Annotations are only added.
LEMMA MapGrows ==
    ASSUME [Next]_vars
    PROVE  /\ shown \subseteq shown'
           /\ points' \in {points, points + 1}
           /\ located => located'
           /\ noCafes => noCafes'
<1>1. shown \subseteq shown' /\ points' \in {points, points + 1}
  BY AnnotationStep
<1>2. CASE UNCHANGED vars
  BY <1>1, <1>2 DEF vars, mapVars
<1>3. CASE Blocks
  BY <1>1, <1>3 DEF Blocks, RunOpen, RunEntered, RunMatch, RunMoved, RunMoveTo, RunAnnotate,
     RunPlace, mapVars
<1>4. CASE Enters
  BY <1>1, <1>4 DEF Enters, Enter, mapVars
<1>5. CASE Replies
  BY <1>1, <1>5 DEF Replies, Reply, LocationReply, CafesFound, NoCafes
<1>6. CASE World
  <2>1. ASSUME NEW v \in Others, Register(v)
        PROVE  UNCHANGED mapVars
    BY <2>1 DEF Register
  <2>2. ASSUME NEW v \in Others, NEW p \in Positions, Move(v, p)
        PROVE  UNCHANGED mapVars
    BY <2>2 DEF Move
  <2>3. UNCHANGED mapVars
    BY <1>6, <2>1, <2>2 DEF World
  <2>4. QED
    BY <1>1, <2>3 DEF mapVars
<1>7. CASE DidUpdateLocations \/ ShowUserLocation
  BY <1>1, <1>7 DEF DidUpdateLocations, ShowUserLocation, mapVars
<1>8. QED
  BY <1>2, <1>3, <1>4, <1>5, <1>6, <1>7 DEF Next

LEMMA Countable ==
    ASSUME MapInv
    PROVE  AnnotationCount \in Nat
<1>1. Cardinality(shown) \in Nat
  BY FS_CardinalityType DEF MapInv
<1>2. QED
  BY <1>1 DEF AnnotationCount, MapInv

\* A map that takes no more annotations is full, and a match that was
\* answered stays answered.
LEMMA AnswerStays ==
    ASSUME MapInv, MapInv', [Next]_vars
    PROVE  /\ MatchAnswered => MatchAnswered'
           /\ ~RoomOnMap => MatchAnswered'
<1> DEFINE c == Cardinality(shown)
           d == Cardinality(shown')
<1>1. c \in Nat /\ d \in Nat /\ c <= d
  <2>1. IsFiniteSet(shown') /\ shown \in SUBSET shown'
    BY MapGrows DEF MapInv
  <2>2. IsFiniteSet(shown)
    BY DEF MapInv
  <2>3. QED
    BY <2>1, <2>2, FS_Subset, FS_CardinalityType
<1>2. /\ points \in Nat /\ points' \in Nat /\ points <= points'
      /\ located => located'
      /\ noCafes => noCafes'
  BY MapGrows DEF MapInv
<1>3. AnnotationCount <= AnnotationCount'
  <2> DEFINE e == IF located THEN 1 ELSE 0
             f == IF located' THEN 1 ELSE 0
  <2>1. AnnotationCount = c + 2 * points + e /\ AnnotationCount' = d + 2 * points' + f
    BY DEF AnnotationCount
  <2>2. e \in Nat /\ f \in Nat /\ e <= f
    BY <1>2
  <2>3. ASSUME NEW c1 \in Nat, NEW d1 \in Nat, c1 <= d1, NEW p1 \in Nat, NEW q1 \in Nat, p1 <= q1,
               NEW e1 \in Nat, NEW f1 \in Nat, e1 <= f1
        PROVE  c1 + 2 * p1 + e1 <= d1 + 2 * q1 + f1
    BY <2>3
  <2>. HIDE DEF c, d, e, f
  <2>4. c + 2 * points + e <= d + 2 * points' + f
    BY <1>1, <1>2, <2>2, <2>3
  <2>5. QED
    BY <2>1, <2>4
<1>4. AnnotationCount \in Nat /\ AnnotationCount' \in Nat
  BY <1>1, <1>2 DEF AnnotationCount
<1>5. MapIsFull => MapIsFull'
  BY <1>3, <1>4 DEF MapIsFull
<1>6. ~RoomOnMap => MapIsFull
  BY <1>4 DEF RoomOnMap, MapIsFull
<1>7. points >= 1 => points' >= 1
  BY <1>2
<1>8. QED
  BY <1>2, <1>5, <1>6, <1>7 DEF MatchAnswered

\* Steps that make no match, no block of a match and nobody nearby.
LEMMA ChainKept ==
    ASSUME ChainInv, ObjectsExist',
           MatchAnswered => MatchAnswered',
           matchedUserUUID' = matchedUserUUID,
           closestUser' # 0 => closestUser # 0,
           \A S \in {Drawings, Matches, Arrivals} : Has(mainQ', S) <=> Has(mainQ, S),
           Has(pending', Searches) <=> Has(pending, Searches),
           \A v \in Others : IsNearby(v)' => IsNearby(v)
    PROVE  ChainInv'
<1>1. /\ Has(mainQ', Drawings) <=> Has(mainQ, Drawings)
      /\ Has(mainQ', Matches) <=> Has(mainQ, Matches)
      /\ Has(mainQ', Arrivals) <=> Has(mainQ, Arrivals)
  OBVIOUS
<1>2. MatchFirst'
  BY <1>1 DEF ChainInv, MatchFirst
<1>3. NearbyIsChained'
  BY <1>1 DEF ChainInv, NearbyIsChained
<1>4. MatchIsChained'
  BY <1>1 DEF ChainInv, MatchIsChained
<1>5. QED
  BY <1>2, <1>3, <1>4 DEF ChainInv

\* Which blocks are which.
LEMMA BlockSorts ==
    ASSUME NEW b
    PROVE  /\ b \in Drawings => b.kind \in {"annotate", "place"}
           /\ b \in Matches => b.kind = "match"
           /\ b \in Arrivals => b.kind = "entered" /\ b.key \in b.known
           /\ b \in Block /\ b.kind \in {"annotate", "place"} => b \in Drawings
           /\ b \in Block /\ b.kind = "match" => b \in Matches
           /\ b \in Block /\ b.kind = "entered" /\ b.key \in b.known => b \in Arrivals
  BY DEF Drawings, Matches, Arrivals

LEMMA RequestSorts ==
    ASSUME NEW r
    PROVE  /\ r \in Searches => r.kind = "cafes"
           /\ r \in Request /\ r.kind = "cafes" => r \in Searches
  BY DEF Searches

\* A block that is none of them leaves or joins the queue.
LEMMA PlainHead ==
    ASSUME TypeInv, mainQ # << >>, NEW S \in {Drawings, Matches, Arrivals},
           Head(mainQ) \notin S
    PROVE  Has(Tail(mainQ), S) <=> Has(mainQ, S)
  BY HasTail, TypeParts

LEMMA PlainAppend ==
    ASSUME TypeInv, NEW x, NEW S, x \notin S
    PROVE  Has(Append(mainQ, x), S) <=> Has(mainQ, S)
  BY HasAppend, TypeParts

\* Who is nearby depends on the queries alone.
LEMMA SameNearby ==
    ASSUME queries' = queries
    PROVE  \A v \in Others : IsNearby(v)' => IsNearby(v)
  BY DEF IsNearby

LEMMA RunOpenChain ==
    ASSUME SafetyInv, ObjectsExist', MatchAnswered => MatchAnswered', RunOpen
    PROVE  ChainInv'
<1>1. PICK p : queries' = Append(queries, [center |-> p, known |-> Head(mainQ).known, inside |-> {}])
  BY DEF RunOpen
<1>2. \A v \in Others : IsNearby(v)' => IsNearby(v)
  <2>1. SUFFICES ASSUME NEW v \in Others, NEW i \in 1 .. Len(queries'),
                        v \in queries'[i].known \cap queries'[i].inside
                 PROVE  IsNearby(v)
    BY DEF IsNearby
  <2>2. queries \in Seq(Query) /\ Len(queries) \in Nat
    BY TypeParts DEF SafetyInv, StateTyped
  <2>3. Len(queries') = Len(queries) + 1 /\ queries'[Len(queries) + 1].inside = {}
    BY <1>1, <2>2
  <2>4. i # Len(queries) + 1
    BY <2>1, <2>3
  <2>5. i \in 1 .. Len(queries) /\ queries'[i] = queries[i]
    BY <1>1, <2>2, <2>3, <2>4
  <2>6. QED
    BY <2>1, <2>5 DEF IsNearby
<1>3. mainQ # << >> /\ Head(mainQ).kind = "open" /\ mainQ' = Tail(mainQ)
  BY DEF RunOpen, Next_is
<1>4. \A S \in {Drawings, Matches, Arrivals} : Has(mainQ', S) <=> Has(mainQ, S)
  BY <1>3, BlockSorts, PlainHead DEF SafetyInv
<1>5. UNCHANGED <<pending, closestUser, matchedUserUUID>>
  BY DEF RunOpen, matchVars
<1>6. QED
  BY <1>2, <1>4, <1>5, ChainKept DEF SafetyInv

LEMMA RunEnteredChain ==
    ASSUME SafetyInv, ObjectsExist', MatchAnswered => MatchAnswered', RunEntered
    PROVE  ChainInv'
<1> DEFINE b == Head(mainQ)
           m == [kind |-> "match", key |-> b.key, user |-> FindClosest(AddNearbyUser(b))]
<1>1. mainQ # << >> /\ b.kind = "entered"
  BY DEF RunEntered, Next_is
<1>2. /\ queries' = queries
      /\ UNCHANGED <<pending, closestUser, matchedUserUUID>>
  BY DEF RunEntered
<1>3. \A v \in Others : IsNearby(v)' => IsNearby(v)
  BY <1>2, SameNearby
<1>4. \A S \in {Drawings, Matches} : Has(Tail(mainQ), S) <=> Has(mainQ, S)
  BY <1>1, BlockSorts, PlainHead DEF SafetyInv
<1>5. CASE b.key \notin b.known
  <2>1. mainQ' = Tail(mainQ)
    BY <1>5 DEF RunEntered
  <2>2. Has(Tail(mainQ), Arrivals) <=> Has(mainQ, Arrivals)
    BY <1>1, <1>5, BlockSorts, PlainHead DEF SafetyInv
  <2>3. QED
    BY <1>2, <1>3, <1>4, <2>1, <2>2, ChainKept DEF SafetyInv
<1>6. CASE closestUser = 0 /\ b.key \in b.known
  <2>1. mainQ' = Append(Tail(mainQ), m)
    BY <1>6 DEF RunEntered, NoClosestYet
  <2>2. Tail(mainQ) \in Seq(BlocksAbout(Len(usersArray)))
    BY <1>1, HeadType DEF SafetyInv
  <2>3. m \in Matches
    <3>1. b.key \in Others
      BY <1>1, HeadType, BlockFields DEF SafetyInv
    <3>2. mainQ' \in Seq(BlocksAbout(Len(usersArray'))) /\ Len(mainQ') = Len(Tail(mainQ)) + 1
          /\ mainQ'[Len(Tail(mainQ)) + 1] = m /\ Len(Tail(mainQ)) \in Nat
      BY <2>1, <2>2 DEF ObjectsExist
    <3>3. m \in BlocksAbout(Len(usersArray'))
      BY <3>2
    <3>4. m \in Block /\ m.kind = "match"
      BY <3>3 DEF BlocksAbout
    <3>5. QED
      BY <3>4, BlockSorts
  <2>4. Has(mainQ', Matches)
    BY <2>1, <2>2, <2>3, HasAppend
  <2>5. m \notin Drawings
    BY BlockSorts
  <2>6. Has(mainQ', Drawings) <=> Has(mainQ, Drawings)
    BY <1>4, <2>1, <2>2, <2>5, HasAppend
  <2>7. MatchFirst'
    BY <1>2, <2>6 DEF SafetyInv, ChainInv, MatchFirst
  <2>8. NearbyIsChained'
    BY <2>4 DEF NearbyIsChained
  <2>9. MatchIsChained'
    BY <1>2, <2>6 DEF SafetyInv, ChainInv, MatchIsChained
  <2>10. QED
    BY <2>7, <2>8, <2>9 DEF ChainInv
<1>7. CASE closestUser # 0 /\ b.key \in b.known
  <2>1. mainQ' = Tail(mainQ)
    BY <1>7 DEF RunEntered, NoClosestYet
  <2>2. matchedUserUUID # NoUser
    BY <1>7 DEF SafetyInv, ChainInv, MatchFirst
  <2>3. Has(mainQ', Drawings) <=> Has(mainQ, Drawings)
    BY <1>4, <2>1
  <2>4. MatchFirst' /\ NearbyIsChained'
    BY <1>2, <2>2 DEF MatchFirst, NearbyIsChained
  <2>5. MatchIsChained'
    BY <1>2, <2>3 DEF SafetyInv, ChainInv, MatchIsChained
  <2>6. QED
    BY <2>4, <2>5 DEF ChainInv
<1>8. QED
  BY <1>5, <1>6, <1>7

LEMMA RunMatchChain ==
    ASSUME SafetyInv, ObjectsExist', ~RoomOnMap => MatchAnswered', RunMatch
    PROVE  ChainInv'
<1> DEFINE b == Head(mainQ)
           a == [kind |-> "annotate", user |-> FindClosest(usersArray)]
<1>1. mainQ # << >> /\ b.kind = "match" /\ matchedUserUUID' = b.key
  BY DEF RunMatch, Next_is
<1>2. b.key \in Others /\ Tail(mainQ) \in Seq(BlocksAbout(Len(usersArray)))
  BY <1>1, HeadType, BlockFields DEF SafetyInv
<1>3. matchedUserUUID' # NoUser
  BY <1>1, <1>2, NoUserAssumption
<1>4. MatchFirst' /\ NearbyIsChained'
  BY <1>3 DEF MatchFirst, NearbyIsChained
<1>5. CASE RoomOnMap
  <2>1. mainQ' = Append(Tail(mainQ), a) /\ usersArray' = usersArray
    BY <1>5 DEF RunMatch
  <2>2. mainQ'[Len(Tail(mainQ)) + 1] = a /\ Len(Tail(mainQ)) + 1 \in 1 .. Len(mainQ')
    BY <1>2, <2>1
  <2>3. a \in BlocksAbout(Len(usersArray'))
    BY <2>2 DEF ObjectsExist
  <2>4. a \in Block /\ a.kind = "annotate"
    BY <2>3 DEF BlocksAbout
  <2>5. Has(mainQ', Drawings)
    BY <2>2, <2>4, BlockSorts DEF Has
  <2>6. QED
    BY <1>4, <2>5 DEF ChainInv, MatchIsChained
<1>6. CASE ~RoomOnMap
  BY <1>4, <1>6 DEF ChainInv, MatchIsChained
<1>7. QED
  BY <1>5, <1>6

LEMMA RunMovedChain ==
    ASSUME SafetyInv, ObjectsExist', MatchAnswered => MatchAnswered', RunMoved
    PROVE  ChainInv'
<1> DEFINE r == [kind |-> "location", key |-> matchedUserUUID]
<1>1. /\ mainQ # << >> /\ Head(mainQ).kind = "moved" /\ mainQ' = Tail(mainQ)
      /\ UNCHANGED <<queries, closestUser, matchedUserUUID>>
  BY DEF RunMoved, Next_is, matchVars
<1>2. pending' = pending \/ pending' = Append(pending, r)
  <2>1. pending' = (IF IsTheMatch(Head(mainQ).key) THEN Append(pending, r) ELSE pending)
    BY DEF RunMoved
  <2>2. QED
    BY <2>1
<1>3. \A S \in {Drawings, Matches, Arrivals} : Has(mainQ', S) <=> Has(mainQ, S)
  BY <1>1, BlockSorts, PlainHead DEF SafetyInv
<1>4. r \notin Searches
  BY RequestSorts
<1>5. Has(pending', Searches) <=> Has(pending, Searches)
  <2>. HIDE DEF r
  <2>1. Has(Append(pending, r), Searches) <=> Has(pending, Searches)
    BY <1>4, HasAppend, TypeParts DEF SafetyInv
  <2>2. QED
    BY <1>2, <2>1
<1>6. QED
  BY <1>1, <1>3, <1>5, SameNearby, ChainKept DEF SafetyInv

LEMMA RunMoveToChain ==
    ASSUME SafetyInv, ObjectsExist', MatchAnswered => MatchAnswered', RunMoveTo
    PROVE  ChainInv'
<1>1. /\ mainQ # << >> /\ Head(mainQ).kind = "moveTo" /\ mainQ' = Tail(mainQ)
      /\ UNCHANGED <<queries, pending, closestUser, matchedUserUUID>>
  BY DEF RunMoveTo, Next_is
<1>2. \A S \in {Drawings, Matches, Arrivals} : Has(mainQ', S) <=> Has(mainQ, S)
  BY <1>1, BlockSorts, PlainHead DEF SafetyInv
<1>3. QED
  BY <1>1, <1>2, SameNearby, ChainKept DEF SafetyInv

LEMMA RunAnnotateChain ==
    ASSUME SafetyInv, ObjectsExist', RunAnnotate
    PROVE  ChainInv'
<1> DEFINE r == [kind |-> "cafes", user |-> Head(mainQ).user]
<1>1. /\ mainQ # << >> /\ Head(mainQ).kind = "annotate"
      /\ pending' = Append(pending, r)
      /\ UNCHANGED <<queries, usersArray, matchedUserUUID>>
  BY DEF RunAnnotate, Next_is
<1>2. Head(mainQ) \in Drawings
  BY <1>1, HeadType, BlockSorts DEF SafetyInv
<1>3. Has(mainQ, Drawings)
  BY <1>1, <1>2, HasTail, TypeParts DEF SafetyInv
<1>4. matchedUserUUID' # NoUser
  BY <1>1, <1>3 DEF SafetyInv, ChainInv, MatchFirst
<1>5. r \in Searches
  <2>1. Head(mainQ).user \in 1 .. Len(usersArray) /\ Len(usersArray) \in Nat
    BY <1>1, HeadType, TypeParts DEF SafetyInv
  <2>2. r \in Request
    BY <2>1, NewRequests DEF RequestsAbout
  <2>3. QED
    BY <2>2, RequestSorts
<1>6. Has(pending', Searches)
  BY <1>1, <1>5, HasAppend, TypeParts DEF SafetyInv
<1>7. QED
  BY <1>4, <1>6 DEF ChainInv, MatchFirst, NearbyIsChained, MatchIsChained

LEMMA RunPlaceChain ==
    ASSUME SafetyInv, ObjectsExist', ~RoomOnMap => MatchAnswered', RunPlace
    PROVE  ChainInv'
<1>1. /\ mainQ # << >> /\ Head(mainQ).kind = "place"
      /\ UNCHANGED <<queries, pending, matchedUserUUID>>
  BY DEF RunPlace, Next_is, matchVars
<1>2. Head(mainQ) \in Drawings
  BY <1>1, HeadType, BlockSorts DEF SafetyInv
<1>3. Has(mainQ, Drawings)
  BY <1>1, <1>2, HasTail, TypeParts DEF SafetyInv
<1>4. matchedUserUUID' # NoUser
  BY <1>1, <1>3 DEF SafetyInv, ChainInv, MatchFirst
<1>5. MatchAnswered'
  <2>1. CASE RoomOnMap
    <3>1. points \in Nat /\ points' = points + 1
      BY <2>1 DEF RunPlace, SafetyInv, MapInv
    <3>2. QED
      BY <3>1 DEF MatchAnswered
  <2>2. QED
    BY <2>1
<1>6. QED
  BY <1>4, <1>5 DEF ChainInv, MatchFirst, NearbyIsChained, MatchIsChained

LEMMA EnterChain ==
    ASSUME SafetyInv, ObjectsExist', MatchAnswered => MatchAnswered',
           NEW i \in 1 .. Len(queries), NEW v \in Others, Enter(i, v)
    PROVE  ChainInv'
<1> DEFINE b == [kind |-> "entered", key |-> v, at |-> where[v], known |-> queries[i].known]
<1>1. /\ mainQ' = Append(mainQ, b)
      /\ queries' = [queries EXCEPT ![i].inside = @ \cup {v}]
      /\ UNCHANGED <<pending, usersArray, closestUser, matchedUserUUID>>
  BY DEF Enter, matchVars
<1>2. queries \in Seq(Query) /\ mainQ \in Seq(BlocksAbout(Len(usersArray)))
  BY TypeParts DEF SafetyInv, StateTyped
<1>3. b \in Block
  <2>1. mainQ'[Len(mainQ) + 1] = b /\ Len(mainQ) + 1 \in 1 .. Len(mainQ')
    BY <1>1, <1>2
  <2>2. b \in BlocksAbout(Len(usersArray'))
    BY <2>1 DEF ObjectsExist
  <2>3. QED
    BY <2>2 DEF BlocksAbout
<1>4. \A S \in {Drawings, Matches} : Has(mainQ', S) <=> Has(mainQ, S)
  <2>1. b \notin Drawings /\ b \notin Matches
    BY BlockSorts
  <2>2. QED
    BY <1>1, <2>1, PlainAppend DEF SafetyInv
<1>5. Has(mainQ, Arrivals) => Has(mainQ', Arrivals)
  BY <1>1, <1>2, HasAppend
<1>6. MatchFirst' /\ MatchIsChained'
  BY <1>1, <1>4 DEF SafetyInv, ChainInv, MatchFirst, MatchIsChained
<1>7. NearbyIsChained'
  <2>1. SUFFICES ASSUME NEW w \in Others, IsNearby(w)'
                 PROVE  matchedUserUUID' # NoUser \/ Has(mainQ', Matches) \/ Has(mainQ', Arrivals)
    BY DEF NearbyIsChained
  <2>2. CASE IsNearby(w)
    BY <1>1, <1>4, <1>5, <2>2 DEF SafetyInv, ChainInv, NearbyIsChained
  <2>3. CASE ~IsNearby(w)
    <3>1. PICK j \in 1 .. Len(queries') : w \in queries'[j].known \cap queries'[j].inside
      BY <2>1 DEF IsNearby
    <3>2. j \in 1 .. Len(queries)
      BY <1>1, <1>2, <3>1
    <3>3. j = i
      <4>1. j # i => queries'[j] = queries[j]
        BY <1>1, <1>2, <3>2
      <4>2. QED
        BY <2>3, <3>1, <3>2, <4>1 DEF IsNearby
    <3>4. queries[i] \in Query
      BY <1>2
    <3>5. queries'[i].known = queries[i].known /\ queries'[i].inside = queries[i].inside \cup {v}
      BY <1>1, <1>2, <3>4 DEF Query
    <3>6. w = v
      BY <2>3, <3>1, <3>3, <3>5 DEF IsNearby
    <3>7. b \in Arrivals
      BY <1>3, <3>1, <3>3, <3>5, <3>6, BlockSorts
    <3>8. Has(mainQ', Arrivals)
      BY <1>1, <1>2, <3>7, HasAppend
    <3>9. QED
      BY <3>8
  <2>4. QED
    BY <2>2, <2>3
<1>8. QED
  BY <1>6, <1>7 DEF ChainInv

\* Who leaves a circle is no longer nearby; nobody becomes nearby by moving.
LEMMA MoveChain ==
    ASSUME SafetyInv, ObjectsExist', MatchAnswered => MatchAnswered',
           NEW v \in Others, NEW p \in Positions, Move(v, p)
    PROVE  ChainInv'
<1> DEFINE had == {i \in 1 .. Len(queries) : v \in queries[i].inside}
           has == {i \in had : Within(queries[i].center, p)}
           reports == [i \in 1 .. Cardinality(has) |-> [kind |-> "moved", key |-> v]]
<1>1. queries \in Seq(Query) /\ Len(queries) \in Nat
      /\ mainQ \in Seq(BlocksAbout(Len(usersArray)))
  BY TypeParts DEF SafetyInv, StateTyped
<1>2. /\ queries' = [i \in 1 .. Len(queries) |->
                       IF i \in had \ has
                       THEN [queries[i] EXCEPT !.inside = queries[i].inside \ {v}]
                       ELSE queries[i]]
      /\ mainQ' = mainQ \o reports
      /\ UNCHANGED <<pending, closestUser, matchedUserUUID>>
  BY DEF Move, matchVars
<1>3. \A S \in {Drawings, Matches, Arrivals} : Has(mainQ', S) <=> Has(mainQ, S)
  <2>1. Cardinality(has) \in Nat
    <3>1. IsFiniteSet(1 .. Len(queries)) /\ has \in SUBSET (1 .. Len(queries))
      BY <1>1, FS_Interval
    <3>2. QED
      BY <3>1, FS_Subset, FS_CardinalityType
  <2>2. reports \in Seq(BlocksAbout(Len(usersArray))) /\ Len(reports) = Cardinality(has)
    <3>1. [kind |-> "moved", key |-> v] \in BlocksAbout(Len(usersArray))
      BY NewBlocks, TypeParts DEF SafetyInv
    <3>. HIDE DEF has
    <3>2. QED
      BY <2>1, <3>1
  <2>3. \A k \in 1 .. Len(reports) : reports[k].kind = "moved"
    <3>. HIDE DEF has
    <3>. QED
      BY <2>1, <2>2
  <2>. HIDE DEF reports
  <2>4. \A S \in {Drawings, Matches, Arrivals} : \A k \in 1 .. Len(reports) : reports[k] \notin S
    BY <2>3, BlockSorts
  <2>5. QED
    BY <1>1, <1>2, <2>2, <2>4, HasConcat
<1>4. \A w \in Others : IsNearby(w)' => IsNearby(w)
  <2>1. SUFFICES ASSUME NEW w \in Others, NEW i \in 1 .. Len(queries'),
                        w \in queries'[i].known \cap queries'[i].inside
                 PROVE  IsNearby(w)
    BY DEF IsNearby
  <2>2. i \in 1 .. Len(queries) /\ queries[i] \in Query
    BY <1>1, <1>2
  <2>3. \/ queries'[i] = [queries[i] EXCEPT !.inside = queries[i].inside \ {v}]
        \/ queries'[i] = queries[i]
    BY <1>2, <2>2
  <2>4. w \in queries[i].known \cap queries[i].inside
    BY <2>1, <2>2, <2>3 DEF Query
  <2>5. QED
    BY <2>2, <2>4 DEF IsNearby
<1>5. QED
  <2>. HIDE DEF reports
  <2>. QED
    BY <1>2, <1>3, <1>4, ChainKept DEF SafetyInv

LEMMA ReplyChain ==
    ASSUME SafetyInv, ObjectsExist', MatchAnswered => MatchAnswered',
           NEW i \in 1 .. Len(pending), Reply(i)
    PROVE  ChainInv'
<1>1. /\ Has(pending, Searches) <=> pending[i] \in Searches \/ Has(pending', Searches)
      /\ pending[i] \in Request
  <2>1. pending \in Seq(RequestsAbout(Len(usersArray)))
    BY TypeParts DEF SafetyInv
  <2>2. pending[i] \in Request
    BY <2>1 DEF RequestsAbout
  <2>3. pending' = WithoutRequest(i)
    BY DEF Reply
  <2>4. QED
    BY <2>1, <2>2, <2>3, HasWithout
<1>2. UNCHANGED <<queries, usersArray, closestUser, matchedUserUUID>>
  BY DEF Reply, matchVars
<1>3. CASE /\ pending[i].kind = "location"
           /\ \E at \in Positions : mainQ' = Append(mainQ, [kind |-> "moveTo", at |-> at])
  <2>1. PICK at \in Positions : mainQ' = Append(mainQ, [kind |-> "moveTo", at |-> at])
    BY <1>3
  <2>2. \A S \in {Drawings, Matches, Arrivals} : [kind |-> "moveTo", at |-> at] \notin S
    BY BlockSorts
  <2>3. \A S \in {Drawings, Matches, Arrivals} : Has(mainQ', S) <=> Has(mainQ, S)
    BY <2>1, <2>2, PlainAppend DEF SafetyInv
  <2>4. pending[i] \notin Searches
    BY <1>3, RequestSorts
  <2>5. QED
    BY <1>1, <1>2, <2>3, <2>4, SameNearby, ChainKept DEF SafetyInv
<1>4. CASE pending[i].kind = "cafes"
  <2>1. Has(pending, Searches)
    BY <1>1, <1>4, RequestSorts
  <2>2. matchedUserUUID' # NoUser
    BY <1>2, <2>1 DEF SafetyInv, ChainInv, MatchFirst
  <2>3. CASE \E user \in 1 .. Len(usersArray) : mainQ' = Append(mainQ, [kind |-> "place", user |-> user])
    <3>1. PICK user \in 1 .. Len(usersArray) : mainQ' = Append(mainQ, [kind |-> "place", user |-> user])
      BY <2>3
    <3>2. [kind |-> "place", user |-> user] \in BlocksAbout(Len(usersArray))
      BY NewBlocks, TypeParts DEF SafetyInv
    <3>3. [kind |-> "place", user |-> user] \in Drawings
      BY <3>2, BlockSorts DEF BlocksAbout
    <3>4. Has(mainQ', Drawings)
      BY <3>1, <3>3, HasAppend, TypeParts DEF SafetyInv
    <3>5. QED
      BY <2>2, <3>4 DEF ChainInv, MatchFirst, NearbyIsChained, MatchIsChained
  <2>4. CASE noCafes' = TRUE
    BY <2>2, <2>4 DEF ChainInv, MatchFirst, NearbyIsChained, MatchIsChained, MatchAnswered
  <2>5. QED
    BY <1>4, <2>3, <2>4, ReplyStep DEF SafetyInv
<1>5. QED
  BY <1>3, <1>4, ReplyStep DEF SafetyInv

\* The rest of the steps touch nothing of it, but a block that opens a query.
LEMMA OtherChain ==
    ASSUME SafetyInv, ObjectsExist', MatchAnswered => MatchAnswered',
           DidUpdateLocations \/ ShowUserLocation \/ UNCHANGED vars \/ \E v \in Others : Register(v)
    PROVE  ChainInv'
<1>1. /\ mainQ' = mainQ \/ mainQ' = Append(mainQ, [kind |-> "open", known |-> registered])
      /\ UNCHANGED <<queries, pending, closestUser, matchedUserUUID>>
  BY DEF DidUpdateLocations, ShowUserLocation, Register, vars, matchVars
<1>2. \A S \in {Drawings, Matches, Arrivals} : [kind |-> "open", known |-> registered] \notin S
  BY BlockSorts
<1>3. \A S \in {Drawings, Matches, Arrivals} : Has(mainQ', S) <=> Has(mainQ, S)
  BY <1>1, <1>2, PlainAppend DEF SafetyInv
<1>4. QED
  BY <1>1, <1>3, SameNearby, ChainKept DEF SafetyInv

LEMMA SafetyInit == Init => SafetyInv
<1> SUFFICES ASSUME Init
             PROVE  SafetyInv
  OBVIOUS
<1>1. ObjectsExist
  BY TypeInit DEF TypeInv
<1>2. /\ ~Has(mainQ, Drawings) /\ ~Has(pending, Searches)
      /\ closestUser = 0 /\ matchedUserUUID = NoUser
      /\ \A v \in Others : ~IsNearby(v)
  BY DEF Init, Has, IsNearby
<1>3. ChainInv
  BY <1>1, <1>2 DEF ChainInv, MatchFirst, NearbyIsChained, MatchIsChained
<1>4. QED
  BY <1>3, TypeInit, MapInit DEF SafetyInv

LEMMA SafetyStep == SafetyInv /\ [Next]_vars => SafetyInv'
<1> SUFFICES ASSUME SafetyInv, [Next]_vars
             PROVE  SafetyInv'
  OBVIOUS
<1>1. TypeInv' /\ MapInv'
  BY TypeStep, MapStep DEF SafetyInv
<1>2. ObjectsExist'
  BY <1>1 DEF TypeInv
<1>3. (MatchAnswered => MatchAnswered') /\ (~RoomOnMap => MatchAnswered')
  BY <1>1, AnswerStays DEF SafetyInv
<1> SUFFICES ChainInv'
  BY <1>1 DEF SafetyInv
<1>4. CASE Blocks
  BY <1>2, <1>3, <1>4, RunOpenChain, RunEnteredChain, RunMatchChain, RunMovedChain,
     RunMoveToChain, RunAnnotateChain, RunPlaceChain DEF Blocks
<1>5. CASE Enters
  BY <1>2, <1>3, <1>5, EnterChain DEF Enters
<1>6. CASE Replies
  BY <1>2, <1>3, <1>6, ReplyChain DEF Replies
<1>7. CASE World
  BY <1>2, <1>3, <1>7, MoveChain, OtherChain DEF World
<1>8. CASE DidUpdateLocations \/ ShowUserLocation \/ UNCHANGED vars
  BY <1>2, <1>3, <1>8, OtherChain
<1>9. QED
  BY <1>4, <1>5, <1>6, <1>7, <1>8 DEF Next

LEMMA SafetyCorrect == Spec => []SafetyInv
  BY SafetyInit, SafetyStep, PTL DEF Spec

\* In every reachable state whoever is nearby, and every match, has its next
\* block or request under way, or its outcome.
THEOREM ChainTheorem == Spec => []ChainInv
<1>1. SafetyInv => ChainInv
  BY DEF SafetyInv
<1>2. QED
  BY <1>1, SafetyCorrect, PTL

\* Hence a device with nothing left to run or to wait for has forgotten nobody:
\* the guards that drop completions only drop what another one has done.
THEOREM NothingForgottenTheorem == Spec => []NothingIsForgotten
<1>1. ASSUME ChainInv, mainQ = << >>, pending = << >>
      PROVE  /\ (\E v \in Others : IsNearby(v)) => matchedUserUUID # NoUser
             /\ matchedUserUUID # NoUser => MatchAnswered
  <2>1. \A S : ~Has(mainQ, S) /\ ~Has(pending, S)
    BY <1>1 DEF Has
  <2>2. QED
    BY <1>1, <2>1 DEF ChainInv, NearbyIsChained, MatchIsChained
<1>2. ChainInv => NothingIsForgotten
  BY <1>1 DEF NothingIsForgotten
<1>3. QED
  BY <1>2, ChainTheorem, PTL

=============================================================================
