---------------------------- MODULE Matchmaker ----------------------------
(***************************************************************************)
(* How one device picks a match out of the users nearby and puts it on the *)
(* map: location updates, the circle queries they open, the array of       *)
(* nearby users, the completions of findClosestUser and the search for     *)
(* restaurants.                                                            *)
(*                                                                         *)
(* Everything but the replies of the database and of the restaurant search *)
(* runs as blocks on the main queue, in order.  A User object is its index *)
(* in usersArray: the array only grows, and the same user is added once    *)
(* more by every query whose circle it enters, as another object.          *)
(***************************************************************************)
EXTENDS Nearest, FiniteSets

CONSTANTS
    Others,        \* the uuids of the other users
    NoUser,        \* nil
    Positions,     \* where a user can be
    Dist,          \* Dist[p, q]: the distance between two positions
    Home,          \* currentUser.coordinate, set once at authorization
    Radius,        \* of the circle queries
    MaxUpdates,    \* bound: location updates
    MaxMoves       \* bound: movements and registrations of other users

ASSUME NoUserAssumption == NoUser \notin Others
ASSUME DistAssumption == Dist \in [Positions \X Positions -> Nat]
ASSUME PlacesAssumption == Home \in Positions /\ Radius \in Nat
ASSUME BoundsAssumption == MaxUpdates \in Nat /\ MaxMoves \in Nat

VARIABLES
    where,        \* where[v]: User_Location/v
    registered,   \* users with a complete profile under "Users"
    queries,      \* the circle queries opened so far: none is ever removed
    mainQ,        \* blocks waiting on the main queue
    pending,      \* requests without a reply: locations and restaurants
    usersArray,   \* DataManager.usersArray
    closestUser,  \* DataManager.closestUser: an index of usersArray, 0 is nil
    matchedUserUUID,
    shown,        \* the User objects among the annotations of the map
    points,       \* midpoints on the map, each with its restaurant
    located,      \* the map has placed its own annotation for the device
    noCafes,      \* history: a search has ended without a restaurant
    updates,      \* location updates so far
    moves         \* movements and registrations so far

worldVars == <<where, registered, moves>>
matchVars == <<usersArray, closestUser, matchedUserUUID>>
mapVars   == <<shown, points, located, noCafes>>
vars == <<worldVars, queries, mainQ, pending, matchVars, mapVars, updates>>

----------------------------------------------------------------------------

User == [key : Others, at : Positions]

\* known: the users with a profile in the snapshot the query was opened with.
Query == [center : Positions, known : SUBSET Others, inside : SUBSET Others]

Block ==
    [kind : {"open"}, known : SUBSET Others]
        \cup [kind : {"entered"}, key : Others, at : Positions, known : SUBSET Others]
        \cup [kind : {"moved"}, key : Others]
        \cup [kind : {"moveTo"}, at : Positions]
        \cup [kind : {"match"}, key : Others, user : Nat]
        \cup [kind : {"annotate", "place"}, user : Nat]

Request == [kind : {"location"}, key : Others] \cup [kind : {"cafes"}, user : Nat]

TypeOK ==
    /\ where \in [Others -> Positions]
    /\ registered \subseteq Others
    /\ queries \in Seq(Query)
    /\ mainQ \in Seq(Block)
    /\ pending \in Seq(Request)
    /\ usersArray \in Seq(User)
    /\ closestUser \in 0 .. Len(usersArray)
    /\ matchedUserUUID \in Others \cup {NoUser}
    /\ shown \subseteq 1 .. Len(usersArray)
    /\ points \in Nat
    /\ located \in BOOLEAN
    /\ noCafes \in BOOLEAN
    /\ updates \in 0 .. MaxUpdates
    /\ moves \in 0 .. MaxMoves

Init ==
    /\ where \in [Others -> Positions]
    /\ registered \in SUBSET Others
    /\ queries = << >> /\ mainQ = << >> /\ pending = << >>
    /\ usersArray = << >> /\ closestUser = 0 /\ matchedUserUUID = NoUser
    /\ shown = {} /\ points = 0 /\ located = FALSE /\ noCafes = FALSE
    /\ updates = 0 /\ moves = 0

----------------------------------------------------------------------------
(* Helpers.                                                                *)

Next_is(k) == mainQ # << >> /\ Head(mainQ).kind = k

Within(center, p) == Dist[center, p] <= Radius

\* findClosestUser of the array: distances are taken from currentUser, whose
\* coordinate is the one of the authorization.
FirstClosest(array) == FirstNearest([i \in 1 .. Len(array) |-> Dist[Home, array[i].at]])

\* Variant: the index is off by one.
NextToClosest(array) == FirstClosest(array) + 1

FindClosest(array) == FirstClosest(array)

\* mainMapView.annotations.count.  Adding an object twice shows it once.
AnnotationCount == Cardinality(shown) + 2 * points + (IF located THEN 1 ELSE 0)

\* Variant: one annotation more is let in.
RoomForOneMore == AnnotationCount <= 4

\* Variant: only an empty map takes annotations.
MapIsEmpty == AnnotationCount < 1

RoomOnMap == AnnotationCount < 4

\* Variant: tested on the array after the user was added.
FirstOfArray(array) == array = << >>

\* dataManager.closestUser == nil
NoClosestYet(array) == closestUser = 0

\* Variant: whoever moves is asked for.
AnyKey(key) == TRUE

IsTheMatch(key) == key = matchedUserUUID

----------------------------------------------------------------------------
(* The device and the circle queries.                                      *)

\* didUpdateLocations: ask for the Users tree.
DidUpdateLocations ==
    /\ updates < MaxUpdates
    /\ updates' = updates + 1
    /\ mainQ' = Append(mainQ, [kind |-> "open", known |-> registered])
    /\ UNCHANGED <<worldVars, queries, pending, matchVars, mapVars>>

\* Its reply opens one more circle query around the place the device is at.
RunOpen ==
    /\ Next_is("open")
    /\ \E p \in Positions :
          queries' = Append(queries, [center |-> p, known |-> Head(mainQ).known, inside |-> {}])
    /\ mainQ' = Tail(mainQ)
    /\ UNCHANGED <<worldVars, pending, matchVars, mapVars, updates>>

\* GeoFire: v is in the circle of the query i and was not.
Enter(i, v) ==
    /\ v \notin queries[i].inside
    /\ Within(queries[i].center, where[v])
    /\ queries' = [queries EXCEPT ![i].inside = @ \cup {v}]
    /\ mainQ' = Append(mainQ, [kind |-> "entered", key |-> v, at |-> where[v],
                               known |-> queries[i].known])
    /\ UNCHANGED <<worldVars, pending, matchVars, mapVars, updates>>

\* v goes to p.  Each query that had it inside its circle either reports the
\* movement or, when it left, drops it: nobody observes keyExited.
Move(v, p) ==
    LET had == {i \in 1 .. Len(queries) : v \in queries[i].inside}
        has == {i \in had : Within(queries[i].center, p)}
    IN  /\ moves < MaxMoves
        /\ p # where[v]
        /\ moves' = moves + 1
        /\ where' = [where EXCEPT ![v] = p]
        /\ queries' = [i \in 1 .. Len(queries) |->
                         IF i \in had \ has
                         THEN [queries[i] EXCEPT !.inside = @ \ {v}]
                         ELSE queries[i]]
        /\ mainQ' = mainQ \o [i \in 1 .. Cardinality(has) |-> [kind |-> "moved", key |-> v]]
        /\ UNCHANGED <<registered, pending, matchVars, mapVars, updates>>

\* The profile of v is written under "Users".
Register(v) ==
    /\ moves < MaxMoves
    /\ v \notin registered
    /\ moves' = moves + 1
    /\ registered' = registered \cup {v}
    /\ UNCHANGED <<where, queries, mainQ, pending, matchVars, mapVars, updates>>

----------------------------------------------------------------------------
(* The match.                                                              *)

\* addNearbyUser: usersArray.contains compares objects, and the user that
\* enters is always a new one.
AddNearbyUser(b) == Append(usersArray, [key |-> b.key, at |-> b.at])

\* keyEntered: a user without a profile in the snapshot of the query is
\* passed over; another one is added, and while there is no closest user the
\* closest of the array is found and a completion queued for it.
RunEntered ==
    LET b     == Head(mainQ)
        array == AddNearbyUser(b)
    IN  /\ Next_is("entered")
        /\ \/ /\ b.key \notin b.known
              /\ UNCHANGED usersArray
              /\ mainQ' = Tail(mainQ)
           \/ /\ b.key \in b.known
              /\ usersArray' = array
              /\ mainQ' = IF NoClosestYet(array)
                          THEN Append(Tail(mainQ), [kind |-> "match", key |-> b.key,
                                                    user |-> FindClosest(array)])
                          ELSE Tail(mainQ)
        /\ UNCHANGED <<worldVars, queries, pending, closestUser, matchedUserUUID, mapVars, updates>>

\* The completion: the key is the one that entered, the user the one that was
\* closest.  placeAnnotations, if there is room, looks for the closest again.
RunMatch ==
    LET b == Head(mainQ)
    IN  /\ Next_is("match")
        /\ closestUser' = b.user
        /\ matchedUserUUID' = b.key
        /\ mainQ' = IF RoomOnMap
                    THEN Append(Tail(mainQ), [kind |-> "annotate", user |-> FindClosest(usersArray)])
                    ELSE Tail(mainQ)
        /\ UNCHANGED <<worldVars, queries, pending, usersArray, mapVars, updates>>

\* keyMoved: if it is the match, ask for its location.
RunMoved ==
    /\ Next_is("moved")
    /\ pending' = IF IsTheMatch(Head(mainQ).key)
                  THEN Append(pending, [kind |-> "location", key |-> matchedUserUUID])
                  ELSE pending
    /\ mainQ' = Tail(mainQ)
    /\ UNCHANGED <<worldVars, queries, matchVars, mapVars, updates>>

\* The reply of getLocationForKey moves the closest user, and its annotation
\* is taken off the map and put on it again.
RunMoveTo ==
    /\ Next_is("moveTo")
    /\ IF closestUser # 0
       THEN /\ usersArray' = [usersArray EXCEPT ![closestUser].at = Head(mainQ).at]
            /\ shown' = shown \cup {closestUser}
       ELSE UNCHANGED <<usersArray, shown>>
    /\ mainQ' = Tail(mainQ)
    /\ UNCHANGED <<worldVars, queries, pending, closestUser, matchedUserUUID, points, located, noCafes, updates>>

----------------------------------------------------------------------------
(* The map.                                                                *)

\* dataAnnotations: the completion of its findClosestUser replaces the closest
\* user once more and searches for restaurants at the midpoint.
RunAnnotate ==
    /\ Next_is("annotate")
    /\ closestUser' = Head(mainQ).user
    /\ pending' = Append(pending, [kind |-> "cafes", user |-> Head(mainQ).user])
    /\ mainQ' = Tail(mainQ)
    /\ UNCHANGED <<worldVars, queries, usersArray, matchedUserUUID, mapVars, updates>>

\* The three annotations arrive; they are added if there is still room.
RunPlace ==
    /\ Next_is("place")
    /\ IF RoomOnMap
       THEN shown' = shown \cup {Head(mainQ).user} /\ points' = points + 1
       ELSE UNCHANGED <<shown, points>>
    /\ mainQ' = Tail(mainQ)
    /\ UNCHANGED <<worldVars, queries, pending, matchVars, located, noCafes, updates>>

\* The map shows where the device is.
ShowUserLocation ==
    /\ ~located
    /\ located' = TRUE
    /\ UNCHANGED <<worldVars, queries, mainQ, pending, matchVars, shown, points, noCafes, updates>>

WithoutRequest(i) ==
    [j \in 1 .. Len(pending) - 1 |-> IF j < i THEN pending[j] ELSE pending[j + 1]]

\* getLocationForKey answers with the location of this moment.
LocationReply(r) ==
    /\ r.kind = "location"
    /\ mainQ' = Append(mainQ, [kind |-> "moveTo", at |-> where[r.key]])
    /\ UNCHANGED noCafes

\* fetchCafeData has found a restaurant: its completion is queued.
CafesFound(r) ==
    /\ r.kind = "cafes"
    /\ mainQ' = Append(mainQ, [kind |-> "place", user |-> r.user])
    /\ UNCHANGED noCafes

\* The search fails or finds nothing: no completion is ever called.
NoCafes(r) ==
    /\ r.kind = "cafes"
    /\ noCafes' = TRUE
    /\ UNCHANGED mainQ

\* Requests are answered in any order.
Reply(i) ==
    /\ pending' = WithoutRequest(i)
    /\ LocationReply(pending[i]) \/ CafesFound(pending[i]) \/ NoCafes(pending[i])
    /\ UNCHANGED <<worldVars, queries, matchVars, shown, points, located, updates>>

----------------------------------------------------------------------------

Blocks ==
    \/ RunOpen
    \/ RunEntered
    \/ RunMatch
    \/ RunMoved
    \/ RunMoveTo
    \/ RunAnnotate
    \/ RunPlace

Enters == \E i \in 1 .. Len(queries) : \E v \in Others : Enter(i, v)

Replies == \E i \in 1 .. Len(pending) : Reply(i)

World == \E v \in Others : Register(v) \/ \E p \in Positions : Move(v, p)

Next ==
    \/ Blocks
    \/ Enters
    \/ Replies
    \/ World
    \/ DidUpdateLocations
    \/ ShowUserLocation

Spec == Init /\ [][Next]_vars

\* The main queue runs, requests are answered one way or another, a circle
\* query reports who is inside.  The device need not move again, and the map
\* need not place its own annotation.
FairSpec == Spec /\ WF_vars(Blocks) /\ WF_vars(Enters) /\ WF_vars(Replies)

----------------------------------------------------------------------------
(* What matching promises.                                                 *)

\* Completions of several searches are in flight together.  Once the map shows
\* the device and a meeting point, none of them adds a second meeting point:
\* the user is not sent to two places.
OneMeetingPoint == [][(located /\ points >= 1) => points' = points]_vars

\* A user with a profile who enters the circle of a query leads to a match,
\* even though later users are added without looking for the closest again.
EnteringLeadsToMatch ==
    \A v \in Others :
        (\E i \in 1 .. Len(queries) : v \in queries[i].known \cap queries[i].inside)
        ~> (matchedUserUUID # NoUser)

\* No annotation is ever taken off for good.  An earlier closest user whose
\* movement was reported stays, and three of them next to the device fill the
\* map before any meeting point is there.
MapIsFull == AnnotationCount >= 4

\* What became of a match: a meeting point, a search for restaurants that
\* failed - then even the match is missing on the map - or no room for it.
MatchAnswered == points >= 1 \/ noCafes \/ MapIsFull

\* A match leads to one of the three.
MatchIsPlaced == (matchedUserUUID # NoUser) ~> MatchAnswered

\* v has a profile in the snapshot of a query and is inside its circle.
IsNearby(v) == \E i \in 1 .. Len(queries) : v \in queries[i].known \cap queries[i].inside

\* The completions are chained through the queue and through requests, and
\* guards drop some of them.  When none is left nothing was dropped for good:
\* whoever is nearby has led to a match, and the match was answered.
NothingIsForgotten ==
    (mainQ = << >> /\ pending = << >>) =>
        /\ (\E v \in Others : IsNearby(v)) => matchedUserUUID # NoUser
        /\ matchedUserUUID # NoUser => MatchAnswered

\* The user whose flags are observed is the user whose name, picture and
\* number are shown: matchedUserUUID is the key of closestUser.
MatchIsObserved == closestUser # 0 => usersArray[closestUser].key = matchedUserUUID

----------------------------------------------------------------------------
(* Why nothing is forgotten: the inductive invariant.                      *)

\* One of the members of s is a block in S, or a request in S.
Has(s, S) == \E k \in 1 .. Len(s) : s[k] \in S

Matches   == {b \in Block : b.kind = "match"}
Arrivals  == {b \in Block : b.kind = "entered" /\ b.key \in b.known}
Drawings  == {b \in Block : b.kind \in {"annotate", "place"}}
Searches  == {r \in Request : r.kind = "cafes"}

\* Blocks and requests about the first n objects of the array.
BlocksAbout(n) == {b \in Block : b.kind \in {"match", "annotate", "place"} => b.user \in 1 .. n}
RequestsAbout(n) == {r \in Request : r.kind = "cafes" => r.user \in 1 .. n}

\* An object is in the array before a block or a request holds it.
ObjectsExist ==
    /\ mainQ \in Seq(BlocksAbout(Len(usersArray)))
    /\ pending \in Seq(RequestsAbout(Len(usersArray)))

\* Nothing is drawn, searched or remembered before there is a match.
MatchFirst ==
    (closestUser # 0 \/ Has(mainQ, Drawings) \/ Has(pending, Searches)) => matchedUserUUID # NoUser

\* Whoever is nearby has led to a match, or a block that makes one is queued.
NearbyIsChained ==
    (\E v \in Others : IsNearby(v)) =>
        matchedUserUUID # NoUser \/ Has(mainQ, Matches) \/ Has(mainQ, Arrivals)

\* A match is answered, or the block or the search that will do it is under way.
MatchIsChained ==
    matchedUserUUID # NoUser =>
        MatchAnswered \/ Has(mainQ, Drawings) \/ Has(pending, Searches)

ChainInv ==
    /\ ObjectsExist
    /\ MatchFirst
    /\ NearbyIsChained
    /\ MatchIsChained

=============================================================================
