--------------------------- MODULE PresenceProofs ---------------------------
(***************************************************************************)
(* Proofs about what a device makes known about itself, for any number of  *)
(* places, trips, visits and changes of the permission.                    *)
(***************************************************************************)
EXTENDS Presence, TLAPS

\* What every write does to the three copies, whatever its nodes are.
LEMMA WriteType ==
    ASSUME TypeOK, NEW nodes \in Seq(Node), nodes # << >>, Write(nodes)
    PROVE  own' \in Node /\ outbox' \in Seq(Node) /\ server' \in Node /\ InStep'
<1>1. Len(nodes) \in 1 .. Len(nodes)
  OBVIOUS
<1>2. nodes[Len(nodes)] \in Node
  BY <1>1
<1>3. /\ outbox' = outbox \o nodes /\ own' = nodes[Len(nodes)]
      /\ outbox \in Seq(Node) /\ outbox' \in Seq(Node)
  BY DEF Write, TypeOK
<1>4. Len(outbox') = Len(outbox) + Len(nodes) /\ outbox' # << >>
      /\ outbox'[Len(outbox) + Len(nodes)] = nodes[Len(nodes)]
  BY <1>1, <1>3
<1>5. InStep'
  BY <1>3, <1>4 DEF InStep
<1>6. QED
  BY <1>2, <1>3, <1>5 DEF Write, TypeOK

\* One write of a node.
LEMMA OneWriteType ==
    ASSUME TypeOK, NEW n \in Node, Write(<<n>>)
    PROVE  own' = n /\ own' \in Node /\ outbox' \in Seq(Node) /\ server' \in Node /\ InStep'
<1>1. <<n>> \in Seq(Node) /\ <<n>> # << >>
  OBVIOUS
<1>2. own' = n
  BY DEF Write
<1>3. QED
  BY <1>1, <1>2, WriteType

\* The nodes of the device and the four steps of the profile stay nodes at the
\* same place.
LEMMA FourWritesType ==
    ASSUME TypeOK, NEW erase \in BOOLEAN, Write(FourWrites(erase))
    PROVE  /\ own' \in Node /\ outbox' \in Seq(Node) /\ server' \in Node
           /\ own'.g = own.g /\ own'.l = own.l
           /\ InStep'
<1>. DEFINE do(S, f) == IF erase THEN S \ {f} ELSE S \cup {f}
            n1 == [own EXCEPT !.fields = do(@, "name")]
            n2 == [n1 EXCEPT !.fields = do(@, "email")]
            n3 == [n2 EXCEPT !.fields = do(@, "profileImage")]
            n4 == [n3 EXCEPT !.fields = do(@, "phoneNumber")]
<1>1. own \in Node
  BY DEF TypeOK
<1>2. n1 \in Node /\ n1.g = own.g /\ n1.l = own.l
  BY <1>1 DEF Node, Profile
<1>3. n2 \in Node /\ n2.g = own.g /\ n2.l = own.l
  <2>. HIDE DEF n1
  <2>. QED
    BY <1>2 DEF Node, Profile
<1>4. n3 \in Node /\ n3.g = own.g /\ n3.l = own.l
  <2>. HIDE DEF n2
  <2>. QED
    BY <1>3 DEF Node, Profile
<1>5. n4 \in Node /\ n4.g = own.g /\ n4.l = own.l
  <2>. HIDE DEF n3
  <2>. QED
    BY <1>4 DEF Node, Profile
<1>6. FourWrites(erase) = <<n1, n2, n3, n4>>
  BY DEF FourWrites
<1>. HIDE DEF n1, n2, n3, n4
<1>7. FourWrites(erase) \in Seq(Node) /\ FourWrites(erase) # << >>
  BY <1>2, <1>3, <1>4, <1>5, <1>6
<1>8. own' = n4
  BY <1>6 DEF Write
<1>9. QED
  BY <1>5, <1>7, <1>8, WriteType

\* The exits leave the device nowhere, or alone if it has no uuid.
LEMMA WithdrawType ==
    ASSUME TypeOK, Withdraw
    PROVE  /\ own' \in Node /\ outbox' \in Seq(Node) /\ server' \in Node
           /\ myUUID # "none" => own'.g = Nowhere
           /\ myUUID # "none" => InStep'
           /\ myUUID = "none" => UNCHANGED dbVars
<1>1. CASE myUUID = "none"
  BY <1>1 DEF Withdraw, dbVars, TypeOK
<1>2. CASE myUUID # "none"
  <2>. DEFINE n1 == Placed(own, Nowhere)
              n2 == [n1 EXCEPT !.fields = @ \cup {"flags"}]
  <2>1. Write(<<n1, n2>>)
    BY <1>2 DEF Withdraw
  <2>2. own \in Node
    BY DEF TypeOK
  <2>3. n1 \in Node /\ n1.g = Nowhere
    BY <2>2 DEF Placed, Node, Point
  <2>. HIDE DEF n1
  <2>4. n2 \in Node /\ n2.g = Nowhere
    BY <2>3 DEF Node
  <2>. HIDE DEF n2
  <2>5. <<n1, n2>> \in Seq(Node) /\ <<n1, n2>> # << >> /\ own' = n2
    BY <2>1, <2>3, <2>4 DEF Write
  <2>6. QED
    BY <1>2, <2>1, <2>4, <2>5, WriteType
<1>3. QED
  BY <1>1, <1>2

----------------------------------------------------------------------------
(* Types.                                                                  *)

\* What the callback of the permission may do.
LEMMA CallbackMeans ==
    ASSUME TypeOK, DidChangeAuthorization
    PROVE  /\ location' \in Places \cup {NoPlace}
           /\ location # NoPlace => location' = location
           /\ currentLocation' \in Places \cup {Nowhere}
           /\ tracking' \in BOOLEAN /\ user' \in Point /\ callback' \in BOOLEAN
           /\ myUUID' \in {"none", "known", "other"} /\ lookups' \in Nat
           /\ own' \in Node /\ outbox' \in Seq(Node) /\ server' \in Node
           /\ \/ /\ UNCHANGED <<dbVars, lookups>>
                 /\ ~stored \/ myUUID = "none" \/ UNCHANGED location
              \/ /\ stored /\ myUUID # "none"
                 /\ own'.g = currentLocation'
                 /\ location' # NoPlace => currentLocation' = location'
           /\ myUUID' = "none" => myUUID = "none"
           /\ UNCHANGED <<worldVars, stored, app, visits, uploadVars>>
<1>1. CASE permission # "granted"
  BY <1>1 DEF DidChangeAuthorization, TypeOK, dbVars
<1>2. CASE permission = "granted"
  <2>1. /\ tracking' = TRUE /\ callback' = FALSE
        /\ location' \in IF location = NoPlace THEN Places \cup {NoPlace} ELSE {location}
        /\ currentLocation' = FirstLocation(location')
        /\ user' = IF stored THEN currentLocation' ELSE user
        /\ myUUID' = IF stored /\ myUUID = "none" THEN "other" ELSE myUUID
        /\ IF stored /\ myUUID # "none"
           THEN lookups' = lookups + 1 /\ Write(<<Placed(own, currentLocation')>>)
           ELSE UNCHANGED <<lookups, dbVars>>
        /\ UNCHANGED <<worldVars, stored, app, visits, uploadVars>>
    BY <1>2 DEF DidChangeAuthorization
  <2>2. /\ location' \in Places \cup {NoPlace}
        /\ location # NoPlace => location' = location
    BY <2>1 DEF TypeOK
  <2>3. /\ currentLocation' \in Places \cup {Nowhere}
        /\ location' # NoPlace => currentLocation' = location'
    BY <2>1, <2>2 DEF FirstLocation, TypeOK
  <2>4. user' \in Point /\ myUUID' \in {"none", "known", "other"} /\ (myUUID' = "none" => myUUID = "none")
    BY <2>1, <2>3 DEF TypeOK, Point
  <2>5. CASE stored /\ myUUID # "none"
    <3>1. own \in Node
      BY DEF TypeOK
    <3>2. Placed(own, currentLocation') \in Node /\ Placed(own, currentLocation').g = currentLocation'
      BY <2>3, <3>1 DEF Placed, Node, Point
    <3>3. own' = Placed(own, currentLocation') /\ own' \in Node /\ outbox' \in Seq(Node) /\ server' \in Node
      BY <2>1, <2>5, <3>2, OneWriteType
    <3>4. lookups' \in Nat
      BY <2>1, <2>5 DEF TypeOK
    <3>5. QED
      BY <2>1, <2>2, <2>3, <2>4, <2>5, <3>2, <3>3, <3>4
  <2>6. CASE ~(stored /\ myUUID # "none")
    BY <2>1, <2>2, <2>3, <2>4, <2>6 DEF dbVars, TypeOK
  <2>7. QED
    BY <2>5, <2>6
<1>3. QED
  BY <1>1, <1>2

\* Every step keeps the types.
LEMMA TypeStep == TypeOK /\ [Next]_vars => TypeOK'
<1>. SUFFICES ASSUME TypeOK, [Next]_vars
              PROVE  TypeOK'
  OBVIOUS
<1>1. CASE UNCHANGED vars
  BY <1>1 DEF vars, worldVars, defaultsVars, placeVars, uploadVars, dbVars, TypeOK
<1>2. CASE UploadDone
  <2>1. Write(FourWrites(user = NoPlace)) /\ (user = NoPlace) \in BOOLEAN
    BY <1>2 DEF UploadDone, WriteProfile
  <2>2. own' \in Node /\ outbox' \in Seq(Node) /\ server' \in Node
    BY <2>1, FourWritesType
  <2>3. QED
    BY <1>2, <2>2 DEF UploadDone, worldVars, placeVars, TypeOK
<1>3. CASE UploadFails
  BY <1>3 DEF UploadFails, worldVars, defaultsVars, placeVars, dbVars, TypeOK
<1>4. CASE LookupReply
  <2>1. own' \in Node /\ outbox' \in Seq(Node) /\ server' \in Node
    <3>1. [own EXCEPT !.fields = {"name"}] \in Node
      BY DEF TypeOK, Node, Profile
    <3>2. CASE own.fields = {}
      BY <1>4, <3>1, <3>2, OneWriteType DEF LookupReply
    <3>3. CASE own.fields # {}
      BY <1>4, <3>3 DEF LookupReply, dbVars, TypeOK
    <3>4. QED
      BY <3>2, <3>3
  <2>2. lookups' \in Nat
    BY <1>4 DEF LookupReply, TypeOK
  <2>3. QED
    BY <1>4, <2>1, <2>2 DEF LookupReply, worldVars, defaultsVars, placeVars, uploadVars, TypeOK
<1>5. CASE DidChangeAuthorization
  BY <1>5, CallbackMeans DEF worldVars, uploadVars, TypeOK
<1>6. CASE DidUpdateLocations
  <2>1. own' \in Node /\ outbox' \in Seq(Node) /\ server' \in Node
    <3>1. Moved \in Node
      BY DEF Moved, TypeOK, Node, Point
    <3>2. CASE myUUID # "none"
      BY <1>6, <3>1, <3>2, OneWriteType DEF DidUpdateLocations
    <3>3. CASE myUUID = "none"
      BY <1>6, <3>3 DEF DidUpdateLocations, dbVars, TypeOK
    <3>4. QED
      BY <3>2, <3>3
  <2>2. QED
    BY <1>6, <2>1 DEF DidUpdateLocations, worldVars, defaultsVars, uploadVars, TypeOK
<1>7. CASE Commit
  BY <1>7 DEF Commit, worldVars, defaultsVars, placeVars, uploadVars, TypeOK
<1>8. CASE Launch
  BY <1>8 DEF Launch, worldVars, defaultsVars, dbVars, TypeOK
<1>9. CASE AnswerDialog
  BY <1>9 DEF AnswerDialog, defaultsVars, uploadVars, dbVars, TypeOK
<1>10. CASE ChangeSettings
  BY <1>10 DEF ChangeSettings, defaultsVars, uploadVars, dbVars, TypeOK
<1>11. CASE Travel
  BY <1>11 DEF Travel, defaultsVars, placeVars, uploadVars, dbVars, TypeOK
<1>12. CASE DidEnterBackground \/ WillTerminate
  <2>1. /\ Withdraw /\ app' \in {"background", "terminating"}
        /\ UNCHANGED <<worldVars, defaultsVars, visits, placeVars, lookups, uploadVars>>
    BY <1>12 DEF DidEnterBackground, WillTerminate
  <2>2. QED
    BY <2>1, WithdrawType DEF worldVars, defaultsVars, placeVars, uploadVars, TypeOK
<1>13. CASE WillEnterForeground
  BY <1>13 DEF WillEnterForeground, worldVars, defaultsVars, placeVars, uploadVars, dbVars, TypeOK
<1>14. CASE Die
  <2>1. << >> \in Seq(Node)
    OBVIOUS
  <2>2. own' \in Node /\ outbox' \in Seq(Node) /\ server' \in Node
    BY <1>14, <2>1 DEF Die, TypeOK
  <2>3. QED
    BY <1>14, <2>2 DEF Die, worldVars, defaultsVars, TypeOK, Point
<1>15. QED
  BY <1>1, <1>2, <1>3, <1>4, <1>5, <1>6, <1>7, <1>8, <1>9, <1>10, <1>11, <1>12, <1>13, <1>14
     DEF Next, Device, Person

LEMMA InitType == Init => TypeOK
<1>. SUFFICES ASSUME Init PROVE TypeOK
  OBVIOUS
<1>1. server \in Node
  <2>1. CASE server = [fields |-> {}, g |-> NoPlace, l |-> NoPlace]
    BY <2>1 DEF Node, Point
  <2>2. CASE server = [fields |-> Profile \cup {"flags"}, g |-> Nowhere, l |-> Nowhere]
    BY <2>2 DEF Node, Point
  <2>3. QED
    BY <2>1, <2>2 DEF Init
<1>2. << >> \in Seq(Node)
  OBVIOUS
<1>3. own \in Node /\ outbox \in Seq(Node)
  BY <1>1, <1>2 DEF Init
<1>4. QED
  BY <1>1, <1>3 DEF Init, TypeOK, Point

\* The types of the device's whole state (Presence's variables), for every
\* value of the constants.
THEOREM TypeTheorem == Spec => []TypeOK
<1>1. Init => TypeOK
  BY InitType
<1>2. QED
  BY <1>1, TypeStep, PTL DEF Spec

----------------------------------------------------------------------------
(* Where a device is found.                                                *)

\* Nodes without a place, written by a device without one.
LEMMA UnplacedWrite ==
    ASSUME TypeOK, Unplaced, UNCHANGED stored,
           NEW nodes \in Seq(Node), nodes # << >>, Write(nodes),
           ~stored => \A i \in 1 .. Len(nodes) : nodes[i].g \notin Places
    PROVE  Unplaced'
<1>. SUFFICES ASSUME ~stored
              PROVE  /\ own'.g \notin Places /\ server'.g \notin Places
                     /\ \A i \in 1 .. Len(outbox') : outbox'[i].g \notin Places
  BY DEF Unplaced
<1>1. Len(nodes) \in 1 .. Len(nodes)
  OBVIOUS
<1>2. own'.g \notin Places /\ server'.g \notin Places
  BY <1>1 DEF Write, Unplaced
<1>3. outbox \in Seq(Node) /\ outbox' = outbox \o nodes
  BY DEF Write, TypeOK
<1>4. \A i \in 1 .. Len(outbox') : outbox'[i].g \notin Places
  <2>. TAKE i \in 1 .. Len(outbox')
  <2>1. CASE i <= Len(outbox)
    <3>1. i \in 1 .. Len(outbox) /\ outbox'[i] = outbox[i]
      BY <1>3, <2>1
    <3>2. QED
      BY <3>1 DEF Unplaced
  <2>2. CASE i > Len(outbox)
    <3>1. i - Len(outbox) \in 1 .. Len(nodes) /\ outbox'[i] = nodes[i - Len(outbox)]
      BY <1>3, <2>2
    <3>2. QED
      BY <3>1
  <2>3. QED
    BY <2>1, <2>2, <1>3
<1>5. QED
  BY <1>2, <1>4

\* The write of one node at the place of the device's own.
LEMMA UnplacedOne ==
    ASSUME TypeOK, Unplaced, UNCHANGED stored,
           NEW n \in Node, Write(<<n>>), n.g = own.g
    PROVE  Unplaced'
<1>1. <<n>> \in Seq(Node) /\ <<n>> # << >>
  OBVIOUS
<1>2. ~stored => \A i \in 1 .. Len(<<n>>) : <<n>>[i].g \notin Places
  BY DEF Unplaced
<1>3. QED
  BY <1>1, <1>2, UnplacedWrite

\* A location that is taken back.
LEMMA UnplacedWithdraw ==
    ASSUME TypeOK, Unplaced, UNCHANGED stored, Withdraw
    PROVE  Unplaced'
<1>1. CASE myUUID = "none"
  BY <1>1 DEF Withdraw, dbVars, Unplaced
<1>2. CASE myUUID # "none"
  <2>. DEFINE n1 == Placed(own, Nowhere)
              n2 == [n1 EXCEPT !.fields = @ \cup {"flags"}]
  <2>1. Write(<<n1, n2>>)
    BY <1>2 DEF Withdraw
  <2>2. own \in Node
    BY DEF TypeOK
  <2>3. n1 \in Node /\ n1.g = Nowhere
    BY <2>2 DEF Placed, Node, Point
  <2>. HIDE DEF n1
  <2>4. n2 \in Node /\ n2.g = Nowhere
    BY <2>3 DEF Node
  <2>. HIDE DEF n2
  <2>5. <<n1, n2>> \in Seq(Node) /\ <<n1, n2>> # << >>
    BY <2>3, <2>4
  <2>6. \A i \in 1 .. Len(<<n1, n2>>) : <<n1, n2>>[i].g \notin Places
    BY <2>3, <2>4, PlacesAssumption
  <2>7. QED
    BY <2>1, <2>5, <2>6, UnplacedWrite
<1>3. QED
  BY <1>1, <1>2

\* Steps that leave the place of the device's own node, what it has seen and
\* the registration alone.
LEMMA StaysFound ==
    ASSUME FoundWhereSeen, own'.g = own.g, own'.l = own.l, UNCHANGED location
    PROVE  FoundWhereSeen'
BY DEF FoundWhereSeen, FoundAt

LEMMA WhereInit == Init => WhereInv
<1>. SUFFICES ASSUME Init PROVE WhereInv
  OBVIOUS
<1>1. own = server /\ outbox = << >> /\ location = NoPlace /\ uploading = FALSE /\ lookups = 0
  BY DEF Init
<1>2. own.g \notin Places /\ (myUUID = "none" => ~stored)
  BY PlacesAssumption DEF Init
<1>3. QED
  BY <1>1, <1>2 DEF WhereInv, Unregistered, Unplaced, FoundWhereSeen

\* Every step keeps the invariant.
LEMMA WhereStep == TypeOK /\ WhereInv /\ [Next]_vars => WhereInv'
<1>. SUFFICES ASSUME TypeOK, Unregistered, Unplaced, FoundWhereSeen, [Next]_vars
              PROVE  Unregistered' /\ Unplaced' /\ FoundWhereSeen'
  BY DEF WhereInv
<1>1. CASE /\ UNCHANGED <<dbVars, stored, lookups, location>>
           /\ myUUID' = myUUID
           /\ ~uploading => ~uploading'
  <2>1. UNCHANGED <<own, outbox, server, stored, lookups, location>>
    BY <1>1 DEF dbVars
  <2>2. Unregistered' /\ Unplaced'
    BY <1>1, <2>1 DEF Unregistered, Unplaced
  <2>3. QED
    BY <2>1, <2>2, StaysFound
<1>2. CASE UploadDone
  <2>1. Write(FourWrites(user = NoPlace)) /\ (user = NoPlace) \in BOOLEAN
    BY <1>2 DEF UploadDone, WriteProfile
  <2>2. own'.g = own.g /\ own'.l = own.l
    BY <2>1, FourWritesType
  <2>3. myUUID' # "none" /\ stored' /\ UNCHANGED location
    BY <1>2 DEF UploadDone, placeVars, Unregistered
  <2>4. QED
    BY <2>2, <2>3, StaysFound DEF Unregistered, Unplaced
<1>3. CASE UploadFails
  BY <1>1, <1>3 DEF UploadFails, worldVars, defaultsVars, placeVars, dbVars
<1>4. CASE LookupReply
  <2>1. UNCHANGED <<myUUID, stored, location>> /\ myUUID # "none"
    BY <1>4 DEF LookupReply, defaultsVars, placeVars, Unregistered
  <2>2. CASE own.fields = {}
    <3>. DEFINE n == [own EXCEPT !.fields = {"name"}]
    <3>1. n \in Node /\ n.g = own.g /\ n.l = own.l
      BY DEF TypeOK, Node, Profile
    <3>2. Write(<<n>>)
      BY <1>4, <2>2 DEF LookupReply
    <3>3. own' = n
      BY <3>1, <3>2, OneWriteType
    <3>. HIDE DEF n
    <3>4. Unplaced'
      BY <2>1, <3>1, <3>2, UnplacedOne
    <3>5. QED
      BY <2>1, <3>1, <3>3, <3>4, StaysFound DEF Unregistered
  <2>3. CASE own.fields # {}
    <3>1. UNCHANGED <<own, outbox, server>>
      BY <1>4, <2>3 DEF LookupReply, dbVars
    <3>2. QED
      BY <2>1, <3>1, StaysFound DEF Unregistered, Unplaced
  <2>4. QED
    BY <2>2, <2>3
<1>5. CASE DidChangeAuthorization
  <2>1. UNCHANGED <<stored, uploading>>
    BY <1>5, CallbackMeans DEF uploadVars
  <2>2. CASE /\ UNCHANGED <<dbVars, lookups>>
             /\ ~stored \/ myUUID = "none" \/ UNCHANGED location
    <3>1. UNCHANGED <<own, outbox, server, lookups>>
      BY <2>2 DEF dbVars
    <3>2. Unregistered'
      BY <1>5, <2>1, <3>1, CallbackMeans DEF Unregistered
    <3>3. Unplaced'
      BY <2>1, <3>1 DEF Unplaced
    <3>4. CASE UNCHANGED location
      BY <3>1, <3>2, <3>3, <3>4, StaysFound
    <3>5. CASE ~stored \/ myUUID = "none"
      <4>1. own'.g \notin Places
        BY <3>1, <3>5 DEF Unregistered, Unplaced
      <4>2. QED
        BY <3>2, <3>3, <4>1 DEF FoundWhereSeen, FoundAt
    <3>6. QED
      BY <2>2, <3>4, <3>5
  <2>3. CASE /\ stored /\ myUUID # "none"
             /\ own'.g = currentLocation'
             /\ location' # NoPlace => currentLocation' = location'
    <3>1. myUUID' # "none"
      BY <1>5, <2>3, CallbackMeans
    <3>2. FoundWhereSeen'
      BY <2>3 DEF FoundWhereSeen, FoundAt
    <3>3. QED
      BY <2>1, <2>3, <3>1, <3>2 DEF Unregistered, Unplaced
  <2>4. QED
    BY <1>5, <2>2, <2>3, CallbackMeans
<1>6. CASE DidUpdateLocations
  <2>1. UNCHANGED <<myUUID, stored, lookups, uploading>> /\ location' = place
    BY <1>6 DEF DidUpdateLocations, defaultsVars, uploadVars
  <2>2. CASE myUUID # "none"
    <3>1. Moved \in Node /\ Moved.g = own.g /\ Moved.l = place
      BY DEF Moved, TypeOK, Node, Point
    <3>2. Write(<<Moved>>)
      BY <1>6, <2>2 DEF DidUpdateLocations
    <3>3. own' = Moved
      BY <3>1, <3>2, OneWriteType
    <3>4. Unplaced'
      BY <2>1, <3>1, <3>2, UnplacedOne
    <3>5. FoundWhereSeen'
      BY <2>1, <3>1, <3>3 DEF FoundWhereSeen, FoundAt
    <3>6. QED
      BY <2>1, <2>2, <3>4, <3>5 DEF Unregistered
  <2>3. CASE myUUID = "none"
    <3>1. UNCHANGED <<own, outbox, server>>
      BY <1>6, <2>3 DEF DidUpdateLocations, dbVars
    <3>2. Unregistered' /\ Unplaced'
      BY <2>1, <3>1 DEF Unregistered, Unplaced
    <3>3. own'.g \notin Places
      BY <2>3, <3>1 DEF Unregistered, Unplaced
    <3>4. QED
      BY <3>2, <3>3 DEF FoundWhereSeen, FoundAt
  <2>4. QED
    BY <2>2, <2>3
<1>7. CASE Commit
  <2>1. UNCHANGED <<myUUID, stored, lookups, uploading, own, location>> /\ myUUID # "none"
    BY <1>7 DEF Commit, defaultsVars, uploadVars, placeVars, Unregistered
  <2>2. /\ outbox \in Seq(Node) /\ outbox # << >>
        /\ server' = Head(outbox) /\ outbox' = Tail(outbox)
    BY <1>7 DEF Commit, TypeOK
  <2>3. Unplaced'
    <3>. SUFFICES ASSUME ~stored
                  PROVE  /\ server'.g \notin Places
                         /\ \A i \in 1 .. Len(outbox') : outbox'[i].g \notin Places
      BY <2>1 DEF Unplaced
    <3>1. 1 \in 1 .. Len(outbox) /\ server' = outbox[1]
      BY <2>2
    <3>2. \A i \in 1 .. Len(outbox') : i + 1 \in 1 .. Len(outbox) /\ outbox'[i] = outbox[i + 1]
      BY <2>2
    <3>3. QED
      BY <3>1, <3>2 DEF Unplaced
  <2>4. QED
    BY <2>1, <2>3, StaysFound DEF Unregistered
<1>8. CASE Launch
  BY <1>8, StaysFound DEF Launch, worldVars, defaultsVars, dbVars, Unregistered, Unplaced
<1>9. CASE AnswerDialog
  BY <1>1, <1>9 DEF AnswerDialog, defaultsVars, uploadVars
<1>10. CASE ChangeSettings
  BY <1>1, <1>10 DEF ChangeSettings, defaultsVars, uploadVars
<1>11. CASE Travel
  BY <1>1, <1>11 DEF Travel, defaultsVars, placeVars, uploadVars
<1>12. CASE DidEnterBackground \/ WillTerminate
  <2>1. Withdraw /\ UNCHANGED <<myUUID, stored, location, lookups, uploading>>
    BY <1>12 DEF DidEnterBackground, WillTerminate, defaultsVars, placeVars, uploadVars
  <2>2. Unplaced'
    BY <2>1, UnplacedWithdraw
  <2>3. CASE myUUID = "none"
    <3>1. UNCHANGED <<own, outbox, server>>
      BY <2>1, <2>3 DEF Withdraw, dbVars
    <3>2. QED
      BY <2>1, <2>2, <3>1, StaysFound DEF Unregistered
  <2>4. CASE myUUID # "none"
    <3>1. own'.g \notin Places
      BY <2>1, <2>4, WithdrawType, PlacesAssumption
    <3>2. QED
      BY <2>1, <2>2, <2>4, <3>1 DEF Unregistered, FoundWhereSeen, FoundAt
  <2>5. QED
    BY <2>3, <2>4
<1>13. CASE WillEnterForeground
  BY <1>1, <1>13 DEF WillEnterForeground, defaultsVars, placeVars, uploadVars
<1>14. CASE Die
  <2>1. /\ UNCHANGED <<myUUID, stored, server>> /\ own' = server /\ outbox' = << >>
        /\ location' = NoPlace /\ uploading' = FALSE /\ lookups' = 0
    BY <1>14 DEF Die, defaultsVars
  <2>2. QED
    BY <2>1 DEF Unregistered, Unplaced, FoundWhereSeen
<1>15. CASE UNCHANGED vars
  BY <1>1, <1>15 DEF vars, defaultsVars, placeVars, uploadVars
<1>16. QED
  BY <1>2, <1>3, <1>4, <1>5, <1>6, <1>7, <1>8, <1>9, <1>10, <1>11, <1>12, <1>13, <1>14, <1>15
     DEF Next, Device, Person

\* A device never makes itself findable in a place it knows it has left
\* (didChangeAuthorization, didUpdateLocations and the exits of the AppDelegate,
\* in any order, with any number of kills), for every value of the constants.
THEOREM WhereaboutsTheorem == Spec => []FoundWhereSeen
<1>1. TypeOK /\ WhereInv => FoundWhereSeen
  BY DEF WhereInv
<1>2. QED
  BY <1>1, InitType, TypeStep, WhereInit, WhereStep, PTL DEF Spec

----------------------------------------------------------------------------
(* A terminated device leaves the map.                                     *)

\* A step that writes nothing.
LEMMA InStepStays ==
    ASSUME InStep, UNCHANGED <<own, outbox, server>>
    PROVE  InStep'
  BY DEF InStep

\* The server follows: when the last write is committed it is the device's own
\* node, and a process that dies takes its uncommitted writes with it.
LEMMA InStepStep == TypeOK /\ InStep /\ [Next]_vars => InStep'
<1> SUFFICES ASSUME TypeOK, InStep, [Next]_vars
             PROVE  InStep'
  OBVIOUS
<1>1. CASE UploadDone
  BY <1>1, FourWritesType DEF UploadDone, WriteProfile
<1>2. CASE LookupReply
  <2>1. [own EXCEPT !.fields = {"name"}] \in Node
    BY DEF TypeOK, Node, Profile
  <2>2. \/ Write(<<[own EXCEPT !.fields = {"name"}]>>)
        \/ UNCHANGED dbVars
    BY <1>2 DEF LookupReply
  <2>3. QED
    BY <2>1, <2>2, OneWriteType, InStepStays DEF dbVars
<1>3. CASE DidChangeAuthorization
  <2>1. CASE UNCHANGED dbVars
    BY <2>1, InStepStays DEF dbVars
  <2>2. CASE Write(<<Placed(own, currentLocation')>>)
    <3>1. currentLocation' \in Point
      BY <1>3, CallbackMeans DEF Point
    <3>2. Placed(own, currentLocation') \in Node
      BY <3>1 DEF Placed, TypeOK, Node
    <3>3. QED
      BY <2>2, <3>2, OneWriteType
  <2>3. QED
    BY <1>3, <2>1, <2>2 DEF DidChangeAuthorization
<1>4. CASE DidUpdateLocations
  <2>1. Moved \in Node
    BY DEF Moved, TypeOK, Node, Point
  <2>2. Write(<<Moved>>) \/ UNCHANGED dbVars
    BY <1>4 DEF DidUpdateLocations
  <2>3. QED
    BY <2>1, <2>2, OneWriteType, InStepStays DEF dbVars
<1>5. CASE Commit
  <2>1. /\ outbox \in Seq(Node) /\ outbox # << >> /\ own' = own
        /\ server' = Head(outbox) /\ outbox' = Tail(outbox)
    BY <1>5 DEF Commit, TypeOK
  <2>2. own = outbox[Len(outbox)]
    BY <2>1 DEF InStep
  <2>3. CASE Len(outbox) = 1
    BY <2>1, <2>2, <2>3 DEF InStep
  <2>4. CASE Len(outbox) # 1
    <3>1. Len(outbox) \in Nat /\ Len(outbox) - 1 >= 1
      <4>1. outbox \in Seq(Node) /\ outbox # << >>
        BY <2>1
      <4>2. Len(outbox) \in Nat /\ Len(outbox) # 0
        BY <4>1
      <4>3. QED
        BY <2>4, <4>2
    <3>2. /\ Len(Tail(outbox)) = Len(outbox) - 1
          /\ Tail(outbox)[Len(outbox) - 1] = outbox[(Len(outbox) - 1) + 1]
      BY <2>1, <3>1
    <3>3. Tail(outbox) # << >> /\ (Len(outbox) - 1) + 1 = Len(outbox)
      BY <2>1, <3>1, <3>2
    <3>4. outbox'[Len(outbox')] = own' /\ outbox' # << >>
      BY <2>1, <2>2, <3>2, <3>3
    <3>5. QED
      BY <3>4 DEF InStep
  <2>5. QED
    BY <2>3, <2>4
<1>6. CASE DidEnterBackground \/ WillTerminate
  <2>1. Withdraw
    BY <1>6 DEF DidEnterBackground, WillTerminate
  <2>2. QED
    BY <2>1, WithdrawType, InStepStays DEF dbVars
<1>7. CASE Die
  BY <1>7 DEF Die, InStep
<1>8. CASE UploadFails \/ Launch \/ AnswerDialog \/ ChangeSettings \/ Travel \/ WillEnterForeground
  <2>1. UNCHANGED dbVars
    BY <1>8 DEF UploadFails, Launch, AnswerDialog, ChangeSettings, Travel, WillEnterForeground
  <2>2. QED
    BY <2>1, InStepStays DEF dbVars
<1>9. CASE UNCHANGED vars
  BY <1>9, InStepStays DEF vars, dbVars
<1>10. QED
  BY <1>1, <1>2, <1>3, <1>4, <1>5, <1>6, <1>7, <1>8, <1>9 DEF Next, Device, Person

\* Once the app is being terminated nothing but the exit has written last.
LEMMA LeavingStep == TypeOK /\ WhereInv /\ Leaving /\ [Next]_vars => Leaving'
<1> SUFFICES ASSUME TypeOK, WhereInv, Leaving, [Next]_vars, app' = "terminating"
             PROVE  own'.g \notin Places
  BY DEF Leaving
<1>1. CASE WillTerminate
  <2>1. Withdraw
    BY <1>1 DEF WillTerminate
  <2>2. CASE myUUID # "none"
    BY <2>1, <2>2, WithdrawType, PlacesAssumption
  <2>3. CASE myUUID = "none"
    <3>1. own' = own
      BY <2>1, <2>3, WithdrawType DEF dbVars
    <3>2. own.g \notin Places
      BY <2>3 DEF WhereInv, Unregistered, Unplaced
    <3>3. QED
      BY <3>1, <3>2
  <2>4. QED
    BY <2>2, <2>3
<1>2. CASE Commit \/ Travel \/ UNCHANGED vars
  <2>1. app' = app /\ own' = own
    BY <1>2 DEF Commit, Travel, vars, dbVars
  <2>2. QED
    BY <2>1 DEF Leaving
<1>3. CASE UploadDone \/ UploadFails \/ LookupReply \/ DidChangeAuthorization
           \/ DidUpdateLocations \/ AnswerDialog \/ ChangeSettings
  <2>1. app' = app /\ app # "terminating"
    BY <1>3 DEF UploadDone, UploadFails, LookupReply, DidChangeAuthorization, DidUpdateLocations,
       AnswerDialog, ChangeSettings, Running
  <2>2. QED
    BY <2>1
<1>4. CASE Launch \/ DidEnterBackground \/ WillEnterForeground \/ Die
  BY <1>4 DEF Launch, DidEnterBackground, WillEnterForeground, Die
<1>5. QED
  BY <1>1, <1>2, <1>3, <1>4 DEF Next, Device, Person

\* Whatever the device had queued before it was terminated, once all of it is
\* written no circle finds it (applicationWillTerminate).
THEOREM LeavingTheorem == Spec => []LeavesTheMap
<1>1. Init => LeaveInv
  BY DEF Init, LeaveInv, InStep, Leaving
<1>2. TypeOK /\ WhereInv /\ LeaveInv /\ [Next]_vars => LeaveInv'
  BY InStepStep, LeavingStep DEF LeaveInv
<1>3. LeaveInv => LeavesTheMap
  BY DEF LeaveInv, InStep, Leaving, LeavesTheMap, FoundAt
<1>4. QED
  BY <1>1, <1>2, <1>3, InitType, TypeStep, WhereInit, WhereStep, PTL DEF Spec

----------------------------------------------------------------------------
(* A profile is never left half.                                           *)

\* The four writes leave all of the profile or nothing of it.
LEMMA FourWritesWhole ==
    ASSUME TypeOK, NEW erase \in BOOLEAN, Write(FourWrites(erase))
    PROVE  Whole(own')
<1>. DEFINE do(S, f) == IF erase THEN S \ {f} ELSE S \cup {f}
            n1 == [own EXCEPT !.fields = do(@, "name")]
            n2 == [n1 EXCEPT !.fields = do(@, "email")]
            n3 == [n2 EXCEPT !.fields = do(@, "profileImage")]
            n4 == [n3 EXCEPT !.fields = do(@, "phoneNumber")]
<1>1. own \in Node
  BY DEF TypeOK
<1>2. n1 \in Node /\ n1.fields = do(own.fields, "name")
  BY <1>1 DEF Node, Profile
<1>3. n2 \in Node /\ n2.fields = do(n1.fields, "email")
  <2>. HIDE DEF n1
  <2>. QED
    BY <1>2 DEF Node, Profile
<1>4. n3 \in Node /\ n3.fields = do(n2.fields, "profileImage")
  <2>. HIDE DEF n2
  <2>. QED
    BY <1>3 DEF Node, Profile
<1>5. n4.fields = do(n3.fields, "phoneNumber")
  <2>. HIDE DEF n3
  <2>. QED
    BY <1>4 DEF Node
<1>6. own' = n4
  BY DEF Write, FourWrites
<1>. HIDE DEF n1, n2, n3, n4
<1>7. CASE erase
  <2>1. own'.fields \cap Profile = {}
    BY <1>2, <1>3, <1>4, <1>5, <1>6, <1>7 DEF Profile
  <2>2. QED
    BY <2>1 DEF Whole
<1>8. CASE ~erase
  BY <1>2, <1>3, <1>4, <1>5, <1>6, <1>8 DEF Whole, Complete, Profile
<1>9. QED
  BY <1>7, <1>8

\* A node that differs in its place or in the flags only.
LEMMA WholeSame ==
    ASSUME NEW m, NEW n, Whole(m), n.fields \cap Profile = m.fields \cap Profile
    PROVE  Whole(n)
  BY DEF Whole, Complete

\* What has been uploaded is not made half by anything else the device writes.
LEMMA UploadedStep == TypeOK /\ Uploaded /\ [Next]_vars => Uploaded'
<1> SUFFICES ASSUME TypeOK, Uploaded, [Next]_vars,
                    app' # "dead", myUUID' = "known", ~uploading', ~uploadFailed'
             PROVE  Whole(own')
  BY DEF Uploaded
<1>1. own \in Node
  BY DEF TypeOK
<1>2. CASE UploadDone
  BY <1>2, FourWritesWhole DEF UploadDone, WriteProfile
<1>3. CASE LookupReply
  <2>1. CASE own.fields = {}
    <3>1. own' = [own EXCEPT !.fields = {"name"}]
      BY <1>3, <2>1 DEF LookupReply, Write
    <3>2. own'.fields = {"name"}
      BY <1>1, <3>1 DEF Node
    <3>3. QED
      BY <3>2 DEF Whole
  <2>2. CASE own.fields # {}
    BY <1>3, <2>2 DEF LookupReply, dbVars, worldVars, defaultsVars, uploadVars, Running, Uploaded
  <2>3. QED
    BY <2>1, <2>2
<1>4. CASE DidChangeAuthorization
  <2>1. /\ app' = app /\ Running /\ uploading' = uploading /\ uploadFailed' = uploadFailed
        /\ own' = own \/ own' = Placed(own, currentLocation')
    BY <1>4 DEF DidChangeAuthorization, Write, dbVars, uploadVars
  <2>2. myUUID = "known"
    BY <1>4 DEF DidChangeAuthorization
  <2>3. Whole(own)
    BY <2>1, <2>2 DEF Uploaded
  <2>4. own'.fields = own.fields
    BY <1>1, <2>1 DEF Placed, Node
  <2>5. QED
    BY <2>3, <2>4, WholeSame
<1>5. CASE DidUpdateLocations
  <2>1. own' = own \/ own' = Moved
    BY <1>5 DEF DidUpdateLocations, Write, dbVars
  <2>2. own'.fields = own.fields
    BY <1>1, <2>1 DEF Moved, Node
  <2>3. Whole(own)
    BY <1>5 DEF DidUpdateLocations, defaultsVars, uploadVars, Uploaded
  <2>4. QED
    BY <2>2, <2>3, WholeSame
<1>6. CASE DidEnterBackground \/ WillTerminate
  <2>1. app # "dead" /\ myUUID = "known" /\ ~uploading /\ ~uploadFailed /\ Withdraw
    BY <1>6 DEF DidEnterBackground, WillTerminate, defaultsVars, uploadVars, Running
  <2>2. Whole(own)
    BY <2>1 DEF Uploaded
  <2>3. own'.fields = own.fields \cup {"flags"}
    <3>. DEFINE n1 == Placed(own, Nowhere)
    <3>1. n1 \in Node /\ n1.fields = own.fields
      BY <1>1 DEF Placed, Node, Point
    <3>2. own' = [n1 EXCEPT !.fields = @ \cup {"flags"}]
      BY <2>1 DEF Withdraw, Write
    <3>. HIDE DEF n1
    <3>3. QED
      BY <3>1, <3>2 DEF Node
  <2>4. QED
    BY <2>2, <2>3, WholeSame DEF Profile
<1>7. CASE Launch
  BY <1>7 DEF Launch, defaultsVars
<1>8. CASE UploadFails \/ Die
  BY <1>8 DEF UploadFails, Die
<1>9. CASE Commit \/ AnswerDialog \/ ChangeSettings \/ Travel \/ WillEnterForeground \/ UNCHANGED vars
  <2>1. /\ own' = own /\ app # "dead" /\ myUUID' = myUUID
        /\ uploading' = uploading /\ uploadFailed' = uploadFailed
    BY <1>9 DEF Commit, AnswerDialog, ChangeSettings, Travel, WillEnterForeground, vars,
       defaultsVars, uploadVars, dbVars
  <2>2. QED
    BY <2>1 DEF Uploaded
<1>10. QED
  BY <1>2, <1>3, <1>4, <1>5, <1>6, <1>7, <1>8, <1>9 DEF Next, Device, Person

\* Once the upload of a launch has completed and everything is committed, the
\* others see the whole profile or none of it but a name
\* (MainViewController.createUserProfile).
THEOREM WholeTheorem == Spec => []ProfileIsWhole
<1>1. Init => InStep /\ Uploaded
  BY DEF Init, InStep, Uploaded
<1>2. TypeOK /\ InStep /\ Uploaded /\ [Next]_vars => InStep' /\ Uploaded'
  BY InStepStep, UploadedStep
<1>3. InStep /\ Uploaded => ProfileIsWhole
  BY DEF InStep, Uploaded, ProfileIsWhole
<1>4. QED
  BY <1>1, <1>2, <1>3, InitType, TypeStep, PTL DEF Spec

=============================================================================
