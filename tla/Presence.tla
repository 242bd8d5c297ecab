------------------------------ MODULE Presence ------------------------------
(***************************************************************************)
(* What one device makes known about itself: its profile under             *)
(* Users/<uuid> and its location under User_Location/<uuid>.  The other    *)
(* devices find it by both, and by nothing else.                           *)
(*                                                                         *)
(* Four activities write there without waiting for each other: the upload  *)
(* of the profile that viewDidLoad starts, the callback of the location    *)
(* permission, the location updates, and the exits of the AppDelegate.     *)
(* UserDefaults survive the process, its fields and queued writes do not.  *)
(***************************************************************************)
EXTENDS Naturals, Sequences

CONSTANTS
    Places,       \* where the device can be; no circle holds two of them
    Nowhere,      \* the coordinate (0, 0)
    NoPlace,      \* nil, and a location that is not stored
    MaxTrips,     \* bound: changes of place
    MaxVisits,    \* bound: launches of the app and returns to it
    MaxChoices    \* bound: times the permission is changed in the settings

ASSUME PlacesAssumption == Nowhere \notin Places /\ NoPlace \notin Places \cup {Nowhere}
ASSUME BoundsAssumption == MaxTrips \in Nat /\ MaxVisits \in Nat /\ MaxChoices \in Nat

VARIABLES
    \* the world
    place,            \* where the device is
    permission,       \* to use the location while the app is in use
    \* UserDefaults
    myUUID,           \* MY_UUID: none, one of those createUserProfile knows, another
    stored,           \* name, picture, email and phone number are stored
    \* the process
    app,
    callback,         \* didChangeAuthorization is about to be called
    location,         \* locationManager.location
    currentLocation,
    tracking,         \* startUpdatingLocation has been called
    user,             \* self.user: its coordinate, NoPlace if there is no user
    lookups,          \* replies saveLocGeoFire waits for
    uploading,        \* the picture is on its way to the storage
    uploadFailed,     \* history: it did not get there
    \* the database
    own,              \* the nodes of the device as the device sees them
    outbox,           \* writes not committed yet, as the nodes they leave
    server,           \* the nodes as the others see them
    \* bounds
    trips, visits, choices

worldVars == <<place, permission, trips, choices>>
defaultsVars == <<myUUID, stored>>
placeVars == <<callback, location, currentLocation, tracking, user>>
uploadVars == <<uploading, uploadFailed>>
dbVars == <<own, outbox, server>>
vars == <<worldVars, defaultsVars, app, visits, placeVars, lookups, uploadVars, dbVars>>

----------------------------------------------------------------------------

Profile == {"name", "email", "profileImage", "phoneNumber"}

Point == Places \cup {Nowhere, NoPlace}

\* fields: the children of Users/<uuid>; g, l: the geohash and the coordinates
\* under User_Location/<uuid>.
Node == [fields : SUBSET (Profile \cup {"flags"}), g : Point, l : Point]

TypeOK ==
    /\ place \in Places
    /\ permission \in {"undecided", "granted", "denied"}
    /\ myUUID \in {"none", "known", "other"}
    /\ stored \in BOOLEAN
    /\ app \in {"dead", "foreground", "background", "terminating"}
    /\ callback \in BOOLEAN
    /\ location \in Places \cup {NoPlace}
    /\ currentLocation \in Places \cup {Nowhere}
    /\ tracking \in BOOLEAN
    /\ user \in Point
    /\ lookups \in Nat
    /\ uploading \in BOOLEAN /\ uploadFailed \in BOOLEAN
    /\ own \in Node /\ server \in Node /\ outbox \in Seq(Node)
    /\ trips \in Nat /\ visits \in Nat /\ choices \in Nat

\* A device is new, or has a MY_UUID of an earlier version of the app and no
\* profile, or has been registered and left in an orderly way.
Init ==
    /\ \/ /\ myUUID \in {"none", "known"} /\ stored = FALSE /\ permission = "undecided"
          /\ server = [fields |-> {}, g |-> NoPlace, l |-> NoPlace]
       \/ /\ myUUID = "known" /\ stored = TRUE /\ permission = "granted"
          /\ server = [fields |-> Profile \cup {"flags"}, g |-> Nowhere, l |-> Nowhere]
    /\ own = server /\ outbox = << >>
    /\ place \in Places
    /\ app = "dead" /\ callback = FALSE
    /\ location = NoPlace /\ currentLocation = Nowhere /\ tracking = FALSE
    /\ user = NoPlace /\ lookups = 0
    /\ uploading = FALSE /\ uploadFailed = FALSE
    /\ trips = 0 /\ visits = 0 /\ choices = 0

----------------------------------------------------------------------------
(* The database.                                                           *)

Running == app \in {"foreground", "background"}

\* Write the nodes one after the other: the device sees them at once.
Write(nodes) ==
    /\ own' = nodes[Len(nodes)]
    /\ outbox' = outbox \o nodes
    /\ UNCHANGED server

\* A circle around p holds the device: GeoFire asks for the nodes whose
\* geohash is near p, and takes those whose coordinates are.
FoundAt(node, p) == node.g = p /\ node.l = p

Complete(node) == Profile \subseteq node.fields

\* setLocation of GeoFire.
Placed(node, p) == [node EXCEPT !.g = p, !.l = p]

Commit ==
    /\ app # "dead"
    /\ outbox # << >>
    /\ server' = Head(outbox)
    /\ outbox' = Tail(outbox)
    /\ UNCHANGED <<worldVars, defaultsVars, app, visits, placeVars, lookups, uploadVars, own>>

----------------------------------------------------------------------------
(* The profile.                                                            *)

\* Variant: the picture is that of the upload and not of the user, so that it is
\* never erased.
PictureOfUpload(erase) ==
    LET text == Profile \ {"profileImage"}
        n1 == [own EXCEPT !.fields = IF erase THEN @ \ text ELSE @ \cup text]
    IN  <<n1, [n1 EXCEPT !.fields = @ \cup {"profileImage"}]>>

\* The four fields, written or erased one after the other.
FourWrites(erase) ==
    LET do(S, f) == IF erase THEN S \ {f} ELSE S \cup {f}
        n1 == [own EXCEPT !.fields = do(@, "name")]
        n2 == [n1 EXCEPT !.fields = do(@, "email")]
        n3 == [n2 EXCEPT !.fields = do(@, "profileImage")]
        n4 == [n3 EXCEPT !.fields = do(@, "phoneNumber")]
    IN  <<n1, n2, n3, n4>>

\* Variant: the fields are taken from the user before there is one.
WriteBackwards == Write(FourWrites(user # NoPlace))

\* Every field is "self.user?.x": without a user it is nil, which erases it.
WriteProfile == Write(FourWrites(user = NoPlace))

\* The completion of the upload that createUserProfile has started.
UploadDone ==
    /\ Running
    /\ uploading
    /\ uploading' = FALSE
    /\ stored' = TRUE
    /\ WriteProfile
    /\ UNCHANGED <<worldVars, myUUID, app, visits, placeVars, lookups, uploadFailed>>

UploadFails ==
    /\ Running
    /\ uploading
    /\ uploading' = FALSE
    /\ uploadFailed' = TRUE
    /\ UNCHANGED <<worldVars, defaultsVars, app, visits, placeVars, lookups, dbVars>>

\* The reply saveLocGeoFire waits for: a device without a node gets a name.
LookupReply ==
    /\ Running
    /\ lookups > 0
    /\ lookups' = lookups - 1
    /\ IF own.fields = {}
       THEN Write(<<[own EXCEPT !.fields = {"name"}]>>)
       ELSE UNCHANGED dbVars
    /\ UNCHANGED <<worldVars, defaultsVars, app, visits, placeVars, uploadVars>>

----------------------------------------------------------------------------
(* The location.                                                           *)

\* Variant: the location of the manager is not tested for nil.
Unwrapped(loc) == loc

\* currentLocation, once the location of the manager has been read.
FirstLocation(loc) == IF loc = NoPlace THEN currentLocation ELSE loc

\* didChangeAuthorization: with the permission and a stored profile the user
\* is created and, if it has a uuid, put on the map.
DidChangeAuthorization ==
    /\ Running
    /\ callback
    /\ callback' = FALSE
    /\ \/ /\ permission # "granted"
          /\ UNCHANGED <<location, currentLocation, tracking, user, myUUID, lookups, dbVars>>
       \/ /\ permission = "granted"
          /\ tracking' = TRUE
          /\ location' \in IF location = NoPlace THEN Places \cup {NoPlace} ELSE {location}
          /\ currentLocation' = FirstLocation(location')
          /\ user' = IF stored THEN currentLocation' ELSE user
          /\ myUUID' = IF stored /\ myUUID = "none" THEN "other" ELSE myUUID
          /\ IF stored /\ myUUID # "none"
             THEN lookups' = lookups + 1 /\ Write(<<Placed(own, currentLocation')>>)
             ELSE UNCHANGED <<lookups, dbVars>>
    /\ UNCHANGED <<worldVars, stored, app, visits, uploadVars>>

\* Variant: the call of saveLocGeoFire that is commented out.
SavedAgain == IF user = NoPlace THEN own ELSE Placed(own, user)

\* Only the two coordinates are written, the geohash stays.
Moved == [own EXCEPT !.l = place]

\* didUpdateLocations
DidUpdateLocations ==
    /\ app = "foreground"
    /\ tracking /\ permission = "granted"
    /\ location # place \/ (myUUID # "none" /\ own.l # place)
    /\ location' = place
    /\ IF myUUID # "none" THEN Write(<<Moved>>) ELSE UNCHANGED dbVars
    /\ UNCHANGED <<worldVars, defaultsVars, app, visits, callback, currentLocation, tracking,
                   user, lookups, uploadVars>>

----------------------------------------------------------------------------
(* The application and its user.                                           *)

\* viewDidLoad: ask for the permission, and upload the profile of a uuid that
\* the code knows; the picture of any other device is empty.
Launch ==
    /\ app = "dead"
    /\ visits < MaxVisits
    /\ visits' = visits + 1
    /\ app' = "foreground"
    /\ callback' = (permission # "undecided")
    /\ uploading' = (myUUID = "known")
    /\ UNCHANGED <<worldVars, defaultsVars, location, currentLocation, tracking, user, lookups,
                   uploadFailed, dbVars>>

\* The question for the permission is answered.
AnswerDialog ==
    /\ app = "foreground"
    /\ permission = "undecided"
    /\ permission' \in {"granted", "denied"}
    /\ callback' = TRUE
    /\ UNCHANGED <<place, trips, choices, defaultsVars, app, visits, location, currentLocation,
                   tracking, user, lookups, uploadVars, dbVars>>

\* The permission is changed in the settings of the phone.
ChangeSettings ==
    /\ app = "background"
    /\ choices < MaxChoices
    /\ choices' = choices + 1
    /\ permission # "undecided"
    /\ permission' \in {"granted", "denied"} \ {permission}
    /\ callback' = TRUE
    /\ UNCHANGED <<place, trips, defaultsVars, app, visits, location, currentLocation, tracking,
                   user, lookups, uploadVars, dbVars>>

Travel ==
    /\ trips < MaxTrips
    /\ trips' = trips + 1
    /\ place' \in Places \ {place}
    /\ UNCHANGED <<permission, choices, defaultsVars, app, visits, placeVars, lookups,
                   uploadVars, dbVars>>

\* Variant: only the flags of the meeting are withdrawn.
WithdrawFlags ==
    IF myUUID # "none" THEN Write(<<[own EXCEPT !.fields = @ \cup {"flags"}]>>) ELSE UNCHANGED dbVars

\* Both exits of the AppDelegate: the location becomes (0, 0), then the flags
\* of the meeting are written.
Withdraw ==
    LET n1 == Placed(own, Nowhere)
        n2 == [n1 EXCEPT !.fields = @ \cup {"flags"}]
    IN  IF myUUID # "none" THEN Write(<<n1, n2>>) ELSE UNCHANGED dbVars

DidEnterBackground ==
    /\ app = "foreground"
    /\ app' = "background"
    /\ Withdraw
    /\ UNCHANGED <<worldVars, defaultsVars, visits, placeVars, lookups, uploadVars>>

\* applicationWillEnterForeground is empty: nothing is undone.
WillEnterForeground ==
    /\ app = "background"
    /\ visits < MaxVisits
    /\ visits' = visits + 1
    /\ app' = "foreground"
    /\ UNCHANGED <<worldVars, defaultsVars, placeVars, lookups, uploadVars, dbVars>>

WillTerminate ==
    /\ Running
    /\ app' = "terminating"
    /\ Withdraw
    /\ UNCHANGED <<worldVars, defaultsVars, visits, placeVars, lookups, uploadVars>>

\* The process ends, told or not, and takes its queued writes with it.
Die ==
    /\ app # "dead"
    /\ app' = "dead"
    /\ callback' = FALSE /\ location' = NoPlace /\ currentLocation' = Nowhere
    /\ tracking' = FALSE /\ user' = NoPlace /\ lookups' = 0
    /\ uploading' = FALSE /\ uploadFailed' = FALSE
    /\ own' = server /\ outbox' = << >>
    /\ UNCHANGED <<worldVars, defaultsVars, visits, server>>

----------------------------------------------------------------------------

Device ==
    \/ UploadDone
    \/ UploadFails
    \/ LookupReply
    \/ DidChangeAuthorization
    \/ DidUpdateLocations
    \/ Commit

Person ==
    \/ Launch
    \/ AnswerDialog
    \/ ChangeSettings
    \/ Travel
    \/ DidEnterBackground
    \/ WillEnterForeground
    \/ WillTerminate
    \/ Die

Next == Device \/ Person

Spec == Init /\ [][Next]_vars

\* In the foreground callbacks come, updates are sent and replies arrive, a
\* failure being one.  Nothing is assumed of the person, nor of a device in
\* the background.
Fairness ==
    /\ WF_vars(app = "foreground" /\ (UploadDone \/ UploadFails))
    /\ WF_vars(app = "foreground" /\ LookupReply)
    /\ WF_vars(app = "foreground" /\ DidChangeAuthorization)
    /\ WF_vars(DidUpdateLocations)
    /\ WF_vars(app = "foreground" /\ Commit)

FairSpec == Spec /\ Fairness

----------------------------------------------------------------------------
(* What a device promises to the others.                                   *)

\* A device never makes itself findable in a place it knows it has left: not
\* by a permission granted again far away, not by coming back from the
\* background, and not by a coordinate of the user that has become old.
FoundWhereSeen == \A p \in Places : FoundAt(own, p) => location \in {p, NoPlace}

\* Whatever was queued before the app is terminated - places of the callback
\* and of updates, a profile - once it is all written, no circle finds the
\* device any more.
LeavesTheMap ==
    (app = "terminating" /\ outbox = << >>) => \A p \in Places : ~FoundAt(server, p)

\* The other devices pass over a user who lacks one of the four fields.
Whole(node) == Complete(node) \/ node.fields \cap Profile \subseteq {"name"}

\* A profile is never left half: once the upload of a launch has completed and
\* its writes are committed, the others see all four fields, or none but the
\* name that saveLocGeoFire gives.  The four writes may erase (there was no user
\* yet) what an earlier launch wrote, an earlier process may have died in the
\* middle of them, and three other activities write to the same nodes meanwhile.
ProfileIsWhole ==
    (/\ app # "dead" /\ myUUID = "known"
     /\ ~uploading /\ ~uploadFailed /\ outbox = << >>) => Whole(server)

\* An upload that completes when there is a user registers it: in the end the
\* others see all four fields, whatever else is written meanwhile.
UploadRegisters ==
    (app = "foreground" /\ uploading /\ user # NoPlace)
        ~> \/ ~uploading /\ outbox = << >> /\ Complete(server)
           \/ uploadFailed
           \/ app # "foreground"

\* A new installation gets a uuid, which everything else depends on.
FreshInstallRegisters ==
    (myUUID = "none" /\ app = "foreground" /\ permission = "granted")
        ~> (myUUID # "none" \/ app # "foreground")

\* A registered user who looks at the app is found where it is.
PresentIsFound ==
    \A p \in Places :
        (app = "foreground" /\ user # NoPlace /\ Complete(own) /\ tracking
            /\ permission = "granted" /\ place = p)
        ~> (FoundAt(server, p) \/ place # p \/ app # "foreground")

----------------------------------------------------------------------------
(* Why a device is found where it has been seen.                           *)

\* A device without a uuid has no profile, writes nothing and waits for nothing.
Unregistered ==
    myUUID = "none" =>
        ~stored /\ ~uploading /\ lookups = 0 /\ outbox = << >> /\ own = server

\* Only the callback puts a device on the map, and only with a stored profile:
\* until then none of its nodes, not even one on its way, has a place.
Unplaced ==
    ~stored =>
        /\ own.g \notin Places /\ server.g \notin Places
        /\ \A i \in 1 .. Len(outbox) : outbox[i].g \notin Places

\* The inductive invariant.
WhereInv == Unregistered /\ Unplaced /\ FoundWhereSeen

\* The others will see what the device sees: its last write, or what they see.
InStep == own = (IF outbox = << >> THEN server ELSE outbox[Len(outbox)])

\* The last write of a device that is being terminated has no place.
Leaving == app = "terminating" => own.g \notin Places

LeaveInv == InStep /\ Leaving

\* What a completed upload has written last is not half a profile.
Uploaded ==
    (app # "dead" /\ myUUID = "known" /\ ~uploading /\ ~uploadFailed) => Whole(own)

=============================================================================
