# HeadsUp in TLA+

HeadsUp is an iOS application: it finds a user close by, asks both for their
consent to meet, suggests a topic, runs a timer while they talk, and lets each
decide whether the other may see their phone number. Every device runs the same
code; there is no server code. Devices coordinate only through a Firebase
Realtime Database, whose `Users/<uuid>` nodes carry three consent flags, and
through GeoFire locations under `User_Location`.

All paths below are relative to `src/HeadsUp/HeadsUp/` unless they start with `src/`.

## 1. Inventory

| Component | State it keeps | Operations | Made correct by |
|---|---|---|---|
| Meeting protocol, `MainViewController.swift` | the view in front (searching, profile, talking), `user.matchedUserUUID`, `isObserving`, `isStarted`, `timer`, `seconds`, the topic | key entered, completion of `findClosestUser`, MEET and its reply, START and its reply, two observers on `Users`, `runTimer`/`updateTimer`, `displayRandomTopic` | nobody passes a consent alone; both pass it when both have given it; the match is settled once agreed; a topic appears |
| Talk timer, `TimerViewController.swift` | `seconds`, `timer` | `updateTimer`, segue to the review | reached in order only |
| Review, `ReviewViewController.swift` | the number on display, the notes with their placeholder | share the number, observe the flag, edit | a number is shown with consent, and then it is shown |
| Lifecycle, `AppDelegate.swift` | none of its own; writes location (0, 0) and the flags | background, foreground, terminate | consent is withdrawn, and nothing is left in disagreement with it |
| Users nearby, `C/DataManager.swift`, `M/MatchUsers.swift` | `usersArray`, `closestUser` | `addNearbyUser`, `findClosestUser`, `dataAnnotations` | the closest user is the closest, and is the one whose flags are observed |
| Meeting point, `M/LocateCafe.swift`, `M/CafeModel.swift`, `C/NetworkManager.m` | none | midpoint, request for restaurants | the annotations belong to the match |
| Registration, `M/User.swift`, `createUserProfile` | the profile in `UserDefaults`, the node in `Users` | authorization, upload, `saveLocGeoFire` | every user is registered eventually, with a complete profile |
| `Users` tree (Firebase client and service) | server tree, local copy, queued writes, updates on their way | local write, commit, listen, apply, disconnect | external |
| Circle queries (GeoFire, `src/HeadsUp/Pods/GeoFire`) | what is inside the circle | key entered, moved, exited | external |
| Shells and layout (`ProfileCell`, `ProfileTableView`, `ViewLayoutConstraint`, storyboards) | none | none | not modelled |

How they interact. Everything the application does runs as a block on the main
queue of a device. A button asks for the `Users` tree and acts in the reply; a
location update asks for it and opens a circle query in the reply; keys that
enter the circle are queued, and so are the completions of `findClosestUser`; a
write to the own node is visible at once on the device and raises events there
before the server has seen it. A block carries a snapshot or a key captured
when it was queued and reads the fields of the controller when it runs. Between
the two, anything can happen: that is where the hazards are.

What is hard here: stale snapshots and captured keys; consent that is stored
twice (a flag in the database, a field on the device) and withdrawn once;
suspension and kill between a tap and its reply; a connection that breaks
between a commit and its event; observers that are the only source of an
effect (the topic); a location stored in two parts that are written at different
moments; four activities that write to the nodes of a device without waiting for
each other; a counter whose expiry does nothing. PROJECT.json lists
each at its line.

## 2. Modules

`UsersTree` (external). `db` is the tree on the server, `cache[u]` the copy of
device `u`, `outbox[u]` its writes in order, `inbox[u]` the updates sent to it,
`listening[u]`/`loaded[u]` the listen request. Its contract: a write changes the
own copy at once; the server commits in order and forwards each commit to
listening devices; a device that connects gets the whole tree first; a lost
connection loses what was on its way to the device but not its queued writes; a
process that ends loses them. A device writes its own node only, so a write is
represented by the node it leaves.

`MeetSession` extends it with the application: one action per handler.

| Action | Code |
|---|---|
| `KeyEntered`, `RunMatch` | `MainViewController` 116-146: guard on `closestUser == nil` when the key enters, match recorded in the queued completion |
| `TapMeet`, `RunMeet` | `startMeeting` 248-281: the tap takes the snapshot, the reply writes, sets the fields, and looks at the match's flag in the snapshot |
| `TapStart`, `RunStart` | `handleStartTalking` 327-353, in the same way |
| `RunValue` | one value event on `Users`: `setupMeetObserver` 283-309, then `setupStartObserver` 312-324 |
| `UpdateTimer` | 380-387; at zero it does nothing |
| `TopicReply` | `displayRandomTopic` 363-373 |
| `UpdateTalkTimer` | `TimerViewController` 31-39 |
| `ShowPhoneNumber`, `RunReview` | `ReviewViewController` 117-135 |
| `Launch` | `viewDidLoad` and the first authorization callback, 45-96, for a user with a complete profile |
| `DidEnterBackground`, `WillEnterForeground`, `WillTerminate` | `AppDelegate` 31-72 |
| `Die`, `Disconnect`, `Commit`, `Listen`, `Receive` | the process and the network (external) |

`ValueEvents` says what a change of a device's tree queues: one event for the
two observers of the main screen, one for the review screen if it is there, and
none when the value is unchanged. Four history variables record what users have
done, and no action reads them: `accepted`, `begun` and `shared` only grow; `given`
holds the flags a device has set since it last withdrew them, and an exit empties it.

Details that were abstracted: the profile data, labels, images and the map; a
flag is absent, false or true; a topic is hidden, being fetched or shown; a
timer is a number in `timers`, and `timerLive` says whether `self.timer` is one
of them, since `runTimer` overwrites the reference without invalidating it.
The observer does not tell an own-node event from another one, and neither does
the model.

`Rendezvous` is the abstract specification: what a meeting promises, without
queues, snapshots or observers. A user chooses a partner, agrees, meets, begins,
talks, and is informed of the partner's number; each gate opens only when the
partner has given the consent it asks for, and a user looks at what the partner
has done, not at a copy of a flag. `MeetRefinement` maps `MeetSession` to it: the
stage of a user is read off `isObserving`, `screen`, `isStarted`, `presented` and
`phoneShown`, the rest off the histories. `MeetingRefined` says that every step of
the devices is a step of the abstract meeting or changes nothing there.

`Matchmaker` is one device between a location update and the map.

| Action | Code |
|---|---|
| `DidUpdateLocations`, `RunOpen` | `MainViewController` 98-114: ask for the tree; the reply opens one more circle query, which keeps the snapshot |
| `Enter`, `Move` | GeoFire, `GFQuery.updateLocationInfo`: a key enters a circle, moves inside it, or leaves it, which nobody observes |
| `RunEntered` | 116-149 with `addNearbyUser` and `findClosestUser` of `DataManager`: the profile is looked up in the snapshot of the query; while there is no closest user a completion is queued |
| `RunMatch` | the completion: `matchedUserUUID` is the captured key, `closestUser` the captured user; `placeAnnotations` looks for the closest again |
| `RunMoved`, `RunMoveTo` | `keyMoved` 151-176 and the reply of `getLocationForKey` |
| `RunAnnotate`, `Reply`, `RunPlace` | `dataAnnotations`, `fetchCafeData` and the request behind it, the second test of `placeAnnotations` |
| `Register`, `ShowUserLocation` | a profile completed elsewhere; the map's own annotation |

A `User` object is its index in `usersArray`, since objects are compared by
identity and the same user is added once per query. The hops between the answer
of the restaurant service and the last completion are one step: the moment of the
answer is arbitrary anyway. Positions are the points 0 to 2 of a line with circles
of radius 1, so a user can be inside, outside, nearer and farther.

`Presence` is what one device makes known about itself: its profile under
`Users/<uuid>` and its location under `User_Location/<uuid>`, which is how the
other devices find it.

| Action | Code |
|---|---|
| `Launch` | `viewDidLoad` 45-57, and `createUserProfile` 424-446 up to the start of the upload: only the uuids the code knows have a picture |
| `UploadDone`, `UploadFails` | the completion of the upload, 447-472: the profile is stored, and four writes take their values from `self.user?`, which is nil until the callback of the permission |
| `DidChangeAuthorization` | 59-84: location of the manager if it has one, guards on the stored profile, a new `User`, `saveLocGeoFire` or a new `MY_UUID` |
| `LookupReply` | `User.saveLocGeoFire` 38-44: a device without a node gets a name |
| `DidUpdateLocations` | 98-104: the coordinates are written, the geohash is not |
| `DidEnterBackground`, `WillEnterForeground`, `WillTerminate` | `AppDelegate` 31-72: location (0, 0) and the flags; the return undoes nothing |
| `AnswerDialog`, `ChangeSettings`, `Travel`, `Commit`, `Die` | the person, the database and the process (external) |

`own` is the pair of nodes as the device sees them, `server` as the others do,
`outbox` the writes between. `UserDefaults` (`myUUID`, `stored`) survive a process,
its fields and queued writes do not. A location has the two parts of GeoFire, `g`
by which it is searched (`GFQuery.m` 199-203) and `l` by which it is accepted
(`GFQuery.m` 219-222); `FoundAt` needs both. A `place` stands for everything one
circle can hold; two places are never in one circle.

`Nearest` defines the closest of a list, `ClosestUser` is the loop of
`MatchUsers.findClosestUser`, and `Matchmaker` uses the definition that the loop
is proved to return. `MeetSession` and `Matchmaker` meet in `matchedUserUUID`: for
`MeetSession` a match is the captured key alone, since every consent is read from
the node of that key; that the user on display may be another one is what
`Matchmaker` adds.

`MCMeetSession` gives the constants of `MeetRefinement` their values: `Pair` (two
users who can only find each other), `Ring` (three users, each finding the next).

## 3. Runs

| Run | Question | Bounds | Outcome |
|---|---|---|---|
| `disrupted` | Can a consent be passed alone, or be missed, or be seen after it was withdrawn, whatever interrupts? | 2 users, one interruption of any of the four kinds, 1 request queued at a time | `TypeOK`, `BothAccepted`, `BothBegan`, `QuietMeansSeen`, `WithdrawalArrives`, `ProgressInv`, `MeetingRefined` hold |
| `review` | Does a number appear only with consent, and is a shared one never missed? Is the invariant of the proofs an invariant? Does a late completion take a user back? | 2 users, 2 requests queued, both timers of 1 second | `PhoneNeedsConsent`, `SessionInv`, `QuietMeansSeen`, `PartnerIsSettled`, `MeetingRefined` hold |
| `live` | Does everything both sides consented to happen on both sides? | 2 users, one lost connection | `AgreementIsSeen`, `StartIsSeen`, `TopicAppears`, `PhoneAppears` hold |
| `ring` | Is the consent of the match a consent to this user? | 3 users in a ring | violated |
| `background` | Is consent still seen after one visit to the background? | 2 users, one background | violated |
| `relaunch` | Does the topic appear after one kill? | 2 users, one kill | violated |
| `match_map` | Does a user who enters lead to a match, a match to a meeting point, and completions in flight never to a second one? Is nothing forgotten when nothing is left to run? | 2 others on 3 positions, 1 movement or registration, 1 location update, restaurants found or not | `TypeOK`, `NothingIsForgotten`, `ChainInv`, `OneMeetingPoint`, `EnteringLeadsToMatch`, `MatchIsPlaced` hold |
| `closest` | Does the loop return the closest? | arrays of up to 4 users at 4 distances | `ReturnsFirstNearest` holds |
| `observed` | Is the user on display the one whose flags are observed? | 2 others, 1 location update | violated |
| `presence` | Is a device found only where it has been seen, does a terminated one disappear, does an upload register its user, and is no profile left half? | 2 places, 1 trip, 2 launches or returns, 1 change of the permission, kills at any moment | `TypeOK`, `FoundWhereSeen`, `LeavesTheMap`, `ProfileIsWhole`, `UploadRegisters` hold |
| `fresh_install` | Does a new installation get a uuid? | as `presence` | violated |
| `present_found` | Is a registered user who looks at the app found? | as `presence` | violated |

Why the bounds are enough. The observers only compare the own fields with the
flags of one other node, so two users meet every combination; the third user
matters for the ring only (that a user with several others nearby keeps its match
is theorem `SettledTheorem`, for every nearby relation). A second request queued behind
the first is what makes a stale completion possible, and the queue itself is
not bounded: events are appended freely, `MaxQueue` only limits new requests.
One interruption at any moment is already enough for each disagreement found;
two at once multiply the states; they matter to `WithdrawalArrives`, where a flag
may come from an earlier process that was killed, and there theorem
`WithdrawalTheorem` covers any number. The counters start at
0 or 1 instead of 60: only zero is tested by the code. Deadlock is not checked
since a meeting ends: on the review screen nothing is left to do.

In `Matchmaker`, two other users are needed for a captured key to differ from the
closest user, and both may enter before the first completion runs. Two movements (a
user leaves the circle and is added again as a second object) and two location
updates were explored as well, with the same outcome. `MatchIsPlaced` and
`NothingIsForgotten` name three ends of a match: a meeting point; a search without a
restaurant, recorded in `noCafes`, since all three annotations, the match included,
depend on it (`M/LocateCafe.swift:55`), against the comment at
`MainViewController.swift:144`; and a full map. The third is beyond these bounds: it
takes four other users, two location updates and two movements, after which three
users who were the closest in turn have been put on the map by the replies of
`keyMoved` and none has been taken off. Such a behaviour was followed with TLC to a
match that never gets a meeting point; theorem `NothingForgottenTheorem` covers it
and every other.

In `Presence` one trip is enough to make a location old, two visits are enough for a
kill and a relaunch, or for a visit to the background and a return, and one change
of the permission for a second callback. Longer histories repeat these; for
`FoundWhereSeen`, `LeavesTheMap` and `ProfileIsWhole` the proofs cover them all.

Fairness (`FairSpec`). A device in the foreground runs its queue and its
timers, and its writes, its listen request and its updates get through. That is
what the main queue and the database client do. Nothing is assumed of what
users press, of whether they come back from the background, of a suspended
process, or of `KeyEntered`; interruptions are never forced. In `Matchmaker` the
queue runs, requests are answered one way or another and a query reports who is
inside; the device need not move again. In `Presence` a device in the foreground is
called back, gets location updates and replies, and its writes are committed; an
upload may fail, and nothing is assumed in the background.

### What the violated runs show

* `ring`. `agreedToMeet` names no partner. `src/README.md:5` speaks of users who
  "have both accepted to meet"; with three users each talks with a match who
  accepted somebody else.
* `background`. `applicationDidEnterBackground` withdraws the flag, and leaves
  `isObserving` and the disabled MEET button: after the return the user cannot
  agree again, and the match waits forever while the user itself can go on.
* `relaunch`. Only the observer displays a topic. After a kill the own flag is
  still true in the database, repeating the write raises no event, and the
  talking screen stays without a topic.
* `observed`. Two users inside the first circle enter before the first completion
  runs. The second completion sets `matchedUserUUID` to the second key and
  `closestUser` to the nearer of the two: one user's name and phone number are
  shown while the other's consent is observed (`MainViewController.swift:130`).
* `fresh_install`. `MY_UUID` is created in the callback of the permission, behind
  guards on the stored profile (`MainViewController.swift:67-79`); the profile is
  stored by `createUserProfile` alone, which needs `MY_UUID` (line 426) and one of
  four uuids the code knows. A new installation stays without a uuid, and so without
  a node, a location and a query.
* `present_found`. Only the callback of the permission writes the geohash, and
  `didUpdateLocations` moves the coordinates away from it (line 103; the call that
  would write both is commented out at line 102). A user is not found in its place
  when the manager had an old location at the callback, or none, when the user has
  moved since, or has come back from the background, where both parts became (0, 0).

Four facts read off the code without a run of their own: a match who never agrees is
never given up, since `updateTimer` does nothing at zero (line 382), against the
comment at line 290; a profile completed after a query was opened is passed over
by that query (line 120), until the device moves and opens another; an upload that
completes before the permission has made a user writes nil four times (lines 468-471)
and erases what an earlier launch registered, until the next launch uploads it again,
so that `ProfileIsWhole` can only say whole or empty; and a user who
was the closest once stays on the map, since `keyMoved` replaces the annotation of the
closest user only (lines 164-166), so that the map may be full before a meeting point
is on it (line 186).

## 4. Proofs

All invariants and action properties of the passing runs are theorems; the
table at the end of this section says which.

`UsersTreeProofs` proves, for each of the tree's operations, that it keeps the types
and that it keeps `Converges`: the copy a listening device has of a node is the
server's, or becomes it with the last update on its way to the device, and the
server's node becomes the owner's with the last write in its outbox. A lost
connection empties an inbox, and keeps `Converges` because it ends the listening too.
`MeetSessionProofs` proves `TypeCorrect`: `Spec => []TypeOK`, one lemma per
action. It is not immediate: that `timers` stays a natural number needs that
`self.timer`, when live, is one of the scheduled timers.

`MeetSafetyProofs` proves `SessionCorrect`: `Spec => []SessionInv`. None of the
safety properties is inductive: `BothAccepted` speaks of screens, but a screen
changes on a snapshot that was taken long before, so the snapshot must be known
to be truthful. `SessionInv` adds three things.

1. `CopiesAreHonest`: a node that says "agreed" exists only where its owner has
   agreed, wherever the copy is: on the server, in a cache, in an outbox, in an
   inbox, or in a block on a main queue. Histories only grow, so honesty is
   never lost (`HistoryStep`).
2. `QueueInOrder`: a queued block fits the screen it will find. In particular no
   completion of `findClosestUser` waits behind a reply to MEET: completions are
   queued only before the first of them has shown a match, and MEET can be
   pressed only after. Hence no match changes after consent.
3. `StepsInOrder`: matched, agreed, talking, started, timer and number are
   reached in this order, each with what it required.

From it follow `AgreementTheorem` (`BothAccepted`), `StartTheorem`
(`BothBegan`), `PhoneTheorem` (`PhoneNeedsConsent`) and `SettledTheorem`
(`PartnerIsSettled`). They hold for every set of users, every
nearby relation, all timer lengths, any number and kind of interruptions and
any queue length, from the named assumptions on the constants in `MeetSession`.

`MeetRefinementProofs` proves `RefinementTheorem`: `Spec => MeetingRefined`. Initial
states map to initial states; each action is mapped to one abstract action or to a
stutter, depending on the stage the user is in. `SessionInv` is what makes the
mapping work: a device passes a gate on the flag in a snapshot, and the partner has
given that consent because copies are honest; a device cannot skip a stage because
the steps are in order and queued blocks fit the screen. It carries the safety
of `Rendezvous` to the devices for every set of users and any interruptions.

`MeetProgressProofs` proves `NothingMissedTheorem`: `Spec => []QuietMeansSeen`. It is
what `AgreementIsSeen`, `StartIsSeen` and `PhoneAppears` claim without their
fairness: once nothing is on its way between a user and its match, no consent of the
match that stands on the server is one the user should have acted on and has not.
A device takes a consent from the snapshot of its own tap if it was early and from
an event if it was late, so the proof must show that none falls between the two.
`ProgressInv` says why (`ProgressCorrect`):

1. `Converges`: what a match has written reaches the copy of the user.
2. `ActsOnConsent`: when the copy has a consent the user awaits, the event that acts
   on it is on the queue. A copy changes only together with such an event, and a
   user begins to await a consent in the reply to a tap, which looks at its snapshot.
3. `TapsAreFollowed`: if that snapshot is older than the copy, an event with the
   newer node is behind the reply.
4. `MatchedIsLoaded`: before the tree is loaded there is no match, so that the first
   event of a launch cannot come too early to be noticed.

A step removes a block from a queue, changes the fields, and adds events, in this
order; the lemmas about queues take the queue and the copy as parameters to follow it.

It also proves `WithdrawalTheorem`: `Spec => []WithdrawalArrives`. The flags that
`SessionInv` speaks of are never taken back, since its histories only grow; here
they are. `LeftBehind` is the invariant: a device that has left, by the background or
by the end, stands by every flag its own copy of its node shows. The last of the three
writes leaves no flag; a reply that runs behind it on a suspended device sets one, and
the field with it; no update from the server touches the own node (`Converges`). And
`Converges` carries that node to the other devices once nothing is on its way.

`MatchmakerProofs` proves `OnePointTheorem`: `Spec => OneMeetingPoint`, for any number
of users, positions and completions in flight. `MapInv` says that a meeting point
never comes without a user on the map, so that a map with the device and a
meeting point holds four annotations, and the second test of `placeAnnotations`
stops every later one.

It also proves the types (`TypeTheorem`) and `NothingForgottenTheorem`:
`Spec => []NothingIsForgotten`, what `EnteringLeadsToMatch` and `MatchIsPlaced` claim
without their fairness. The types need that there is a closest object in every
array that is not empty: the nearest distance is the smallest member of a set of
naturals, and the first index at that distance the smallest of another, by the
well-ordering of Nat. They also need `ObjectsExist`: blocks and requests hold only
objects that are in the array already, and the array never shrinks.

`ChainInv` (`ChainTheorem`) follows the chain of completions: whoever is nearby has led to a match, or the block that makes
one is queued (`NearbyIsChained`); a match is answered, or a block or a search that
will answer it is under way (`MatchIsChained`). The guards that drop a completion are
harmless because of `MatchFirst` and of what a full map means: the guard on
`closestUser` drops one only when there is a match, the tests of `placeAnnotations`
only when there is a meeting point or no room for one.

`PresenceProofs` proves the types and `WhereaboutsTheorem`: `Spec => []FoundWhereSeen`.
The property alone is not inductive: the callback may learn a location without
writing it, when no profile is stored. `WhereInv` adds that then none of the nodes of
the device, even on its way to the server, has a place (`Unplaced`), and that a
device without a uuid has no profile and waits for nothing (`Unregistered`).
`LeavingTheorem` is `Spec => []LeavesTheMap`: `Leaving` says that the last location
written before the end has no place, and `InStep` that what is written last is what
the server has in the end, so that no earlier write can come after it.
`WholeTheorem` is `Spec => []ProfileIsWhole`: `Uploaded` says that after the four writes
the own node is whole or has none of the four but a name, and every other writer leaves
the profile alone; `InStep` brings that to the server.

`ClosestUserProofs` proves `ClosestTheorem`: the loop returns the first of the
users at the shortest distance, for arrays of every length. `LoopInv` says that
the prefix behind the loop is settled.

| Property | Theorem |
|---|---|
| `TypeOK` of `MeetSession`, `Matchmaker`, `Presence` | `TypeCorrect`, `TypeTheorem`, `TypeTheorem` |
| `SessionInv`, `BothAccepted`, `BothBegan`, `PhoneNeedsConsent` | `SessionCorrect`, `AgreementTheorem`, `StartTheorem`, `PhoneTheorem` |
| `PartnerIsSettled` | `SettledTheorem` |
| `ProgressInv`, `QuietMeansSeen`, `WithdrawalArrives` | `ProgressCorrect`, `NothingMissedTheorem`, `WithdrawalTheorem` |
| `MeetingRefined` | `RefinementTheorem` |
| `ChainInv`, `NothingIsForgotten`, `OneMeetingPoint` | `ChainTheorem`, `NothingForgottenTheorem`, `OnePointTheorem` |
| `FoundWhereSeen`, `LeavesTheMap`, `ProfileIsWhole` | `WhereaboutsTheorem`, `LeavingTheorem`, `WholeTheorem` |
| `ReturnsFirstNearest` | `ClosestTheorem` |

Only model-checked: the liveness properties `AgreementIsSeen`, `StartIsSeen`,
`TopicAppears`, `PhoneAppears`, `EnteringLeadsToMatch`, `MatchIsPlaced` and
`UploadRegisters`, since fairness and leads-to are outside the reach of the prover,
and everything in the violated runs.

## 5. Not modelled

* A second callback of the permission during a meeting: it replaces `self.user`, which
  resets `isObserving`, `isStarted` and `matchedUserUUID` while screens and buttons
  stay. `Presence` follows its effect on the location; `MeetSession` has one callback
  per launch, and its invariant would not survive a second one, nor is there a
  document that says what should happen.
* `Matchmaker`, `MeetSession` and `Presence` in one state space. They share
  `matchedUserUUID`, the nodes and the lifecycle, and each takes from the others what
  it needs as a constant or an arbitrary choice (who is nearby, which profiles exist,
  what has been consented). Even the bounds of `disrupted` and `review` together
  exceed what can be explored.
* The notes of the review screen with their placeholder, and name and picture: text
  on one screen that nothing else reads. `MainViewController.renew` has no caller.
* The trigonometry of `LocateCafe` and the distances of Core Location (floating point),
  the HTTP request to the restaurant service and the parsing of its answer, layout,
  images and labels.
* The vendored libraries under `src/HeadsUp/Pods` (Firebase, gRPC, BoringSSL, Protobuf
  and others), beyond the contracts of `UsersTree`, of the circle queries and of
  `setLocation`. They are nearly all of the C code of the repository and none of the
  application's own; the mapped definitions cover the application's Swift and the few
  functions of GeoFire it depends on.
