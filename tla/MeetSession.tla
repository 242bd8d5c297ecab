---------------------------- MODULE MeetSession ----------------------------
(***************************************************************************)
(* One meeting between users of HeadsUp, from launch to the review screen. *)
(*                                                                         *)
(* Every device runs MainViewController, then TimerViewController, then    *)
(* ReviewViewController.  All their code runs as blocks on the main queue  *)
(* of the device: completions of findClosestUser, replies to               *)
(* observeSingleEvent, and value events of the observers on "Users".  A    *)
(* block carries the snapshot taken when it was queued and reads the       *)
(* fields of the view controller when it runs; the devices meet only in    *)
(* the Users tree.                                                         *)
(*                                                                         *)
(* Who is found nearby is a constant here; how a device picks a match out  *)
(* of the users nearby is the subject of Matchmaker.                       *)
(***************************************************************************)
EXTENDS UsersTree

CONSTANTS
    NoUser,          \* no match yet: matchedUserUUID and closestUser are nil
    Nearby,          \* Nearby[u]: users whose key can enter a circle query of u
    StoredTopics,    \* the numbers that exist under "Topics" in the database
    MeetSeconds,     \* MainViewController.seconds at launch (60 in the code)
    TalkSeconds,     \* TimerViewController.seconds at launch (60 in the code)
    Disruptions,     \* the kinds of interruption that may happen
    MaxDisruptions,  \* bound: interruptions in one behaviour
    MaxQueue,        \* bound: blocks queued on a device when a new request is made
    FollowReview     \* bound: FALSE stops at the end of the talk

TopicNumbers == 0 .. 4      \* arc4random_uniform(5)

ASSUME NoUserAssumption == NoUser \notin Users
ASSUME NearbyAssumption == Nearby \in [Users -> SUBSET Users] /\ \A u \in Users : u \notin Nearby[u]
ASSUME TopicsAssumption == StoredTopics \subseteq TopicNumbers
ASSUME SecondsAssumption == MeetSeconds \in Nat /\ TalkSeconds \in Nat
ASSUME BoundsAssumption ==
    /\ Disruptions \subseteq {"background", "terminate", "kill", "disconnect"}
    /\ MaxDisruptions \in Nat
    /\ MaxQueue \in Nat
    /\ FollowReview \in BOOLEAN

VARIABLES
    app,          \* app[u]: the state UIApplication is in on device u
    mainQ,        \* mainQ[u]: blocks waiting on the main queue of u
    matched,      \* user.matchedUserUUID, set together with closestUser
    isObserving,  \* user.isObserving; the MEET button is enabled until it is set
    isStarted,    \* user.isStarted; the START button is enabled until it is set
    screen,       \* the front one of searchingView, profileView, talkingView
    presented,    \* the view controller in front
    topic,        \* topicTextView: hidden, being fetched, shown
    timers,       \* repeating timers that runTimer has scheduled and that still fire
    timerLive,    \* self.timer is one of them
    seconds,      \* MainViewController.seconds
    talkLeft,     \* TimerViewController.seconds
    phoneShown,   \* ReviewViewController displays the phone number of the match
    accepted,     \* history: accepted[u] are the users u has agreed to meet
    begun,        \* history: begun[u] are the users u has pressed START with
    shared,       \* history: u has pressed the button that shares its phone number
    given,        \* history: given[u] are the flags u has set since it last withdrew them
    disruptions   \* interruptions so far

meetVars  == <<matched, isObserving, isStarted>>
viewVars  == <<screen, presented, topic, phoneShown>>
timerVars == <<timers, timerLive, seconds, talkLeft>>
histVars  == <<accepted, begun, shared, given>>
vars == <<treeVars, app, mainQ, meetVars, viewVars, timerVars, histVars, disruptions>>

----------------------------------------------------------------------------

FlagName == {"agreedToMeet", "agreedToStart", "showPhoneNumber"}

MatchBlock == [kind : {"match"}, key : Users]
SnapBlock == [kind : {"meet", "start", "value", "review"}, snap : Tree]
Block == MatchBlock \cup SnapBlock

TypeOK ==
    /\ TreeTypeOK
    /\ app \in [Users -> {"dead", "foreground", "background", "terminating"}]
    /\ mainQ \in [Users -> Seq(Block)]
    /\ matched \in [Users -> Users \cup {NoUser}]
    /\ isObserving \in [Users -> BOOLEAN]
    /\ isStarted \in [Users -> BOOLEAN]
    /\ screen \in [Users -> {"searching", "profile", "talking"}]
    /\ presented \in [Users -> {"main", "timer", "review"}]
    /\ topic \in [Users -> {"hidden", "fetching", "shown"}]
    /\ timers \in [Users -> Nat]
    /\ timerLive \in [Users -> BOOLEAN]
    /\ seconds \in [Users -> 0 .. MeetSeconds]
    /\ talkLeft \in [Users -> 0 .. TalkSeconds]
    /\ phoneShown \in [Users -> BOOLEAN]
    /\ accepted \in [Users -> SUBSET Users]
    /\ begun \in [Users -> SUBSET Users]
    /\ shared \in [Users -> BOOLEAN]
    /\ given \in [Users -> SUBSET FlagName]
    /\ disruptions \in Nat

Init ==
    /\ TreeInit
    /\ app = [u \in Users |-> "dead"]
    /\ mainQ = [u \in Users |-> << >>]
    /\ matched = [u \in Users |-> NoUser]
    /\ isObserving = [u \in Users |-> FALSE]
    /\ isStarted = [u \in Users |-> FALSE]
    /\ screen = [u \in Users |-> "searching"]
    /\ presented = [u \in Users |-> "main"]
    /\ topic = [u \in Users |-> "hidden"]
    /\ timers = [u \in Users |-> 0]
    /\ timerLive = [u \in Users |-> FALSE]
    /\ seconds = [u \in Users |-> MeetSeconds]
    /\ talkLeft = [u \in Users |-> TalkSeconds]
    /\ phoneShown = [u \in Users |-> FALSE]
    /\ accepted = [u \in Users |-> {}]
    /\ begun = [u \in Users |-> {}]
    /\ shared = [u \in Users |-> FALSE]
    /\ given = [u \in Users |-> {}]
    /\ disruptions = 0

----------------------------------------------------------------------------
(* The main queue.                                                         *)

\* A process that exists and has not been told to terminate runs its queue.
Running(u) == app[u] \in {"foreground", "background"}

\* The block of kind k is the next one on the main queue of u.
Next_is(u, k) == Running(u) /\ mainQ[u] # << >> /\ Head(mainQ[u]).kind = k

\* Variant: observers that, like observeSingleEvent, get the first value only.
ValueEventsOnce(u, from, to) == << >>

\* Variant: the review screen gets the first value only.
MainScreenEvents(u, from, to) ==
    IF from = to THEN << >> ELSE <<[kind |-> "value", snap |-> to]>>

\* What a change of the tree of u from one value to another puts on the main
\* queue: setupMeetObserver and setupStartObserver get one event, the
\* observer of the review screen another; an unchanged tree raises none.
ValueEvents(u, from, to) ==
    IF from = to THEN << >>
    ELSE IF presented[u] = "review"
         THEN <<[kind |-> "value", snap |-> to], [kind |-> "review", snap |-> to]>>
         ELSE <<[kind |-> "value", snap |-> to]>>

\* The tree of u with its own node replaced.
WithOwn(u, node) == [cache[u] EXCEPT ![u] = node]

\* Bound: a device makes a new request only while its queue is short.
QueueIsShort(u) == Len(mainQ[u]) < MaxQueue

\* The user can touch the view s of the main screen.
OnScreen(u, s) == app[u] = "foreground" /\ presented[u] = "main" /\ screen[u] = s

----------------------------------------------------------------------------
(* Matching.                                                               *)

\* Variant: matching goes on until the users talk.
NotTalkingYet(u) == screen[u] # "talking"

\* dataManager.closestUser is nil.
NoMatchYet(u) == matched[u] = NoUser

\* A key with a complete profile enters a circle query of u.  With no closest
\* user yet, findClosestUser queues its completion, which captures the key.
KeyEntered(u, k) ==
    /\ Running(u)
    /\ loaded[u]
    /\ k \in Nearby[u]
    /\ NoMatchYet(u)
    /\ QueueIsShort(u)
    /\ mainQ' = [mainQ EXCEPT ![u] = Append(@, [kind |-> "match", key |-> k])]
    /\ UNCHANGED <<treeVars, app, meetVars, viewVars, timerVars, histVars, disruptions>>

\* The completion of findClosestUser: the match is recorded and shown.
RunMatch(u) ==
    /\ Next_is(u, "match")
    /\ matched' = [matched EXCEPT ![u] = Head(mainQ[u]).key]
    /\ screen' = [screen EXCEPT ![u] = "profile"]
    /\ mainQ' = [mainQ EXCEPT ![u] = Tail(@)]
    /\ UNCHANGED <<treeVars, app, isObserving, isStarted, presented, topic, phoneShown,
                   timerVars, histVars, disruptions>>

----------------------------------------------------------------------------
(* Agreeing to meet.                                                       *)

\* The MEET button: ask for the Users tree, which the observers keep loaded.
TapMeet(u) ==
    /\ OnScreen(u, "profile")
    /\ ~isObserving[u]
    /\ QueueIsShort(u)
    /\ mainQ' = [mainQ EXCEPT ![u] = Append(@, [kind |-> "meet", snap |-> cache[u]])]
    /\ UNCHANGED <<treeVars, app, meetVars, viewVars, timerVars, histVars, disruptions>>

\* The flag f of the match of u in the snapshot t; no match has no flags.
MatchFlag(u, t, f) == IF matched[u] = NoUser THEN "absent" ELSE t[matched[u]][f]

\* Variant: the flag is only looked for, as hasChild does, and its value is not read.
FlagExists(u, t, f) == MatchFlag(u, t, f) # "absent"

\* The match of u agrees to f in the snapshot t.
Agreed(u, t, f) == MatchFlag(u, t, f) = "true"

\* The reply to startMeeting: agree, and go on if the match agreed before.
RunMeet(u) ==
    LET snap == Head(mainQ[u]).snap
        node == [cache[u][u] EXCEPT !.agreedToMeet = "true"]
    IN  /\ Next_is(u, "meet")
        /\ LocalWrite(u, <<node>>)
        /\ mainQ' = [mainQ EXCEPT ![u] = Tail(@) \o ValueEvents(u, cache[u], WithOwn(u, node))]
        /\ isObserving' = [isObserving EXCEPT ![u] = TRUE]
        /\ screen' = [screen EXCEPT ![u] =
                        IF Agreed(u, snap, "agreedToMeet") THEN "talking" ELSE @]
        /\ accepted' = [accepted EXCEPT ![u] = @ \cup ({matched[u]} \ {NoUser})]
        /\ given' = [given EXCEPT ![u] = @ \cup {"agreedToMeet"}]
        /\ UNCHANGED <<app, matched, isStarted, presented, topic, phoneShown, timerVars,
                       begun, shared, disruptions>>

----------------------------------------------------------------------------
(* Starting to talk.                                                       *)

\* The START button.
TapStart(u) ==
    /\ OnScreen(u, "talking")
    /\ ~isStarted[u]
    /\ QueueIsShort(u)
    /\ mainQ' = [mainQ EXCEPT ![u] = Append(@, [kind |-> "start", snap |-> cache[u]])]
    /\ UNCHANGED <<treeVars, app, meetVars, viewVars, timerVars, histVars, disruptions>>

\* performSegue("timerSegue"): a controller that already presents another one
\* refuses to present a second.
PerformTimerSegue(u) ==
    presented' = [presented EXCEPT ![u] = IF @ = "main" THEN "timer" ELSE @]

\* The reply to handleStartTalking.
RunStart(u) ==
    LET snap == Head(mainQ[u]).snap
        node == [cache[u][u] EXCEPT !.agreedToStart = "true"]
    IN  /\ Next_is(u, "start")
        /\ LocalWrite(u, <<node>>)
        /\ mainQ' = [mainQ EXCEPT ![u] = Tail(@) \o ValueEvents(u, cache[u], WithOwn(u, node))]
        /\ isStarted' = [isStarted EXCEPT ![u] = TRUE]
        /\ IF Agreed(u, snap, "agreedToStart") THEN PerformTimerSegue(u) ELSE UNCHANGED presented
        /\ begun' = [begun EXCEPT ![u] = @ \cup ({matched[u]} \ {NoUser})]
        /\ given' = [given EXCEPT ![u] = @ \cup {"agreedToStart"}]
        /\ UNCHANGED <<app, matched, isObserving, screen, topic, phoneShown, timerVars,
                       accepted, shared, disruptions>>

----------------------------------------------------------------------------
(* The observers on "Users".                                               *)

\* runTimer: schedule one more repeating timer and forget the previous one.
RunTimer(u) ==
    /\ timers' = [timers EXCEPT ![u] = @ + 1]
    /\ timerLive' = [timerLive EXCEPT ![u] = TRUE]

\* Variant: a timer that was never scheduled is counted as stopped.
InvalidateWithoutCheck(u) ==
    /\ timers' = [timers EXCEPT ![u] = @ - 1]
    /\ timerLive' = [timerLive EXCEPT ![u] = FALSE]

\* self.timer.invalidate(): only the timer scheduled last can be stopped.
InvalidateTimer(u) ==
    /\ timers' = [timers EXCEPT ![u] = IF timerLive[u] THEN @ - 1 ELSE @]
    /\ timerLive' = [timerLive EXCEPT ![u] = FALSE]

\* Variant: no topic when the screen is already there.
TopicOnFirstDisplay(u) ==
    topic' = [topic EXCEPT ![u] = IF screen[u] = "talking" THEN @ ELSE "fetching"]

\* displayRandomTopic: ask for the stored topics.  Another topic than the one
\* on display is not told apart from it.
DisplayRandomTopic(u) ==
    topic' = [topic EXCEPT ![u] = IF @ = "hidden" THEN "fetching" ELSE @]

\* Variant: the own consent is not asked for.
MatchAgrees(u, snap) == Agreed(u, snap, "agreedToMeet")

BothAgree(u, snap) == Agreed(u, snap, "agreedToMeet") /\ isObserving[u]

\* One of the two has agreed; a match without the flag counts for neither.
OneAgrees(u, snap) ==
    MatchFlag(u, snap, "agreedToMeet") = IF isObserving[u] THEN "false" ELSE "true"

\* Variant: a match who has not agreed is reset, as the comment at line 290
\* says, and nobody asks whether the users talk already.
BackOnRefusal(u, snap) ==
    \/ /\ BothAgree(u, snap)
       /\ InvalidateTimer(u)
       /\ screen' = [screen EXCEPT ![u] = "talking"]
       /\ DisplayRandomTopic(u)
    \/ /\ ~BothAgree(u, snap)
       /\ OneAgrees(u, snap)
       /\ RunTimer(u)
       /\ screen' = [screen EXCEPT ![u] = "profile"]
       /\ UNCHANGED topic
    \/ /\ ~BothAgree(u, snap)
       /\ ~OneAgrees(u, snap)
       /\ UNCHANGED <<timers, timerLive, screen, topic>>

\* The block of setupMeetObserver: go on if both agree, run the counter down
\* if one of the two does, do nothing otherwise.
MeetObserver(u, snap) ==
    \/ /\ BothAgree(u, snap)
       /\ InvalidateTimer(u)
       /\ screen' = [screen EXCEPT ![u] = "talking"]
       /\ DisplayRandomTopic(u)
    \/ /\ ~BothAgree(u, snap)
       /\ OneAgrees(u, snap)
       /\ RunTimer(u)
       /\ UNCHANGED <<screen, topic>>
    \/ /\ ~BothAgree(u, snap)
       /\ ~OneAgrees(u, snap)
       /\ UNCHANGED <<timers, timerLive, screen, topic>>

\* Variant: the own START is not asked for.
StartOnMatchAlone(u, snap) ==
    IF Agreed(u, snap, "agreedToStart") THEN PerformTimerSegue(u) ELSE UNCHANGED presented

\* Variant: setupStartObserver is not called, its view being hidden.
StartNotObserved(u, snap) == UNCHANGED presented

\* The block of setupStartObserver.
StartObserver(u, snap) ==
    IF Agreed(u, snap, "agreedToStart") /\ isStarted[u]
    THEN PerformTimerSegue(u)
    ELSE UNCHANGED presented

\* One value event: both observers, in the order they were registered.
RunValue(u) ==
    /\ Next_is(u, "value")
    /\ MeetObserver(u, Head(mainQ[u]).snap)
    /\ StartObserver(u, Head(mainQ[u]).snap)
    /\ mainQ' = [mainQ EXCEPT ![u] = Tail(@)]
    /\ UNCHANGED <<treeVars, app, meetVars, phoneShown, seconds, talkLeft, histVars, disruptions>>

\* updateTimer of the main screen; at zero it does nothing ("renew" is
\* commented out), which is a stuttering step.
UpdateTimer(u) ==
    /\ app[u] = "foreground"
    /\ timers[u] > 0
    /\ seconds[u] >= 1
    /\ seconds' = [seconds EXCEPT ![u] = @ - 1]
    /\ UNCHANGED <<treeVars, app, mainQ, meetVars, viewVars, timers, timerLive, talkLeft,
                   histVars, disruptions>>

\* The reply to displayRandomTopic; a number that is not stored shows nothing.
TopicReply(u) ==
    /\ Running(u)
    /\ topic[u] = "fetching"
    /\ \E n \in TopicNumbers :
          topic' = [topic EXCEPT ![u] = IF n \in StoredTopics THEN "shown" ELSE "hidden"]
    /\ UNCHANGED <<treeVars, app, mainQ, meetVars, screen, presented, phoneShown, timerVars,
                   histVars, disruptions>>

----------------------------------------------------------------------------
(* The talk and the review.                                                *)

\* updateTimer of TimerViewController.  At zero its timer is invalidated and
\* the review screen appears, whose observer first gets the current tree.
UpdateTalkTimer(u) ==
    /\ app[u] = "foreground"
    /\ presented[u] = "timer"
    /\ \/ /\ talkLeft[u] >= 1
          /\ talkLeft' = [talkLeft EXCEPT ![u] = @ - 1]
          /\ UNCHANGED <<presented, mainQ>>
       \/ /\ talkLeft[u] < 1
          /\ FollowReview
          /\ presented' = [presented EXCEPT ![u] = "review"]
          /\ mainQ' = [mainQ EXCEPT ![u] = Append(@, [kind |-> "review", snap |-> cache[u]])]
          /\ UNCHANGED talkLeft
    /\ UNCHANGED <<treeVars, app, meetVars, screen, topic, phoneShown, timers, timerLive,
                   seconds, histVars, disruptions>>

\* The button that shares one's phone number.  Bound: not pressed again while
\* the flag is set, when it would only repeat the write.
ShowPhoneNumber(u) ==
    LET node == [cache[u][u] EXCEPT !.showPhoneNumber = "true"]
    IN  /\ app[u] = "foreground"
        /\ presented[u] = "review"
        /\ cache[u][u].showPhoneNumber # "true"
        /\ LocalWrite(u, <<node>>)
        /\ mainQ' = [mainQ EXCEPT ![u] = @ \o ValueEvents(u, cache[u], WithOwn(u, node))]
        /\ shared' = [shared EXCEPT ![u] = TRUE]
        /\ given' = [given EXCEPT ![u] = @ \cup {"showPhoneNumber"}]
        /\ UNCHANGED <<app, meetVars, viewVars, timerVars, accepted, begun, disruptions>>

\* Variant: the flag of the wrong user.
OwnNumberShared(u, snap) == snap[u].showPhoneNumber = "true"

\* The match lets u see its phone number.
NumberShared(u, snap) == Agreed(u, snap, "showPhoneNumber")

\* The observer of ReviewViewController.
RunReview(u) ==
    /\ Next_is(u, "review")
    /\ phoneShown' = [phoneShown EXCEPT ![u] =
                        @ \/ NumberShared(u, Head(mainQ[u]).snap)]
    /\ mainQ' = [mainQ EXCEPT ![u] = Tail(@)]
    /\ UNCHANGED <<treeVars, app, meetVars, screen, presented, topic, timerVars, histVars,
                   disruptions>>

----------------------------------------------------------------------------
(* The application and the network.                                        *)

\* A fresh process: viewDidLoad and the first authorization callback of a
\* user whose profile is complete.  All fields have their initial values.
Launch(u) ==
    /\ app[u] = "dead"
    /\ app' = [app EXCEPT ![u] = "foreground"]
    /\ UNCHANGED <<treeVars, mainQ, meetVars, viewVars, timerVars, histVars, disruptions>>

Disrupt(kind) ==
    /\ kind \in Disruptions
    /\ disruptions < MaxDisruptions
    /\ disruptions' = disruptions + 1

\* Variant: every write is of a whole node, the one that was read first.
WithdrawnFromOne(u) ==
    <<[cache[u][u] EXCEPT !.agreedToMeet = "false"],
      [cache[u][u] EXCEPT !.agreedToStart = "false"],
      [cache[u][u] EXCEPT !.showPhoneNumber = "false"]>>

\* The nodes of u after each of the three writes that take its consent back.
Withdrawn(u) ==
    LET n1 == [cache[u][u] EXCEPT !.agreedToMeet = "false"]
        n2 == [n1 EXCEPT !.agreedToStart = "false"]
        n3 == [n2 EXCEPT !.showPhoneNumber = "false"]
    IN  <<n1, n2, n3>>

\* Both exits of the AppDelegate write the three flags one after the other;
\* every write that changes the tree raises its own events.
WithdrawConsent(u) ==
    LET w == Withdrawn(u)
    IN  /\ LocalWrite(u, w)
        /\ mainQ' = [mainQ EXCEPT ![u] = @
                        \o ValueEvents(u, cache[u], WithOwn(u, w[1]))
                        \o ValueEvents(u, WithOwn(u, w[1]), WithOwn(u, w[2]))
                        \o ValueEvents(u, WithOwn(u, w[2]), WithOwn(u, w[3]))]
        /\ given' = [given EXCEPT ![u] = {}]

\* applicationDidEnterBackground
DidEnterBackground(u) ==
    /\ app[u] = "foreground"
    /\ Disrupt("background")
    /\ app' = [app EXCEPT ![u] = "background"]
    /\ WithdrawConsent(u)
    /\ UNCHANGED <<meetVars, viewVars, timerVars, accepted, begun, shared>>

\* applicationWillEnterForeground is empty: nothing is undone.
WillEnterForeground(u) ==
    /\ app[u] = "background"
    /\ app' = [app EXCEPT ![u] = "foreground"]
    /\ UNCHANGED <<treeVars, mainQ, meetVars, viewVars, timerVars, histVars, disruptions>>

\* applicationWillTerminate
WillTerminate(u) ==
    /\ Running(u)
    /\ Disrupt("terminate")
    /\ app' = [app EXCEPT ![u] = "terminating"]
    /\ WithdrawConsent(u)
    /\ UNCHANGED <<meetVars, viewVars, timerVars, accepted, begun, shared>>

\* The memory of the process is gone: the fields of the view controllers and
\* of the user object are what their initializers make them.
ResetFields(u) ==
    /\ matched' = [matched EXCEPT ![u] = NoUser]
    /\ isObserving' = [isObserving EXCEPT ![u] = FALSE]
    /\ isStarted' = [isStarted EXCEPT ![u] = FALSE]
    /\ screen' = [screen EXCEPT ![u] = "searching"]
    /\ presented' = [presented EXCEPT ![u] = "main"]
    /\ topic' = [topic EXCEPT ![u] = "hidden"]
    /\ timers' = [timers EXCEPT ![u] = 0]
    /\ timerLive' = [timerLive EXCEPT ![u] = FALSE]
    /\ seconds' = [seconds EXCEPT ![u] = MeetSeconds]
    /\ talkLeft' = [talkLeft EXCEPT ![u] = TalkSeconds]
    /\ phoneShown' = [phoneShown EXCEPT ![u] = FALSE]

\* The process ends: after applicationWillTerminate at any moment, or killed.
Die(u) ==
    /\ \/ app[u] = "terminating" /\ UNCHANGED disruptions
       \/ Running(u) /\ Disrupt("kill")
    /\ app' = [app EXCEPT ![u] = "dead"]
    /\ mainQ' = [mainQ EXCEPT ![u] = << >>]
    /\ ForgetClient(u)
    /\ ResetFields(u)
    /\ UNCHANGED histVars

Disconnect(u) ==
    /\ app[u] # "dead"
    /\ Disrupt("disconnect")
    /\ DropConnection(u)
    /\ UNCHANGED <<app, mainQ, meetVars, viewVars, timerVars, histVars>>

Commit(u) ==
    /\ app[u] # "dead"
    /\ ServerCommits(u)
    /\ UNCHANGED <<app, mainQ, meetVars, viewVars, timerVars, histVars, disruptions>>

Listen(u) ==
    /\ app[u] # "dead"
    /\ ServerAnswersListen(u)
    /\ UNCHANGED <<app, mainQ, meetVars, viewVars, timerVars, histVars, disruptions>>

\* An update arrives: the first one raises the initial events of the
\* observers, a later one raises events if it changes the tree.
Receive(u) ==
    /\ Running(u)
    /\ ApplyUpdate(u)
    /\ mainQ' = [mainQ EXCEPT ![u] = @ \o
                    (IF loaded[u] THEN ValueEvents(u, cache[u], TreeAfterUpdate(u))
                                  ELSE <<[kind |-> "value", snap |-> TreeAfterUpdate(u)]>>)]
    /\ UNCHANGED <<app, meetVars, viewVars, timerVars, histVars, disruptions>>

----------------------------------------------------------------------------

Buttons(u) ==
    \/ TapMeet(u)
    \/ TapStart(u)
    \/ ShowPhoneNumber(u)

Blocks(u) ==
    \/ RunMatch(u)
    \/ RunMeet(u)
    \/ RunStart(u)
    \/ RunValue(u)
    \/ RunReview(u)

Clocks(u) ==
    \/ UpdateTimer(u)
    \/ UpdateTalkTimer(u)

Network(u) ==
    \/ Commit(u)
    \/ Listen(u)
    \/ Receive(u)
    \/ TopicReply(u)

Lifecycle(u) ==
    \/ Launch(u)
    \/ DidEnterBackground(u)
    \/ WillEnterForeground(u)
    \/ WillTerminate(u)
    \/ Die(u)
    \/ Disconnect(u)

Next ==
    \E u \in Users :
        \/ \E k \in Users : KeyEntered(u, k)
        \/ Buttons(u)
        \/ Blocks(u)
        \/ Clocks(u)
        \/ Network(u)
        \/ Lifecycle(u)

Spec == Init /\ [][Next]_vars

\* A device in the foreground keeps running its queue and its timers, and the
\* network eventually delivers.  Nothing is assumed of what users touch, of
\* when they come back to the app, or of a suspended process.
Fairness ==
    \A u \in Users :
        /\ WF_vars(app[u] = "foreground" /\ Blocks(u))
        /\ WF_vars(UpdateTimer(u))
        /\ WF_vars(UpdateTalkTimer(u))
        /\ WF_vars(app[u] = "foreground" /\ Commit(u))
        /\ WF_vars(app[u] = "foreground" /\ Listen(u))
        /\ WF_vars(app[u] = "foreground" /\ Receive(u))
        /\ WF_vars(app[u] = "foreground" /\ TopicReply(u))

FairSpec == Spec /\ Fairness

----------------------------------------------------------------------------
(* What the meeting promises.                                              *)

\* Nobody stands on the talking screen unless both sides have agreed to meet:
\* the user to meet this very match, the match to meet somebody.  Consent is
\* read from snapshots, some older than the write they are compared with.
BothAccepted ==
    \A u \in Users : screen[u] = "talking" =>
        /\ isObserving[u]
        /\ matched[u] \in accepted[u]
        /\ accepted[matched[u]] # {}

\* The talk timer only appears after both sides have pressed START, which
\* takes that both had reached the talking screen, which takes that both had
\* agreed: the two barriers cannot be passed out of order.
BothBegan ==
    \A u \in Users : presented[u] # "main" =>
        /\ isStarted[u]
        /\ matched[u] \in begun[u] \cap accepted[u]
        /\ begun[matched[u]] # {}
        /\ accepted[matched[u]] # {}

\* A phone number is displayed only if the user matched by key has pressed the
\* button for it, though the flag comes in snapshots older than the screen.
PhoneNeedsConsent ==
    \A u \in Users : phoneShown[u] => shared[matched[u]]

\* Whoever stands on the talking screen has a match who has agreed to meet this
\* user, and not somebody else: the two "have both accepted to meet"
\* (src/README.md).
AcceptedEachOther ==
    \A u \in Users : screen[u] = "talking" => u \in accepted[matched[u]]

\* Completions of findClosestUser are still queued when the first of them has
\* shown a match.  None of them changes the match, or takes the user back to
\* an earlier screen, once the user has agreed to meet.
PartnerIsSettled ==
    [][\A u \in Users : (isObserving[u] /\ app'[u] # "dead") =>
            /\ matched'[u] = matched[u]
            /\ screen[u] = "talking" => screen'[u] = "talking"]_vars

\* Nothing is left that could still tell u about v: what v has written is on the
\* server, u listens, and has nothing to apply and no block to run.
Quiet(u, v) ==
    outbox[v] = << >> /\ listening[u] /\ inbox[u] = << >> /\ mainQ[u] = << >>

\* No consent is missed, whatever was interrupted: when all is quiet between a
\* user and its match, the user has acted on every consent of the match that
\* stands.  A device takes part of them from the snapshot of its own tap and part
\* from events; none falls between the two, or is lost with a connection.
QuietMeansSeen ==
    \A u, v \in Users : (matched[u] = v /\ Quiet(u, v)) =>
        /\ (isObserving[u] /\ cache[v][v].agreedToMeet = "true") => screen[u] = "talking"
        /\ (isStarted[u] /\ cache[v][v].agreedToStart = "true") => presented[u] # "main"
        /\ (presented[u] = "review" /\ cache[v][v].showPhoneNumber = "true") => phoneShown[u]

\* The flags u stands by after an exit: replies to taps made before may run
\* behind it on a suspended device, which then has them in its fields as well.
StandsBy(u) ==
    {f \in given[u] : /\ app[u] = "background"
                      /\ \/ f = "agreedToMeet" /\ isObserving[u]
                         \/ f = "agreedToStart" /\ isStarted[u]}

\* An exit withdraws three flags by three writes, which are committed and
\* delivered one by one, behind other writes and in front of the writes of
\* replies.  When all of them have arrived at another user, that user sees
\* nothing of what was agreed before: no half of the withdrawal, no older write
\* of this process or of an earlier one.  What it sees the suspended device has
\* set again and stands by; a terminated device stands by nothing.
WithdrawalArrives ==
    \A u \in Users : \A v \in Users \ {u} :
        (/\ app[v] \in {"background", "terminating"} /\ outbox[v] = << >>
         /\ listening[u] /\ inbox[u] = << >>)
        => \A f \in FlagName : cache[u][v][f] = "true" => f \in StandsBy(v)

\* When both sides of a mutual match have agreed, both reach the talking
\* screen, whichever of the two learns of the other's consent from its own
\* snapshot and whichever from a later event.
AgreementIsSeen ==
    \A u \in Users : \A v \in Users \ {u} :
        (/\ matched[u] = v /\ isObserving[u] /\ app[u] = "foreground"
         /\ matched[v] = u /\ isObserving[v] /\ app[v] = "foreground")
        ~> \/ screen[u] = "talking" /\ screen[v] = "talking"
           \/ app[u] # "foreground" \/ app[v] # "foreground"

\* When both sides have pressed START, both timers appear.
StartIsSeen ==
    \A u \in Users : \A v \in Users \ {u} :
        (/\ matched[u] = v /\ isStarted[u] /\ app[u] = "foreground"
         /\ matched[v] = u /\ isStarted[v] /\ app[v] = "foreground")
        ~> \/ presented[u] # "main" /\ presented[v] # "main"
           \/ app[u] # "foreground" \/ app[v] # "foreground"

\* A user on the talking screen gets a topic to talk about.
TopicAppears ==
    \A u \in Users :
        (screen[u] = "talking" /\ app[u] = "foreground")
        ~> (topic[u] = "shown" \/ app[u] # "foreground")

\* Once shared, the phone number appears on the review screen of the match.
PhoneAppears ==
    \A u \in Users : \A v \in Users \ {u} :
        (/\ matched[u] = v /\ presented[u] = "review" /\ app[u] = "foreground"
         /\ shared[v] /\ app[v] = "foreground")
        ~> (phoneShown[u] \/ app[u] # "foreground" \/ app[v] # "foreground")

----------------------------------------------------------------------------
(* Why it is safe: the inductive invariant.                                *)

\* Honest[v]: the nodes that say only what v has done.
Honest ==
    [v \in Users |->
        {n \in Node : /\ n.agreedToMeet = "true" => accepted[v] # {}
                      /\ n.agreedToStart = "true" => begun[v] # {}
                      /\ n.showPhoneNumber = "true" => shared[v]}]

HonestTrees == {t \in Tree : \A v \in Users : t[v] \in Honest[v]}

\* However old a copy of a node is, and wherever it travels, it is honest.
CopiesAreHonest ==
    /\ db \in HonestTrees
    /\ \A u \in Users :
          /\ cache[u] \in HonestTrees
          /\ \A i \in 1 .. Len(outbox[u]) : outbox[u][i] \in Honest[u]
          /\ \A i \in 1 .. Len(inbox[u]) : \A v \in DOMAIN inbox[u][i] :
                inbox[u][i][v] \in Honest[v]

\* Expected[u]: the blocks that can be on the main queue of u, given how far u
\* has come.  No completion of findClosestUser is left once u has agreed.
Expected ==
    [u \in Users |->
        {b \in Block : /\ b.kind = "match" => ~isObserving[u] /\ b.key \in Nearby[u]
                       /\ b.kind = "meet" => matched[u] # NoUser
                       /\ b.kind = "start" => screen[u] = "talking"
                       /\ b.kind = "review" => presented[u] = "review"
                       /\ b.kind # "match" => b.snap \in HonestTrees}]

\* No completion of findClosestUser waits behind the reply to the MEET button.
MatchesFirst(q) ==
    \A i \in 1 .. Len(q) : \A j \in 1 .. Len(q) :
        (i < j /\ q[i].kind = "meet") => q[j].kind # "match"

QueueInOrder(u) ==
    /\ \A i \in 1 .. Len(mainQ[u]) : mainQ[u][i] \in Expected[u]
    /\ MatchesFirst(mainQ[u])

\* What each step of the meeting leaves behind.
StepsInOrder(u) ==
    /\ matched[u] \in Nearby[u] \cup {NoUser}
    /\ accepted[u] \subseteq Nearby[u]
    /\ matched[u] = NoUser => screen[u] = "searching"
    /\ isObserving[u] => matched[u] \in accepted[u]
    /\ screen[u] = "talking" => isObserving[u] /\ accepted[matched[u]] # {}
    /\ isStarted[u] => screen[u] = "talking" /\ matched[u] \in begun[u]
    /\ presented[u] # "main" => isStarted[u] /\ begun[matched[u]] # {}
    /\ phoneShown[u] => presented[u] = "review" /\ shared[matched[u]]

\* What holds in every reachable state, whatever the interleaving, and is
\* strong enough to be kept by every step: the copies of a node are honest, the
\* blocks of a queue fit the screen they will find, and the steps of the
\* meeting have been taken in order.
SessionInv ==
    /\ CopiesAreHonest
    /\ \A u \in Users : QueueInOrder(u) /\ StepsInOrder(u)

----------------------------------------------------------------------------
(* Why no consent is missed: what is on its way.                           *)

\* A block of kind k on the main queue of u shows that its match agrees to f.
WillSee(u, k, f) ==
    \E i \in 1 .. Len(mainQ[u]) :
        mainQ[u][i].kind = k /\ Agreed(u, mainQ[u][i].snap, f)

\* The consents that u has asked its match for and has not acted on.
Awaits(u) ==
    {f \in FlagName :
        \/ f = "agreedToMeet" /\ isObserving[u] /\ screen[u] # "talking"
        \/ f = "agreedToStart" /\ isStarted[u] /\ presented[u] = "main"
        \/ f = "showPhoneNumber" /\ presented[u] = "review" /\ ~phoneShown[u]}

\* The event whose block acts on a consent.
EventOf(f) == IF f = "showPhoneNumber" THEN "review" ELSE "value"

\* When the device knows of a consent that u awaits, the event that will act on
\* it is on the queue.
ActsOnConsent(u) ==
    \A f \in Awaits(u) : Agreed(u, cache[u], f) => WillSee(u, EventOf(f), f)

\* The reply to a tap carries the nodes the device has, or an event behind it does.
TapsAreFollowed(u) ==
    \A v \in Users \ {u} : \A i \in 1 .. Len(mainQ[u]) :
        mainQ[u][i].kind \in {"meet", "start"} =>
            \/ mainQ[u][i].snap[v] = cache[u][v]
            \/ \E j \in i + 1 .. Len(mainQ[u]) :
                  mainQ[u][j].kind = "value" /\ mainQ[u][j].snap[v] = cache[u][v]

\* Matches are found in a tree that has been loaded.
MatchedIsLoaded(u) ==
    ~loaded[u] => /\ matched[u] = NoUser
                  /\ \A i \in 1 .. Len(mainQ[u]) : mainQ[u][i].kind # "match"

\* The strengthening of SessionInv that is kept by every step.
ProgressInv ==
    /\ Converges
    /\ \A u \in Users : ActsOnConsent(u) /\ TapsAreFollowed(u) /\ MatchedIsLoaded(u)

=============================================================================
