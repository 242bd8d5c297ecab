------------------------- MODULE MeetSessionProofs -------------------------
(***************************************************************************)
(* Proofs about MeetSession, for any set of users, any relation of who     *)
(* finds whom, any number of interruptions and queues of any length.       *)
(***************************************************************************)
EXTENDS MeetSession, UsersTreeProofs

----------------------------------------------------------------------------
(* Blocks and events.                                                      *)

\* A change of the tree raises value and review events that carry the new
\* tree; review events only once the review screen is there.
LEMMA EventsOfChange ==
    ASSUME NEW u \in Users, NEW from, NEW to \in Tree
    PROVE  /\ ValueEvents(u, from, to) \in Seq(SnapBlock)
           /\ ValueEvents(u, from, to) \in Seq(Block)
           /\ \A i \in 1 .. Len(ValueEvents(u, from, to)) :
                 /\ ValueEvents(u, from, to)[i].kind \in {"value", "review"}
                 /\ ValueEvents(u, from, to)[i].kind = "review" => presented[u] = "review"
                 /\ ValueEvents(u, from, to)[i].snap = to
<1> DEFINE value == [kind |-> "value", snap |-> to]
           review == [kind |-> "review", snap |-> to]
<1>1. value \in SnapBlock /\ review \in SnapBlock
  BY DEF SnapBlock
<1>2. SnapBlock \subseteq Block
  BY DEF Block
<1>3. CASE from = to
  <2>1. ValueEvents(u, from, to) = << >>
    BY <1>3 DEF ValueEvents
  <2>2. QED
    BY <2>1, EmptySeq
<1>4. CASE from # to /\ presented[u] = "review"
  <2>1. ValueEvents(u, from, to) = <<value, review>>
    BY <1>4 DEF ValueEvents
  <2>2. QED
    BY <1>1, <1>2, <1>4, <2>1
<1>5. CASE from # to /\ presented[u] # "review"
  <2>1. ValueEvents(u, from, to) = <<value>>
    BY <1>5 DEF ValueEvents
  <2>2. QED
    BY <1>1, <1>2, <1>5, <2>1
<1>6. QED
  BY <1>3, <1>4, <1>5

\* The trees that snapshots are taken from, and the nodes that writes leave.
LEMMA WriteTypes ==
    ASSUME TypeOK, NEW u \in Users
    PROVE  /\ cache[u] \in Tree /\ cache[u][u] \in Node
           /\ [cache[u][u] EXCEPT !.agreedToMeet = "true"] \in Node
           /\ [cache[u][u] EXCEPT !.agreedToStart = "true"] \in Node
           /\ [cache[u][u] EXCEPT !.showPhoneNumber = "true"] \in Node
           /\ Withdrawn(u) \in Seq(Node) /\ Withdrawn(u) # << >> /\ Len(Withdrawn(u)) = 3
           /\ \A i \in 1 .. 3 : Withdrawn(u)[i] \in Node
           /\ \A n \in Node : WithOwn(u, n) \in Tree
<1>1. cache[u] \in Tree /\ cache[u][u] \in Node
  BY DEF TypeOK, TreeTypeOK, Tree
<1>2. \A n \in Node :
         /\ [n EXCEPT !.agreedToMeet = "true"] \in Node
         /\ [n EXCEPT !.agreedToStart = "true"] \in Node
         /\ [n EXCEPT !.showPhoneNumber = "true"] \in Node
         /\ [n EXCEPT !.agreedToMeet = "false"] \in Node
         /\ [n EXCEPT !.agreedToStart = "false"] \in Node
         /\ [n EXCEPT !.showPhoneNumber = "false"] \in Node
  BY DEF Node, Flag
<1> DEFINE n1 == [cache[u][u] EXCEPT !.agreedToMeet = "false"]
           n2 == [n1 EXCEPT !.agreedToStart = "false"]
           n3 == [n2 EXCEPT !.showPhoneNumber = "false"]
<1>3. n1 \in Node
  BY <1>1, <1>2
<1>4. n2 \in Node
  BY <1>2, <1>3
<1>5. n3 \in Node
  BY <1>2, <1>4
<1>6. Withdrawn(u) = <<n1, n2, n3>>
  BY DEF Withdrawn
<1> HIDE DEF n1, n2, n3
<1>7. /\ Withdrawn(u) \in Seq(Node) /\ Withdrawn(u) # << >> /\ Len(Withdrawn(u)) = 3
      /\ \A i \in 1 .. 3 : Withdrawn(u)[i] \in Node
  BY <1>3, <1>4, <1>5, <1>6
<1>8. \A n \in Node : WithOwn(u, n) \in Tree
  BY <1>1 DEF WithOwn, Tree
<1>9. QED
  BY <1>1, <1>2, <1>7, <1>8

\* A write of one node is well-formed, and so are the events it raises.
LEMMA WriteEvents ==
    ASSUME TypeOK, NEW u \in Users, NEW n \in Node
    PROVE  /\ <<n>> \in Seq(Node) /\ <<n>> # << >>
           /\ ValueEvents(u, cache[u], WithOwn(u, n)) \in Seq(Block)
<1>1. WithOwn(u, n) \in Tree
  BY WriteTypes
<1>2. ValueEvents(u, cache[u], WithOwn(u, n)) \in Seq(Block)
  BY <1>1, EventsOfChange
<1>3. QED
  BY <1>2

\* What a taken block leaves, and what new blocks make of the queue.
LEMMA QueueTypes ==
    ASSUME TypeOK, NEW u \in Users
    PROVE  /\ mainQ[u] \in Seq(Block)
           /\ mainQ[u] # << >> => Tail(mainQ[u]) \in Seq(Block) /\ Head(mainQ[u]) \in Block
           /\ \A b \in Block : Append(mainQ[u], b) \in Seq(Block)
           /\ \A k \in {"meet", "start", "value", "review"} : \A t \in Tree :
                 [kind |-> k, snap |-> t] \in Block
           /\ \A k \in Users : [kind |-> "match", key |-> k] \in Block
<1>1. mainQ[u] \in Seq(Block)
  BY DEF TypeOK
<1>2. \A b \in Block : Append(mainQ[u], b) \in Seq(Block)
  BY <1>1, AppendProperties
<1>3. \A k \in {"meet", "start", "value", "review"} : \A t \in Tree :
         [kind |-> k, snap |-> t] \in Block
  BY DEF Block, SnapBlock
<1>4. \A k \in Users : [kind |-> "match", key |-> k] \in Block
  BY DEF Block, MatchBlock
<1>5. QED
  BY <1>1, <1>2, <1>3, <1>4, HeadTailProperties

\* The withdrawal of consent raises well-formed events.
LEMMA WithdrawTypes ==
    ASSUME TypeOK, NEW u \in Users, WithdrawConsent(u)
    PROVE  TreeTypeOK' /\ mainQ' \in [Users -> Seq(Block)]
<1> DEFINE w == Withdrawn(u)
           e1 == ValueEvents(u, cache[u], WithOwn(u, w[1]))
           e2 == ValueEvents(u, WithOwn(u, w[1]), WithOwn(u, w[2]))
           e3 == ValueEvents(u, WithOwn(u, w[2]), WithOwn(u, w[3]))
<1>1. w \in Seq(Node) /\ w # << >> /\ \A i \in 1 .. 3 : WithOwn(u, w[i]) \in Tree
  BY WriteTypes
<1>2. e1 \in Seq(Block) /\ e2 \in Seq(Block) /\ e3 \in Seq(Block)
  BY <1>1, EventsOfChange
<1>3. TreeTypeOK /\ LocalWrite(u, w) /\ mainQ \in [Users -> Seq(Block)]
  BY DEF WithdrawConsent, TypeOK
<1>4. mainQ' = [mainQ EXCEPT ![u] = @ \o e1 \o e2 \o e3]
  BY DEF WithdrawConsent
<1> HIDE DEF w, e1, e2, e3
<1>5. mainQ[u] \o e1 \in Seq(Block)
  BY <1>2, <1>3, ConcatProperties
<1>6. mainQ[u] \o e1 \o e2 \in Seq(Block)
  BY <1>2, <1>5, ConcatProperties
<1>7. mainQ[u] \o e1 \o e2 \o e3 \in Seq(Block)
  BY <1>2, <1>6, ConcatProperties
<1>8. QED
  BY <1>1, <1>3, <1>4, <1>7, LocalWriteType

----------------------------------------------------------------------------
(* Type correctness.                                                       *)

\* A timer that can be stopped is one of those that fire: without it the
\* count of timers could leave the natural numbers.
TimersCounted == \A u \in Users : timerLive[u] => timers[u] >= 1

TypeInv == TypeOK /\ TimersCounted

LEMMA TypeInit == Init => TypeInv
<1>1. << >> \in Seq(Block)
  BY EmptySeq
<1>2. MeetSeconds \in 0 .. MeetSeconds /\ TalkSeconds \in 0 .. TalkSeconds
  BY SecondsAssumption
<1>3. QED
  BY <1>1, <1>2, TreeInitType DEF Init, TypeInv, TypeOK, TimersCounted

\* The requests put a block on the queue and change nothing else.
LEMMA TypeRequests ==
    ASSUME TypeInv, NEW u \in Users,
           (\E k \in Users : KeyEntered(u, k)) \/ TapMeet(u) \/ TapStart(u)
    PROVE  TypeInv'
<1>1. mainQ' \in [Users -> Seq(Block)]
  <2>1. mainQ \in [Users -> Seq(Block)] /\ TypeOK /\ cache[u] \in Tree
    BY WriteTypes DEF TypeInv, TypeOK
  <2>2. CASE \E k \in Users : KeyEntered(u, k)
    BY <2>1, <2>2, QueueTypes DEF KeyEntered
  <2>3. CASE TapMeet(u)
    BY <2>1, <2>3, QueueTypes DEF TapMeet
  <2>4. CASE TapStart(u)
    BY <2>1, <2>4, QueueTypes DEF TapStart
  <2>5. QED
    BY <2>2, <2>3, <2>4
<1>2. UNCHANGED <<treeVars, app, meetVars, viewVars, timerVars, histVars, disruptions>>
  BY DEF KeyEntered, TapMeet, TapStart
<1>3. QED
  BY <1>1, <1>2 DEF TypeInv, TypeOK, TimersCounted, TreeTypeOK, treeVars, meetVars, viewVars,
     timerVars, histVars

\* The blocks of the main queue.
LEMMA TypeBlocks ==
    ASSUME TypeInv, NEW u \in Users, Blocks(u)
    PROVE  TypeInv'
<1> USE DEF TypeInv
<1>1. /\ Head(mainQ[u]) \in Block /\ Tail(mainQ[u]) \in Seq(Block)
      /\ mainQ \in [Users -> Seq(Block)] /\ TreeTypeOK
  BY QueueTypes DEF Blocks, RunMatch, RunMeet, RunStart, RunValue, RunReview, Next_is, TypeOK
<1>2. CASE RunMatch(u)
  <2>1. Head(mainQ[u]).key \in Users
    BY <1>1, <1>2 DEF RunMatch, Next_is, Block, MatchBlock, SnapBlock
  <2>2. QED
    BY <1>1, <1>2, <2>1 DEF RunMatch, TypeOK, TimersCounted, TreeTypeOK, treeVars, timerVars,
       histVars
<1>3. CASE RunMeet(u)
  <2> DEFINE node == [cache[u][u] EXCEPT !.agreedToMeet = "true"]
             events == ValueEvents(u, cache[u], WithOwn(u, node))
  <2>0. node \in Node
    BY WriteTypes
  <2>1. <<node>> \in Seq(Node) /\ <<node>> # << >> /\ events \in Seq(Block)
    BY <2>0, WriteEvents
  <2>2. LocalWrite(u, <<node>>) /\ mainQ' = [mainQ EXCEPT ![u] = Tail(@) \o events]
    BY <1>3 DEF RunMeet
  <2> HIDE DEF node, events
  <2>3. Tail(mainQ[u]) \o events \in Seq(Block)
    BY <1>1, <2>1, ConcatProperties
  <2>4. TreeTypeOK' /\ mainQ' \in [Users -> Seq(Block)]
    BY <1>1, <2>1, <2>2, <2>3, LocalWriteType
  <2>5. given' \in [Users -> SUBSET FlagName]
    BY <1>3 DEF RunMeet, TypeOK, FlagName
  <2>6. QED
    BY <1>3, <2>4, <2>5 DEF RunMeet, TypeOK, TimersCounted, timerVars
<1>4. CASE RunStart(u)
  <2> DEFINE node == [cache[u][u] EXCEPT !.agreedToStart = "true"]
             events == ValueEvents(u, cache[u], WithOwn(u, node))
  <2>0. node \in Node
    BY WriteTypes
  <2>1. <<node>> \in Seq(Node) /\ <<node>> # << >> /\ events \in Seq(Block)
    BY <2>0, WriteEvents
  <2>2. LocalWrite(u, <<node>>) /\ mainQ' = [mainQ EXCEPT ![u] = Tail(@) \o events]
    BY <1>4 DEF RunStart
  <2> HIDE DEF node, events
  <2>3. Tail(mainQ[u]) \o events \in Seq(Block)
    BY <1>1, <2>1, ConcatProperties
  <2>4. TreeTypeOK' /\ mainQ' \in [Users -> Seq(Block)]
    BY <1>1, <2>1, <2>2, <2>3, LocalWriteType
  <2>5. presented' \in [Users -> {"main", "timer", "review"}]
    <3>1. PerformTimerSegue(u) \/ UNCHANGED presented
      BY <1>4 DEF RunStart
    <3>2. presented \in [Users -> {"main", "timer", "review"}]
      BY DEF TypeOK
    <3>3. QED
      BY <3>1, <3>2 DEF PerformTimerSegue
  <2>6. begun' \in [Users -> SUBSET Users] /\ isStarted' \in [Users -> BOOLEAN]
    BY <1>4 DEF RunStart, TypeOK
  <2>7. given' \in [Users -> SUBSET FlagName]
    BY <1>4 DEF RunStart, TypeOK, FlagName
  <2>8. QED
    BY <1>4, <2>4, <2>5, <2>6, <2>7 DEF RunStart, TypeOK, TimersCounted, timerVars
<1>5. CASE RunValue(u)
  <2>1. /\ timers' \in [Users -> Nat] /\ timerLive' \in [Users -> BOOLEAN] /\ TimersCounted'
        /\ screen' \in [Users -> {"searching", "profile", "talking"}]
        /\ topic' \in [Users -> {"hidden", "fetching", "shown"}]
    <3>1. MeetObserver(u, Head(mainQ[u]).snap)
      BY <1>5 DEF RunValue
    <3>2. CASE InvalidateTimer(u)
               /\ screen' = [screen EXCEPT ![u] = "talking"] /\ DisplayRandomTopic(u)
      <4>1. /\ timers' \in [Users -> Nat] /\ timerLive' \in [Users -> BOOLEAN]
            /\ TimersCounted'
        BY <3>2 DEF InvalidateTimer, TypeOK, TimersCounted
      <4>2. QED
        BY <3>2, <4>1 DEF DisplayRandomTopic, TypeOK
    <3>3. CASE RunTimer(u) /\ UNCHANGED <<screen, topic>>
      BY <3>3 DEF RunTimer, TypeOK, TimersCounted
    <3>4. CASE UNCHANGED <<timers, timerLive, screen, topic>>
      BY <3>4 DEF TypeOK, TimersCounted
    <3>5. QED
      BY <3>1, <3>2, <3>3, <3>4 DEF MeetObserver
  <2>2. presented' \in [Users -> {"main", "timer", "review"}]
    <3>1. presented \in [Users -> {"main", "timer", "review"}]
      BY DEF TypeOK
    <3>2. StartObserver(u, Head(mainQ[u]).snap)
      BY <1>5 DEF RunValue
    <3>3. PerformTimerSegue(u) \/ UNCHANGED presented
      BY <3>2 DEF StartObserver
    <3>4. QED
      BY <3>1, <3>3 DEF PerformTimerSegue
  <2>3. mainQ' \in [Users -> Seq(Block)]
    BY <1>1, <1>5 DEF RunValue
  <2>4. QED
    BY <1>5, <2>1, <2>2, <2>3 DEF RunValue, TypeOK, TreeTypeOK, treeVars, meetVars, histVars
<1>6. CASE RunReview(u)
  BY <1>1, <1>6 DEF RunReview, TypeOK, TimersCounted, TreeTypeOK, treeVars, meetVars, timerVars,
     histVars
<1>7. QED
  BY <1>2, <1>3, <1>4, <1>5, <1>6 DEF Blocks

\* The two counters, the topic and the button of the review screen.
LEMMA TypeScreens ==
    ASSUME TypeInv, NEW u \in Users, Clocks(u) \/ TopicReply(u) \/ ShowPhoneNumber(u)
    PROVE  TypeInv'
<1> USE DEF TypeInv
<1>1. mainQ \in [Users -> Seq(Block)] /\ TreeTypeOK
  BY DEF TypeOK
<1>2. CASE UpdateTimer(u)
  BY <1>2, SecondsAssumption DEF UpdateTimer, TypeOK, TimersCounted, TreeTypeOK, treeVars,
     meetVars, viewVars, histVars
<1>3. CASE UpdateTalkTimer(u)
  <2> DEFINE block == [kind |-> "review", snap |-> cache[u]]
  <2>1. Append(mainQ[u], block) \in Seq(Block)
    <3>1. cache[u] \in Tree
      BY WriteTypes
    <3>2. block \in Block
      BY <3>1, QueueTypes
    <3>3. QED
      BY <1>1, <3>2, AppendProperties
  <2>2. /\ talkLeft' \in [Users -> 0 .. TalkSeconds]
        /\ presented' \in [Users -> {"main", "timer", "review"}]
        /\ mainQ' \in [Users -> Seq(Block)]
    <3>1. CASE talkLeft[u] >= 1 /\ talkLeft' = [talkLeft EXCEPT ![u] = @ - 1]
               /\ UNCHANGED <<presented, mainQ>>
      BY <3>1, SecondsAssumption DEF TypeOK
    <3>2. CASE /\ presented' = [presented EXCEPT ![u] = "review"]
               /\ mainQ' = [mainQ EXCEPT ![u] = Append(@, block)]
               /\ UNCHANGED talkLeft
      <4> HIDE DEF block
      <4>1. QED
        BY <1>1, <2>1, <3>2 DEF TypeOK
    <3>3. QED
      BY <1>3, <3>1, <3>2 DEF UpdateTalkTimer
  <2>3. QED
    BY <1>3, <2>2 DEF UpdateTalkTimer, TypeOK, TimersCounted, TreeTypeOK, treeVars,
       meetVars, histVars
<1>4. CASE TopicReply(u)
  BY <1>4 DEF TopicReply, TypeOK, TimersCounted, TreeTypeOK, treeVars, meetVars, timerVars,
     histVars
<1>5. CASE ShowPhoneNumber(u)
  <2> DEFINE node == [cache[u][u] EXCEPT !.showPhoneNumber = "true"]
             events == ValueEvents(u, cache[u], WithOwn(u, node))
  <2>0. node \in Node
    BY WriteTypes
  <2>1. <<node>> \in Seq(Node) /\ <<node>> # << >> /\ events \in Seq(Block)
    BY <2>0, WriteEvents
  <2>2. LocalWrite(u, <<node>>) /\ mainQ' = [mainQ EXCEPT ![u] = @ \o events]
    BY <1>5 DEF ShowPhoneNumber
  <2> HIDE DEF node, events
  <2>3. mainQ[u] \o events \in Seq(Block)
    BY <1>1, <2>1, ConcatProperties
  <2>4. TreeTypeOK' /\ mainQ' \in [Users -> Seq(Block)]
    BY <1>1, <2>1, <2>2, <2>3, LocalWriteType
  <2>5. given' \in [Users -> SUBSET FlagName]
    BY <1>5 DEF ShowPhoneNumber, TypeOK, FlagName
  <2>6. QED
    BY <1>5, <2>4, <2>5 DEF ShowPhoneNumber, TypeOK, TimersCounted, meetVars, viewVars, timerVars
<1>6. QED
  BY <1>2, <1>3, <1>4, <1>5 DEF Clocks

\* The application and the network.
LEMMA TypeEnvironment ==
    ASSUME TypeInv, NEW u \in Users, Lifecycle(u) \/ Commit(u) \/ Listen(u) \/ Receive(u)
    PROVE  TypeInv'
<1> USE DEF TypeInv
<1>1. mainQ \in [Users -> Seq(Block)] /\ TreeTypeOK
  BY DEF TypeOK
<1>2. CASE Launch(u) \/ WillEnterForeground(u)
  <2>1. /\ app' = [app EXCEPT ![u] = "foreground"]
        /\ UNCHANGED <<treeVars, mainQ, meetVars, viewVars, timerVars, histVars, disruptions>>
    BY <1>2 DEF Launch, WillEnterForeground
  <2>2. app' \in [Users -> {"dead", "foreground", "background", "terminating"}]
    BY <2>1 DEF TypeOK
  <2>3. QED
    BY <2>1, <2>2 DEF TypeOK, TimersCounted, TreeTypeOK, treeVars, meetVars, viewVars, timerVars,
       histVars
<1>3. CASE DidEnterBackground(u) \/ WillTerminate(u)
  <2>1. /\ WithdrawConsent(u) /\ disruptions' = disruptions + 1
        /\ app' \in [Users -> {"dead", "foreground", "background", "terminating"}]
        /\ UNCHANGED <<meetVars, viewVars, timerVars, accepted, begun, shared>>
    BY <1>3 DEF DidEnterBackground, WillTerminate, Disrupt, TypeOK
  <2>2. TreeTypeOK' /\ mainQ' \in [Users -> Seq(Block)]
    BY <2>1, WithdrawTypes
  <2>3. given' \in [Users -> SUBSET FlagName]
    BY <2>1 DEF WithdrawConsent, TypeOK
  <2>4. QED
    BY <2>1, <2>2, <2>3 DEF TypeOK, TimersCounted, meetVars, viewVars, timerVars
<1>4. CASE Die(u)
  <2>1. TreeTypeOK' /\ << >> \in Seq(Block)
    BY <1>1, <1>4, ForgetClientType, EmptySeq DEF Die
  <2>2. disruptions' \in Nat
    BY <1>4 DEF Die, Disrupt, TypeOK
  <2>3. QED
    BY <1>4, <2>1, <2>2, SecondsAssumption DEF Die, ResetFields, TypeOK, TimersCounted, histVars
<1>5. CASE Disconnect(u) \/ Commit(u) \/ Listen(u)
  <2>1. TreeTypeOK' /\ disruptions' \in Nat
    BY <1>1, <1>5, DropConnectionType, ServerCommitsType, ServerAnswersListenType
       DEF Disconnect, Commit, Listen, Disrupt, TypeOK
  <2>2. QED
    BY <1>5, <2>1 DEF Disconnect, Commit, Listen, TypeOK, TimersCounted, meetVars, viewVars,
       timerVars, histVars
<1>6. CASE Receive(u)
  <2> DEFINE after == TreeAfterUpdate(u)
             first == [kind |-> "value", snap |-> after]
             events == IF loaded[u] THEN ValueEvents(u, cache[u], after) ELSE <<first>>
  <2>1. ApplyUpdate(u) /\ mainQ' = [mainQ EXCEPT ![u] = @ \o events]
    BY <1>6 DEF Receive
  <2>2. after \in Tree
    BY <1>1, <2>1, TreeAfterUpdateType DEF ApplyUpdate
  <2>3. first \in Block /\ ValueEvents(u, cache[u], after) \in Seq(Block)
    BY <2>2, QueueTypes, EventsOfChange
  <2>4. events \in Seq(Block)
    BY <2>3
  <2> HIDE DEF events
  <2>5. mainQ[u] \o events \in Seq(Block)
    BY <1>1, <2>4, ConcatProperties
  <2>6. TreeTypeOK' /\ mainQ' \in [Users -> Seq(Block)]
    BY <1>1, <2>1, <2>5, ApplyUpdateType
  <2>7. QED
    BY <1>6, <2>6 DEF Receive, TypeOK, TimersCounted, meetVars, viewVars, timerVars, histVars
<1>7. QED
  BY <1>2, <1>3, <1>4, <1>5, <1>6 DEF Lifecycle

\* Every step keeps every variable of every device in its type.
LEMMA TypeStep == TypeInv /\ [Next]_vars => TypeInv'
<1> SUFFICES ASSUME TypeInv, [Next]_vars
             PROVE  TypeInv'
  OBVIOUS
<1>1. CASE Next
  <2>1. PICK u \in Users :
           \/ \E k \in Users : KeyEntered(u, k)
           \/ Buttons(u)
           \/ Blocks(u)
           \/ Clocks(u)
           \/ Network(u)
           \/ Lifecycle(u)
    BY <1>1 DEF Next
  <2>2. QED
    BY <2>1, TypeRequests, TypeBlocks, TypeScreens, TypeEnvironment DEF Buttons, Network
<1>2. CASE UNCHANGED vars
  BY <1>2 DEF vars, TypeInv, TypeOK, TimersCounted, TreeTypeOK, treeVars, meetVars, viewVars,
     timerVars, histVars
<1>3. QED
  BY <1>1, <1>2

\* Every variable keeps its type in every behaviour: no queue ever holds
\* anything but blocks with a known key or a whole tree as their snapshot, and
\* the count of running timers never falls below zero.
THEOREM TypeCorrect == Spec => []TypeOK
<1>1. TypeInv => TypeOK
  BY DEF TypeInv
<1>2. QED
  BY TypeInit, TypeStep, <1>1, PTL DEF Spec

=============================================================================
