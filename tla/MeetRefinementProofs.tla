------------------------ MODULE MeetRefinementProofs ------------------------
(***************************************************************************)
(* Proof that the meeting the devices run implements the rendezvous.  The  *)
(* inductive invariant of MeetSafetyProofs is what makes it work: it says  *)
(* that a flag read from a snapshot stands for something its owner did,    *)
(* and that the fields of a device agree on one stage.                     *)
(***************************************************************************)
EXTENDS MeetRefinement, MeetSafetyProofs

\* The stages of all users, as the refinement mapping gives them.
StageOfAll == [u \in Users |-> Stage(u)]

\* The fields that the stage of w depends on.
Standing(w) ==
    <<phoneShown[w], presented[w], isStarted[w], screen[w], isObserving[w]>>

\* Only the stage of u moves if the fields of the others stay as they are.
LEMMA OneMoves ==
    ASSUME NEW u \in Users, NEW s, Stage(u)' = s,
           \A w \in Users \ {u} : Standing(w)' = Standing(w)
    PROVE  StageOfAll' = [StageOfAll EXCEPT ![u] = s]
<1>1. \A w \in Users \ {u} : Stage(w)' = Stage(w)
  BY DEF Stage, Standing
<1>2. QED
  BY <1>1 DEF StageOfAll

\* Nobody moves if all fields stay as they are.
LEMMA NobodyMoves ==
    ASSUME UNCHANGED <<phoneShown, presented, isStarted, screen, isObserving>>
    PROVE  StageOfAll' = StageOfAll
BY DEF StageOfAll, Stage

\* What the invariant says of the stage a user is in.
LEMMA StageMeans ==
    ASSUME IInv, NEW u \in Users
    PROVE  /\ StageOfAll[u] = Stage(u)
           /\ ~isObserving[u] <=> Stage(u) = "open"
           /\ (isObserving[u] /\ screen[u] # "talking") <=> Stage(u) = "agreed"
           /\ (screen[u] = "talking" /\ ~isStarted[u]) <=> Stage(u) = "met"
           /\ (isStarted[u] /\ presented[u] = "main") <=> Stage(u) = "begun"
           /\ (presented[u] # "main" /\ ~phoneShown[u]) <=> Stage(u) = "talking"
           /\ phoneShown[u] <=> Stage(u) = "informed"
BY DEF IInv, SessionInv, StepsInOrder, StageOfAll, Stage

\* A completion of findClosestUser is a choice: it only runs while the user
\* has not agreed, and it never carries the user's own key.
LEMMA MatchRefines ==
    ASSUME IInv, NEW u \in Users, RunMatch(u)
    PROVE  \E v \in Users : Meeting!Choose(u, v)
<1>. DEFINE k == Head(mainQ[u]).key
<1>1. /\ mainQ[u] # << >> /\ Head(mainQ[u]).kind = "match"
      /\ matched' = [matched EXCEPT ![u] = k]
      /\ screen' = [screen EXCEPT ![u] = "profile"]
      /\ UNCHANGED <<isObserving, isStarted, presented, phoneShown, accepted, begun, shared>>
  BY DEF RunMatch, Next_is, histVars
<1>2. ~isObserving[u] /\ k \in Nearby[u]
  BY <1>1, Dequeued DEF Expected, IInv
<1>. HIDE DEF k
<1>3. k \in Users /\ k # u
  BY <1>2, NearbyAssumption
<1>4. Stage(u) = "open" /\ StageOfAll[u] = "open"
  BY <1>2, StageMeans
<1>5. StageOfAll' = StageOfAll
  <2>1. ~phoneShown[u] /\ presented[u] = "main" /\ ~isStarted[u] /\ screen'[u] = "profile"
    BY <1>1, <1>4, StageMeans DEF IInv, TypeInv, TypeOK
  <2>2. Stage(u)' = "open"
    BY <1>1, <1>2, <2>1 DEF Stage
  <2>3. \A w \in Users \ {u} : Standing(w)' = Standing(w)
    BY <1>1 DEF Standing, IInv, TypeInv, TypeOK
  <2>4. StageOfAll' = [StageOfAll EXCEPT ![u] = "open"]
    BY <2>2, <2>3, OneMoves
  <2>5. QED
    BY <1>4, <2>4 DEF StageOfAll
<1>6. Meeting!Choose(u, k)
  BY <1>1, <1>3, <1>4, <1>5 DEF Meeting!Choose, StageOfAll
<1>7. QED
  BY <1>3, <1>6

\* The reply to the MEET button agrees, and finds the partner's consent or
\* not; asked twice, it may find it the second time.
LEMMA MeetRefines ==
    ASSUME IInv, IInv', NEW u \in Users, RunMeet(u)
    PROVE  Meeting!Agree(u) \/ Meeting!Meet(u) \/ UNCHANGED Meeting!vars
<1>. DEFINE snap == Head(mainQ[u]).snap
<1>1. /\ mainQ[u] # << >> /\ Head(mainQ[u]).kind = "meet"
      /\ isObserving' = [isObserving EXCEPT ![u] = TRUE]
      /\ screen' = [screen EXCEPT ![u] = IF Agreed(u, snap, "agreedToMeet") THEN "talking" ELSE @]
      /\ accepted' = [accepted EXCEPT ![u] = @ \cup ({matched[u]} \ {NoUser})]
      /\ UNCHANGED <<matched, isStarted, presented, phoneShown, begun, shared>>
  BY DEF RunMeet, Next_is
<1>2. matched[u] # NoUser /\ snap \in HonestTrees
  BY <1>1, Dequeued DEF Expected, IInv
<1>. HIDE DEF snap
<1>3. Agreed(u, snap, "agreedToMeet") => accepted[matched[u]] # {}
  BY <1>2, AgreedMeans DEF IInv
<1>4. /\ isObserving'[u]
      /\ screen'[u] = IF Agreed(u, snap, "agreedToMeet") THEN "talking" ELSE screen[u]
      /\ accepted' = [accepted EXCEPT ![u] = @ \cup {matched[u]}]
  <2>1. {matched[u]} \ {NoUser} = {matched[u]}
    BY <1>2
  <2>2. accepted' = [accepted EXCEPT ![u] = @ \cup {matched[u]}]
    BY <1>1, <2>1
  <2>3. isObserving'[u]
    BY <1>1 DEF IInv, TypeInv, TypeOK
  <2>4. screen'[u] = IF Agreed(u, snap, "agreedToMeet") THEN "talking" ELSE screen[u]
    <3>1. screen \in [Users -> {"searching", "profile", "talking"}]
      BY DEF IInv, TypeInv, TypeOK
    <3>2. QED
      BY <1>1, <3>1
  <2>5. QED
    BY <2>2, <2>3, <2>4
<1>5. \A w \in Users \ {u} : Standing(w)' = Standing(w)
  BY <1>1 DEF Standing, IInv, TypeInv, TypeOK
<1>6. CASE ~isObserving[u]
  <2>1. /\ StageOfAll[u] = "open"
        /\ ~phoneShown[u] /\ presented[u] = "main" /\ ~isStarted[u] /\ screen[u] # "talking"
    BY <1>6, StageMeans DEF IInv, SessionInv, StepsInOrder
  <2>2. CASE Agreed(u, snap, "agreedToMeet")
    <3>1. Stage(u)' = "met"
      BY <1>1, <1>4, <2>1, <2>2 DEF Stage
    <3>2. StageOfAll' = [StageOfAll EXCEPT ![u] = "met"]
      BY <1>5, <3>1, OneMoves
    <3>3. QED
      BY <1>1, <1>2, <1>3, <1>4, <2>1, <2>2, <3>2 DEF Meeting!Agree, StageOfAll
  <2>3. CASE ~Agreed(u, snap, "agreedToMeet")
    <3>1. Stage(u)' = "agreed"
      BY <1>1, <1>4, <2>1, <2>3 DEF Stage
    <3>2. StageOfAll' = [StageOfAll EXCEPT ![u] = "agreed"]
      BY <1>5, <3>1, OneMoves
    <3>3. QED
      BY <1>1, <1>2, <1>4, <2>1, <3>2 DEF Meeting!Agree, StageOfAll
  <2>4. QED
    BY <2>2, <2>3
<1>7. CASE isObserving[u]
  <2>1. accepted' = accepted
    BY <1>4, <1>7 DEF IInv, SessionInv, StepsInOrder, TypeInv, TypeOK
  <2>2. CASE Stage(u) = "agreed" /\ Agreed(u, snap, "agreedToMeet")
    <3>1. /\ StageOfAll[u] = "agreed"
          /\ ~phoneShown[u] /\ presented[u] = "main" /\ ~isStarted[u]
      BY <2>2, StageMeans
    <3>2. Stage(u)' = "met"
      BY <1>1, <1>4, <2>2, <3>1 DEF Stage
    <3>3. StageOfAll' = [StageOfAll EXCEPT ![u] = "met"]
      BY <1>5, <3>2, OneMoves
    <3>4. QED
      BY <1>1, <1>3, <2>1, <2>2, <3>1, <3>3 DEF Meeting!Meet, StageOfAll
  <2>3. CASE ~(Stage(u) = "agreed" /\ Agreed(u, snap, "agreedToMeet"))
    <3>1. screen[u] = "talking" \/ ~Agreed(u, snap, "agreedToMeet")
      BY <1>7, <2>3, StageMeans
    <3>2. screen' = screen /\ isObserving' = isObserving
      BY <1>1, <1>7, <3>1 DEF IInv, TypeInv, TypeOK
    <3>3. StageOfAll' = StageOfAll
      BY <1>1, <3>2, NobodyMoves
    <3>4. QED
      BY <1>1, <2>1, <3>3 DEF Meeting!vars, StageOfAll
  <2>4. QED
    BY <2>2, <2>3
<1>8. QED
  BY <1>6, <1>7

\* performSegue takes a user who has pressed START to the timer, or nobody
\* anywhere.
LEMMA SegueMeans ==
    ASSUME IInv, NEW u \in Users, PerformTimerSegue(u)
    PROVE  /\ presented[u] = "main" => presented' = [presented EXCEPT ![u] = "timer"]
           /\ presented[u] # "main" => presented' = presented
BY DEF PerformTimerSegue, IInv, TypeInv, TypeOK

\* The reply to the START button wants to start, and finds that the partner
\* does or not.
LEMMA StartRefines ==
    ASSUME IInv, NEW u \in Users, RunStart(u)
    PROVE  Meeting!Begin(u) \/ Meeting!Talk(u) \/ UNCHANGED Meeting!vars
<1>. DEFINE snap == Head(mainQ[u]).snap
<1>1. /\ mainQ[u] # << >> /\ Head(mainQ[u]).kind = "start"
      /\ isStarted' = [isStarted EXCEPT ![u] = TRUE]
      /\ begun' = [begun EXCEPT ![u] = @ \cup ({matched[u]} \ {NoUser})]
      /\ \/ Agreed(u, snap, "agreedToStart") /\ PerformTimerSegue(u)
         \/ UNCHANGED presented
      /\ UNCHANGED <<matched, isObserving, screen, phoneShown, accepted, shared>>
  BY DEF RunStart, Next_is
<1>2. screen[u] = "talking" /\ snap \in HonestTrees
  BY <1>1, Dequeued DEF Expected, IInv
<1>3. matched[u] \in Users /\ matched[u] # NoUser
  BY <1>2, Before DEF StepsInOrder, IInv
<1>. HIDE DEF snap
<1>4. Agreed(u, snap, "agreedToStart") => begun[matched[u]] # {}
  BY <1>2, AgreedMeans DEF IInv
<1>5. /\ isStarted'[u]
      /\ begun' = [begun EXCEPT ![u] = @ \cup {matched[u]}]
      /\ \/ /\ presented[u] = "main" /\ begun[matched[u]] # {}
            /\ presented' = [presented EXCEPT ![u] = "timer"]
         \/ presented' = presented
  <2>1. {matched[u]} \ {NoUser} = {matched[u]}
    BY <1>3
  <2>2. begun' = [begun EXCEPT ![u] = @ \cup {matched[u]}]
    BY <1>1, <2>1
  <2>3. isStarted'[u]
    BY <1>1 DEF IInv, TypeInv, TypeOK
  <2>4. QED
    BY <1>1, <1>4, <2>2, <2>3, SegueMeans
<1>6. \A w \in Users \ {u} : Standing(w)' = Standing(w)
  BY <1>1, <1>5 DEF Standing, IInv, TypeInv, TypeOK
<1>7. CASE presented' = presented
  <2>1. CASE ~isStarted[u]
    <3>1. /\ StageOfAll[u] = "met" /\ ~phoneShown[u] /\ presented[u] = "main"
      BY <1>2, <2>1, StageMeans DEF IInv, SessionInv, StepsInOrder
    <3>2. Stage(u)' = "begun"
      BY <1>1, <1>5, <1>7, <3>1 DEF Stage
    <3>3. StageOfAll' = [StageOfAll EXCEPT ![u] = "begun"]
      BY <1>6, <3>2, OneMoves
    <3>4. QED
      BY <1>1, <1>5, <3>1, <3>3 DEF Meeting!Begin, StageOfAll
  <2>2. CASE isStarted[u]
    <3>1. begun' = begun
      BY <1>5, <2>2 DEF IInv, SessionInv, StepsInOrder, TypeInv, TypeOK
    <3>2. isStarted' = isStarted
      BY <1>1, <2>2 DEF IInv, TypeInv, TypeOK
    <3>3. StageOfAll' = StageOfAll
      BY <1>1, <1>7, <3>2, NobodyMoves
    <3>4. QED
      BY <1>1, <3>1, <3>3 DEF Meeting!vars, StageOfAll
  <2>3. QED
    BY <2>1, <2>2
<1>8. CASE /\ presented[u] = "main" /\ begun[matched[u]] # {}
           /\ presented' = [presented EXCEPT ![u] = "timer"]
  <2>1. ~phoneShown[u] /\ presented'[u] = "timer"
    BY <1>8, StageMeans DEF IInv, SessionInv, StepsInOrder, TypeInv, TypeOK
  <2>2. Stage(u)' = "talking"
    BY <1>1, <2>1 DEF Stage
  <2>3. StageOfAll' = [StageOfAll EXCEPT ![u] = "talking"]
    BY <1>6, <2>2, OneMoves
  <2>4. CASE ~isStarted[u]
    <3>1. StageOfAll[u] = "met"
      BY <1>2, <2>4, StageMeans
    <3>2. QED
      BY <1>1, <1>5, <1>8, <2>3, <3>1 DEF Meeting!Begin, StageOfAll
  <2>5. CASE isStarted[u]
    <3>1. StageOfAll[u] = "begun"
      BY <1>8, <2>5, StageMeans
    <3>2. begun' = begun
      BY <1>5, <2>5 DEF IInv, SessionInv, StepsInOrder, TypeInv, TypeOK
    <3>3. QED
      BY <1>1, <1>8, <2>3, <3>1, <3>2 DEF Meeting!Talk, StageOfAll
  <2>6. QED
    BY <2>4, <2>5
<1>9. QED
  BY <1>5, <1>7, <1>8

\* The two observers open one gate at most: START needs the talking screen.
LEMMA ValueRefines ==
    ASSUME IInv, NEW u \in Users, RunValue(u)
    PROVE  Meeting!Meet(u) \/ Meeting!Talk(u) \/ UNCHANGED Meeting!vars
<1>. DEFINE snap == Head(mainQ[u]).snap
<1>1. /\ mainQ[u] # << >> /\ Head(mainQ[u]).kind = "value"
      /\ MeetObserver(u, snap) /\ StartObserver(u, snap)
      /\ UNCHANGED <<matched, isObserving, isStarted, phoneShown, accepted, begun, shared>>
  BY DEF RunValue, Next_is, meetVars, histVars
<1>2. snap \in HonestTrees
  BY <1>1, Dequeued DEF Expected, IInv
<1>. HIDE DEF snap
<1>3. \/ /\ isObserving[u] /\ accepted[matched[u]] # {}
         /\ screen' = [screen EXCEPT ![u] = "talking"]
      \/ screen' = screen
  BY <1>1, <1>2, AgreedMeans DEF MeetObserver, BothAgree, IInv
<1>4. \/ /\ isStarted[u] /\ begun[matched[u]] # {} /\ presented[u] = "main"
         /\ presented' = [presented EXCEPT ![u] = "timer"]
      \/ presented' = presented
  BY <1>1, <1>2, AgreedMeans, SegueMeans DEF StartObserver, IInv
<1>5. \A w \in Users \ {u} : Standing(w)' = Standing(w)
  BY <1>1, <1>3, <1>4 DEF Standing, IInv, TypeInv, TypeOK
<1>6. CASE screen[u] = "talking"
  <2>1. screen' = screen
    BY <1>3, <1>6 DEF IInv, TypeInv, TypeOK
  <2>2. CASE presented' = presented
    <3>1. StageOfAll' = StageOfAll
      BY <1>1, <2>1, <2>2, NobodyMoves
    <3>2. QED
      BY <1>1, <3>1 DEF Meeting!vars, StageOfAll
  <2>3. CASE presented' # presented
    <3>1. /\ isStarted[u] /\ begun[matched[u]] # {} /\ presented[u] = "main"
          /\ presented' = [presented EXCEPT ![u] = "timer"]
      BY <1>4, <2>3
    <3>2. StageOfAll[u] = "begun" /\ ~phoneShown[u] /\ presented'[u] = "timer"
      <4>1. StageOfAll[u] = "begun"
        BY <3>1, StageMeans
      <4>2. ~phoneShown[u]
        BY <3>1 DEF IInv, SessionInv, StepsInOrder
      <4>3. presented'[u] = "timer"
        BY <3>1 DEF IInv, TypeInv, TypeOK
      <4>4. QED
        BY <4>1, <4>2, <4>3
    <3>3. Stage(u)' = "talking"
      BY <1>1, <3>2 DEF Stage
    <3>4. StageOfAll' = [StageOfAll EXCEPT ![u] = "talking"]
      BY <1>5, <3>3, OneMoves
    <3>5. QED
      BY <1>1, <3>1, <3>2, <3>4 DEF Meeting!Talk, StageOfAll
  <2>4. QED
    BY <2>2, <2>3
<1>7. CASE screen[u] # "talking"
  <2>1. ~isStarted[u] /\ presented[u] = "main" /\ ~phoneShown[u]
    BY <1>7 DEF IInv, SessionInv, StepsInOrder
  <2>2. presented' = presented
    BY <1>4, <2>1
  <2>3. CASE screen' = screen
    <3>1. StageOfAll' = StageOfAll
      BY <1>1, <2>2, <2>3, NobodyMoves
    <3>2. QED
      BY <1>1, <3>1 DEF Meeting!vars, StageOfAll
  <2>4. CASE /\ isObserving[u] /\ accepted[matched[u]] # {}
             /\ screen' = [screen EXCEPT ![u] = "talking"]
    <3>1. StageOfAll[u] = "agreed" /\ screen'[u] = "talking"
      BY <1>7, <2>4, StageMeans DEF IInv, TypeInv, TypeOK
    <3>2. Stage(u)' = "met"
      BY <1>1, <2>1, <2>2, <3>1 DEF Stage
    <3>3. StageOfAll' = [StageOfAll EXCEPT ![u] = "met"]
      BY <1>5, <3>2, OneMoves
    <3>4. QED
      BY <1>1, <2>4, <3>1, <3>3 DEF Meeting!Meet, StageOfAll
  <2>5. QED
    BY <1>3, <2>3, <2>4
<1>8. QED
  BY <1>6, <1>7

\* The review screen informs once, and only of a number that was shared.
LEMMA ReviewRefines ==
    ASSUME IInv, NEW u \in Users, RunReview(u)
    PROVE  Meeting!Inform(u) \/ UNCHANGED Meeting!vars
<1>. DEFINE snap == Head(mainQ[u]).snap
<1>1. /\ mainQ[u] # << >> /\ Head(mainQ[u]).kind = "review"
      /\ phoneShown' = [phoneShown EXCEPT ![u] = @ \/ NumberShared(u, snap)]
      /\ UNCHANGED <<matched, isObserving, isStarted, screen, presented, accepted, begun, shared>>
  BY DEF RunReview, Next_is, meetVars, histVars
<1>2. presented[u] = "review" /\ snap \in HonestTrees
  BY <1>1, Dequeued DEF Expected, IInv
<1>. HIDE DEF snap
<1>3. NumberShared(u, snap) => shared[matched[u]]
  BY <1>2, AgreedMeans DEF NumberShared, IInv
<1>4. phoneShown \in [Users -> BOOLEAN]
  BY DEF IInv, TypeInv, TypeOK
<1>5. CASE phoneShown[u] \/ ~NumberShared(u, snap)
  <2>1. phoneShown' = phoneShown
    BY <1>1, <1>4, <1>5, Zenon
  <2>2. StageOfAll' = StageOfAll
    BY <1>1, <2>1, NobodyMoves
  <2>3. QED
    BY <1>1, <2>2 DEF Meeting!vars, StageOfAll
<1>6. CASE ~phoneShown[u] /\ NumberShared(u, snap)
  <2>1. phoneShown'[u] /\ \A w \in Users \ {u} : phoneShown'[w] = phoneShown[w]
    BY <1>1, <1>4, <1>6
  <2>2. StageOfAll[u] = "talking"
    BY <1>2, <1>6, StageMeans
  <2>3. Stage(u)' = "informed"
    BY <2>1 DEF Stage
  <2>4. \A w \in Users \ {u} : Standing(w)' = Standing(w)
    BY <1>1, <2>1 DEF Standing
  <2>5. StageOfAll' = [StageOfAll EXCEPT ![u] = "informed"]
    BY <2>3, <2>4, OneMoves
  <2>6. QED
    BY <1>1, <1>3, <1>6, <2>2, <2>5 DEF Meeting!Inform, StageOfAll
<1>7. QED
  BY <1>5, <1>6

\* The talk timer and the review screen are one stage.
LEMMA TalkTimerRefines ==
    ASSUME IInv, NEW u \in Users, UpdateTalkTimer(u)
    PROVE  UNCHANGED Meeting!vars
<1>1. /\ presented[u] = "timer"
      /\ presented' = presented \/ presented' = [presented EXCEPT ![u] = "review"]
      /\ UNCHANGED <<matched, isObserving, isStarted, screen, phoneShown, accepted, begun, shared>>
  BY DEF UpdateTalkTimer, meetVars, histVars
<1>2. \A w \in Users : (presented'[w] # "main") = (presented[w] # "main")
  BY <1>1 DEF IInv, TypeInv, TypeOK
<1>3. StageOfAll' = StageOfAll
  BY <1>1, <1>2 DEF StageOfAll, Stage
<1>4. QED
  BY <1>1, <1>3 DEF Meeting!vars, StageOfAll

\* A number is shared from the review screen.
LEMMA ShareRefines ==
    ASSUME IInv, NEW u \in Users, ShowPhoneNumber(u)
    PROVE  Meeting!Share(u)
<1>1. /\ presented[u] = "review"
      /\ shared' = [shared EXCEPT ![u] = TRUE]
      /\ UNCHANGED <<matched, isObserving, isStarted, screen, presented, phoneShown, accepted, begun>>
  BY DEF ShowPhoneNumber, meetVars, viewVars
<1>2. StageOfAll[u] \in {"talking", "informed"}
  BY <1>1, StageMeans
<1>3. StageOfAll' = StageOfAll
  BY <1>1, NobodyMoves
<1>4. QED
  BY <1>1, <1>2, <1>3 DEF Meeting!Share, StageOfAll

\* The end of a process takes its user back to the beginning.
LEMMA DieRefines ==
    ASSUME IInv, NEW u \in Users, Die(u)
    PROVE  Meeting!Leave(u)
<1>1. /\ matched' = [matched EXCEPT ![u] = NoUser]
      /\ isObserving' = [isObserving EXCEPT ![u] = FALSE]
      /\ isStarted' = [isStarted EXCEPT ![u] = FALSE]
      /\ screen' = [screen EXCEPT ![u] = "searching"]
      /\ presented' = [presented EXCEPT ![u] = "main"]
      /\ phoneShown' = [phoneShown EXCEPT ![u] = FALSE]
      /\ UNCHANGED <<accepted, begun, shared>>
  BY DEF Die, ResetFields, histVars
<1>2. /\ ~isObserving'[u] /\ ~isStarted'[u] /\ ~phoneShown'[u]
      /\ screen'[u] = "searching" /\ presented'[u] = "main"
  BY <1>1 DEF IInv, TypeInv, TypeOK
<1>3. Stage(u)' = "open"
  BY <1>2 DEF Stage
<1>4. \A w \in Users \ {u} : Standing(w)' = Standing(w)
  BY <1>1 DEF Standing, IInv, TypeInv, TypeOK
<1>5. StageOfAll' = [StageOfAll EXCEPT ![u] = "open"]
  BY <1>3, <1>4, OneMoves
<1>6. QED
  BY <1>1, <1>5 DEF Meeting!Leave, StageOfAll

\* Whatever touches neither the fields nor the history of the meeting is not
\* seen in the rendezvous.
LEMMA UnseenStep ==
    ASSUME UNCHANGED <<matched, isObserving, isStarted, screen, presented, phoneShown, accepted,
                       begun, shared>>
    PROVE  UNCHANGED Meeting!vars
<1>1. StageOfAll' = StageOfAll
  BY NobodyMoves
<1>2. QED
  BY <1>1 DEF Meeting!vars, StageOfAll

\* Every step of the devices is a step of the rendezvous or not seen in it.
LEMMA StepRefines ==
    ASSUME IInv, IInv', [Next]_vars
    PROVE  [Meeting!Next]_(Meeting!vars)
<1>1. CASE UNCHANGED vars
  BY <1>1, UnseenStep DEF vars, meetVars, viewVars, histVars
<1>2. CASE Next
  <2>1. PICK u \in Users :
           \/ \E k \in Users : KeyEntered(u, k)
           \/ Buttons(u)
           \/ Blocks(u)
           \/ Clocks(u)
           \/ Network(u)
           \/ Lifecycle(u)
    BY <1>2 DEF Next
  <2>2. CASE \E k \in Users : KeyEntered(u, k)
    BY <2>2, UnseenStep DEF KeyEntered, meetVars, viewVars, histVars
  <2>3. CASE Buttons(u)
    <3>1. CASE TapMeet(u) \/ TapStart(u)
      BY <3>1, UnseenStep DEF TapMeet, TapStart, meetVars, viewVars, histVars
    <3>2. QED
      BY <2>3, <3>1, ShareRefines DEF Buttons, Meeting!Next
  <2>4. CASE Blocks(u)
    BY <2>4, MatchRefines, MeetRefines, StartRefines, ValueRefines, ReviewRefines
       DEF Blocks, Meeting!Next
  <2>5. CASE Clocks(u)
    <3>1. CASE UpdateTimer(u)
      BY <3>1, UnseenStep DEF UpdateTimer, meetVars, viewVars, histVars
    <3>2. QED
      BY <2>5, <3>1, TalkTimerRefines DEF Clocks
  <2>6. CASE Network(u)
    BY <2>6, UnseenStep DEF Network, Commit, Listen, Receive, TopicReply, meetVars, viewVars, histVars
  <2>7. CASE Lifecycle(u)
    <3>1. CASE Launch(u) \/ DidEnterBackground(u) \/ WillEnterForeground(u) \/ WillTerminate(u)
               \/ Disconnect(u)
      BY <3>1, UnseenStep DEF Launch, DidEnterBackground, WillEnterForeground, WillTerminate,
                              Disconnect, meetVars, viewVars, histVars
    <3>2. QED
      BY <2>7, <3>1, DieRefines DEF Lifecycle, Meeting!Next
  <2>8. QED
    BY <2>1, <2>2, <2>3, <2>4, <2>5, <2>6, <2>7
<1>3. QED
  BY <1>1, <1>2

\* Everybody begins at the first stage.
LEMMA InitRefines == Init => Meeting!Init
<1>1. Init => StageOfAll = [u \in Users |-> "open"]
  BY DEF Init, StageOfAll, Stage
<1>2. QED
  BY <1>1 DEF Init, Meeting!Init, StageOfAll

\* The meeting the devices run implements the rendezvous: for any number of
\* users, any queue, any interruption, each gate of a meeting is passed in
\* order and not before the partner's consent has been given.
THEOREM RefinementTheorem == Spec => MeetingRefined
<1>1. Init => IInv
  BY TypeInit, SessionInit DEF IInv
<1>2. QED
  BY <1>1, InitRefines, SessionStep, StepRefines, PTL DEF Spec, MeetingRefined, Meeting!Spec

=============================================================================
