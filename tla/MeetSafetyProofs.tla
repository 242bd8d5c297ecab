-------------------------- MODULE MeetSafetyProofs --------------------------
(***************************************************************************)
(* The safety of a meeting, for any number of users, blocks and            *)
(* interruptions: SessionInv is inductive, and BothAccepted, BothBegan,    *)
(* PhoneNeedsConsent and PartnerIsSettled follow from it.                  *)
(***************************************************************************)
EXTENDS MeetSessionProofs

----------------------------------------------------------------------------
(* Histories grow, so what was honest stays honest.                        *)

HistoryGrows ==
    \A v \in Users :
        /\ accepted[v] \subseteq accepted'[v]
        /\ begun[v] \subseteq begun'[v]
        /\ shared[v] => shared'[v]

\* No step takes anything out of these histories; the flags that are given are
\* taken back by the exits.
LEMMA HistoryStep ==
    ASSUME TypeInv, [Next]_vars
    PROVE  HistoryGrows
<1>1. CASE UNCHANGED vars
  BY <1>1 DEF vars, histVars, HistoryGrows
<1>2. ASSUME NEW u \in Users, UNCHANGED histVars \/ UNCHANGED <<accepted, begun, shared>>
      PROVE  HistoryGrows
  BY <1>2 DEF histVars, HistoryGrows
<1>3. ASSUME NEW u \in Users, RunMeet(u)
      PROVE  HistoryGrows
  <2>1. /\ accepted' = [accepted EXCEPT ![u] = @ \cup ({matched[u]} \ {NoUser})]
        /\ UNCHANGED <<begun, shared>>
    BY <1>3 DEF RunMeet
  <2>2. QED
    BY <2>1 DEF HistoryGrows, TypeInv, TypeOK
<1>4. ASSUME NEW u \in Users, RunStart(u)
      PROVE  HistoryGrows
  <2>1. /\ begun' = [begun EXCEPT ![u] = @ \cup ({matched[u]} \ {NoUser})]
        /\ UNCHANGED <<accepted, shared>>
    BY <1>4 DEF RunStart
  <2>2. QED
    BY <2>1 DEF HistoryGrows, TypeInv, TypeOK
<1>5. ASSUME NEW u \in Users, ShowPhoneNumber(u)
      PROVE  HistoryGrows
  <2>1. shared' = [shared EXCEPT ![u] = TRUE] /\ UNCHANGED <<accepted, begun>>
    BY <1>5 DEF ShowPhoneNumber
  <2>2. QED
    BY <2>1 DEF HistoryGrows, TypeInv, TypeOK
<1>6. ASSUME Next
      PROVE  HistoryGrows
  <2>1. PICK u \in Users :
           \/ \E k \in Users : KeyEntered(u, k)
           \/ Buttons(u)
           \/ Blocks(u)
           \/ Clocks(u)
           \/ Network(u)
           \/ Lifecycle(u)
    BY <1>6 DEF Next
  <2>2. CASE \E k \in Users : KeyEntered(u, k)
    BY <1>2, <2>2 DEF KeyEntered
  <2>3. CASE Buttons(u)
    BY <1>2, <1>5, <2>3 DEF Buttons, TapMeet, TapStart
  <2>4. CASE Blocks(u)
    BY <1>2, <1>3, <1>4, <2>4 DEF Blocks, RunMatch, RunValue, RunReview
  <2>5. CASE Clocks(u)
    BY <1>2, <2>5 DEF Clocks, UpdateTimer, UpdateTalkTimer
  <2>6. CASE Network(u)
    BY <1>2, <2>6 DEF Network, Commit, Listen, Receive, TopicReply
  <2>7. CASE Lifecycle(u)
    BY <1>2, <2>7 DEF Lifecycle, Launch, DidEnterBackground, WillEnterForeground, WillTerminate,
       Die, Disconnect
  <2>8. QED
    BY <2>1, <2>2, <2>3, <2>4, <2>5, <2>6, <2>7
<1>7. QED
  BY <1>1, <1>6

\* What was honest stays honest.
LEMMA HonestyLasts ==
    ASSUME HistoryGrows
    PROVE  /\ \A v \in Users : Honest[v] \subseteq Honest'[v]
           /\ HonestTrees \subseteq HonestTrees'
<1>1. \A v \in Users : Honest[v] \subseteq Honest'[v]
  <2>1. SUFFICES ASSUME NEW v \in Users, NEW n \in Honest[v]
                 PROVE  n \in Honest'[v]
    OBVIOUS
  <2>2. QED
    BY <2>1 DEF Honest, HistoryGrows
<1>2. HonestTrees \subseteq HonestTrees'
  BY <1>1 DEF HonestTrees
<1>3. QED
  BY <1>1, <1>2

\* A node without flags, or with fewer of them, is honest.
LEMMA HonestNodes ==
    ASSUME NEW v \in Users
    PROVE  /\ EmptyNode \in Honest[v]
           /\ Honest[v] \subseteq Node
           /\ \A n \in Honest[v] :
                 /\ [n EXCEPT !.agreedToMeet = "false"] \in Honest[v]
                 /\ [n EXCEPT !.agreedToStart = "false"] \in Honest[v]
                 /\ [n EXCEPT !.showPhoneNumber = "false"] \in Honest[v]
                 /\ accepted[v] # {} => [n EXCEPT !.agreedToMeet = "true"] \in Honest[v]
                 /\ begun[v] # {} => [n EXCEPT !.agreedToStart = "true"] \in Honest[v]
                 /\ shared[v] => [n EXCEPT !.showPhoneNumber = "true"] \in Honest[v]
<1>1. EmptyNode \in Honest[v]
  BY DEF Honest, EmptyNode, Node, Flag
<1>2. QED
  BY <1>1 DEF Honest, Node, Flag

----------------------------------------------------------------------------
(* Copies of nodes.                                                        *)

\* A local write of honest nodes.
LEMMA LocalWriteHonest ==
    ASSUME TreeTypeOK, CopiesAreHonest, HistoryGrows,
           NEW u \in Users, NEW nodes \in Seq(Node), nodes # << >>,
           \A i \in 1 .. Len(nodes) : nodes[i] \in Honest'[u],
           LocalWrite(u, nodes)
    PROVE  CopiesAreHonest'
<1>1. /\ \A v \in Users : Honest[v] \subseteq Honest'[v]
      /\ HonestTrees \subseteq HonestTrees'
  BY HonestyLasts
<1>2. /\ cache' = [cache EXCEPT ![u][u] = nodes[Len(nodes)]]
      /\ outbox' = [outbox EXCEPT ![u] = @ \o nodes]
      /\ UNCHANGED <<db, inbox>>
  BY DEF LocalWrite
<1>3. nodes[Len(nodes)] \in Honest'[u] /\ nodes[Len(nodes)] \in Node
  BY EmptySeq, LenProperties, ElementOfSeq
<1>4. \A w \in Users : cache'[w] \in HonestTrees'
  <2>1. SUFFICES ASSUME NEW w \in Users
                 PROVE  cache'[w] \in HonestTrees'
    OBVIOUS
  <2>2. cache[w] \in HonestTrees'
    BY <1>1 DEF CopiesAreHonest
  <2>3. CASE w # u
    BY <1>2, <2>2, <2>3 DEF TreeTypeOK
  <2>4. CASE w = u
    <3>1. cache'[u] = [cache[u] EXCEPT ![u] = nodes[Len(nodes)]]
      BY <1>2 DEF TreeTypeOK
    <3>2. QED
      BY <1>3, <2>2, <2>4, <3>1 DEF HonestTrees, Tree
  <2>5. QED
    BY <2>3, <2>4
<1>5. \A w \in Users : \A i \in 1 .. Len(outbox'[w]) : outbox'[w][i] \in Honest'[w]
  <2>1. SUFFICES ASSUME NEW w \in Users, NEW i \in 1 .. Len(outbox'[w])
                 PROVE  outbox'[w][i] \in Honest'[w]
    OBVIOUS
  <2>2. CASE w # u
    BY <1>1, <1>2, <2>2 DEF TreeTypeOK, CopiesAreHonest
  <2>3. CASE w = u
    <3>1. outbox'[u] = outbox[u] \o nodes /\ outbox[u] \in Seq(Node)
      BY <1>2 DEF TreeTypeOK
    <3>2. /\ Len(outbox'[u]) = Len(outbox[u]) + Len(nodes)
          /\ Len(outbox[u]) \in Nat /\ Len(nodes) \in Nat
          /\ \A j \in 1 .. Len(outbox[u]) + Len(nodes) :
                outbox'[u][j] = IF j <= Len(outbox[u]) THEN outbox[u][j]
                                                       ELSE nodes[j - Len(outbox[u])]
      BY <3>1, ConcatElements
    <3>3. \A j \in 1 .. Len(outbox[u]) : outbox[u][j] \in Honest'[u]
      BY <1>1 DEF CopiesAreHonest
    <3>4. CASE i <= Len(outbox[u])
      BY <2>3, <3>2, <3>3, <3>4
    <3>5. CASE ~(i <= Len(outbox[u]))
      <4>1. i - Len(outbox[u]) \in 1 .. Len(nodes)
        BY <2>3, <3>2, <3>5
      <4>2. outbox'[u][i] = nodes[i - Len(outbox[u])]
        BY <2>3, <3>2, <3>5
      <4>3. QED
        BY <2>3, <4>1, <4>2
    <3>6. QED
      BY <3>4, <3>5
  <2>4. QED
    BY <2>2, <2>3
<1>6. db' \in HonestTrees'
  BY <1>1, <1>2 DEF CopiesAreHonest
<1>7. \A w \in Users : \A i \in 1 .. Len(inbox'[w]) : \A v \in DOMAIN inbox'[w][i] :
         inbox'[w][i][v] \in Honest'[v]
  <2>1. SUFFICES ASSUME NEW w \in Users, NEW i \in 1 .. Len(inbox[w]),
                        NEW v \in DOMAIN inbox[w][i]
                 PROVE  inbox[w][i][v] \in Honest'[v]
    BY <1>2
  <2>2. v \in Users
    <3>1. inbox[w] \in Seq(Update)
      BY DEF TreeTypeOK
    <3>2. inbox[w][i] \in Update
      BY <3>1, ElementOfSeq
    <3>3. PICK S \in SUBSET Users : inbox[w][i] \in [S -> Node]
      BY <3>2 DEF Update
    <3>4. QED
      BY <3>3
  <2>3. QED
    BY <1>1, <2>2 DEF CopiesAreHonest
<1>8. QED
  BY <1>4, <1>5, <1>6, <1>7 DEF CopiesAreHonest

\* A local write of one honest node.
LEMMA OneWriteHonest ==
    ASSUME TypeInv, CopiesAreHonest, HistoryGrows, NEW u \in Users, NEW n \in Honest'[u],
           LocalWrite(u, <<n>>)
    PROVE  CopiesAreHonest'
<1> DEFINE nodes == <<n>>
<1>1. n \in Node
  BY DEF Honest
<1>2. nodes \in Seq(Node) /\ nodes # << >> /\ Len(nodes) = 1 /\ nodes[1] = n
  BY <1>1
<1>3. LocalWrite(u, nodes)
  OBVIOUS
<1> HIDE DEF nodes
<1>4. \A i \in 1 .. Len(nodes) : nodes[i] \in Honest'[u]
  BY <1>2
<1>5. TreeTypeOK
  BY DEF TypeInv, TypeOK
<1>6. QED
  BY <1>2, <1>3, <1>4, <1>5, LocalWriteHonest

\* The users an update is about.
LEMMA UpdateDomain ==
    ASSUME TreeTypeOK, NEW w \in Users, NEW i \in 1 .. Len(inbox[w])
    PROVE  DOMAIN inbox[w][i] \subseteq Users
<1>1. inbox[w] \in Seq(Update)
  BY DEF TreeTypeOK
<1>2. inbox[w][i] \in Update
  BY <1>1, ElementOfSeq
<1>3. PICK S \in SUBSET Users : inbox[w][i] \in [S -> Node]
  BY <1>2 DEF Update
<1>4. QED
  BY <1>3

\* Steps that change no history: the server, the network, the process.
LEMMA NetworkHonest ==
    ASSUME TreeTypeOK, CopiesAreHonest, HistoryGrows, NEW u \in Users,
           \/ ServerCommits(u) \/ ServerAnswersListen(u) \/ ApplyUpdate(u)
           \/ DropConnection(u) \/ ForgetClient(u)
    PROVE  CopiesAreHonest'
<1>0. /\ \A v \in Users : Honest[v] \subseteq Honest'[v]
      /\ HonestTrees \subseteq HonestTrees'
      /\ \A v \in Users : EmptyNode \in Honest'[v] /\ Honest'[v] \subseteq Node
  <2>1. \A v \in Users : EmptyNode \in Honest[v] /\ EmptyNode \in Node
    BY HonestNodes DEF EmptyNode, Node, Flag
  <2>2. \A v \in Users : Honest'[v] \subseteq Node
    BY DEF Honest
  <2>3. QED
    BY <2>1, <2>2, HonestyLasts
<1> DEFINE OutOK == \A w \in Users : \A i \in 1 .. Len(outbox'[w]) : outbox'[w][i] \in Honest'[w]
           InOK == \A w \in Users : \A i \in 1 .. Len(inbox'[w]) : \A v \in DOMAIN inbox'[w][i] :
                      inbox'[w][i][v] \in Honest'[v]
           CacheOK == \A w \in Users : cache'[w] \in HonestTrees'
           DbOK == db' \in HonestTrees'
<1>1. /\ UNCHANGED db => DbOK
      /\ UNCHANGED cache => CacheOK
      /\ UNCHANGED outbox => OutOK
  BY <1>0 DEF CopiesAreHonest
<1>2. \A w \in Users : inbox'[w] = inbox[w] =>
         \A i \in 1 .. Len(inbox'[w]) : \A v \in DOMAIN inbox'[w][i] :
            inbox'[w][i][v] \in Honest'[v]
  BY <1>0, UpdateDomain DEF CopiesAreHonest
<1>3. ASSUME ServerCommits(u)
      PROVE  DbOK /\ CacheOK /\ OutOK /\ InOK
  <2>1. /\ outbox[u] \in Seq(Node) /\ outbox[u] # << >>
        /\ db' = [db EXCEPT ![u] = Head(outbox[u])]
        /\ outbox' = [outbox EXCEPT ![u] = Tail(@)]
        /\ UNCHANGED cache
    BY <1>3 DEF ServerCommits, TreeTypeOK
  <2>2. /\ Head(outbox[u]) = outbox[u][1] /\ Head(outbox[u]) \in Node
        /\ Len(outbox[u]) \in Nat /\ Len(outbox[u]) >= 1
        /\ Len(Tail(outbox[u])) = Len(outbox[u]) - 1
        /\ \A i \in 1 .. Len(Tail(outbox[u])) : Tail(outbox[u])[i] = outbox[u][i + 1]
    BY <2>1, TailElements
  <2>3. \A i \in 1 .. Len(outbox[u]) : outbox[u][i] \in Honest'[u]
    BY <1>0 DEF CopiesAreHonest
  <2>4. Head(outbox[u]) \in Honest'[u]
    BY <2>2, <2>3
  <2>5. DbOK
    <3>1. db \in HonestTrees'
      BY <1>0 DEF CopiesAreHonest
    <3>2. QED
      BY <2>1, <2>2, <2>4, <3>1 DEF HonestTrees, Tree
  <2>6. OutOK
    <3>1. SUFFICES ASSUME NEW w \in Users, NEW i \in 1 .. Len(outbox'[w])
                   PROVE  outbox'[w][i] \in Honest'[w]
      OBVIOUS
    <3>2. CASE w = u
      BY <2>1, <2>2, <2>3, <3>2 DEF TreeTypeOK
    <3>3. CASE w # u
      BY <1>0, <2>1, <3>3 DEF TreeTypeOK, CopiesAreHonest
    <3>4. QED
      BY <3>2, <3>3
  <2>7. InOK
    <3>1. SUFFICES ASSUME NEW w \in Users, NEW i \in 1 .. Len(inbox'[w]),
                          NEW v \in DOMAIN inbox'[w][i]
                   PROVE  inbox'[w][i][v] \in Honest'[v]
      OBVIOUS
    <3> DEFINE new == [x \in {u} |-> Head(outbox[u])]
    <3>2. CASE inbox'[w] = inbox[w]
      BY <1>2, <3>2
    <3>3. CASE inbox'[w] = Append(inbox[w], new)
      <4>1. inbox[w] \in Seq(Update) /\ new \in Update
        <5>1. new \in [{u} -> Node] /\ {u} \in SUBSET Users
          BY <2>2
        <5>2. QED
          BY <5>1 DEF Update, TreeTypeOK
      <4> HIDE DEF new
      <4>2. /\ Len(inbox[w]) \in Nat
            /\ Len(inbox'[w]) = Len(inbox[w]) + 1
            /\ inbox'[w][i] = IF i <= Len(inbox[w]) THEN inbox[w][i] ELSE new
        BY <3>3, <4>1, AppendElements
      <4>3. CASE i <= Len(inbox[w])
        BY <1>0, <4>2, <4>3, UpdateDomain DEF CopiesAreHonest
      <4>4. CASE ~(i <= Len(inbox[w]))
        BY <2>4, <4>2, <4>4 DEF new
      <4>5. QED
        BY <4>3, <4>4
    <3>4. inbox'[w] = inbox[w] \/ inbox'[w] = Append(inbox[w], new)
      BY <1>3 DEF ServerCommits
    <3>5. QED
      BY <3>2, <3>3, <3>4
  <2>8. QED
    BY <1>1, <2>1, <2>5, <2>6, <2>7
<1>4. ASSUME ServerAnswersListen(u)
      PROVE  DbOK /\ CacheOK /\ OutOK /\ InOK
  <2> DEFINE new == [v \in Users \ {u} |-> db[v]]
  <2>1. /\ inbox' = [inbox EXCEPT ![u] = Append(@, new)]
        /\ UNCHANGED <<db, cache, outbox>>
    BY <1>4 DEF ServerAnswersListen
  <2>2. inbox[u] \in Seq(Update) /\ new \in Update
    <3>1. new \in [Users \ {u} -> Node] /\ Users \ {u} \in SUBSET Users
      BY DEF TreeTypeOK, Tree
    <3>2. QED
      BY <3>1 DEF Update, TreeTypeOK
  <2>3. \A v \in DOMAIN new : v \in Users /\ new[v] \in Honest'[v]
    BY <1>0 DEF CopiesAreHonest, HonestTrees
  <2>4. InOK
    <3>1. SUFFICES ASSUME NEW w \in Users, NEW i \in 1 .. Len(inbox'[w]),
                          NEW v \in DOMAIN inbox'[w][i]
                   PROVE  inbox'[w][i][v] \in Honest'[v]
      OBVIOUS
    <3> HIDE DEF new
    <3>2. CASE w # u
      BY <1>2, <2>1, <3>2 DEF TreeTypeOK
    <3>3. CASE w = u
      <4>1. inbox'[u] = Append(inbox[u], new)
        BY <2>1 DEF TreeTypeOK
      <4>2. /\ Len(inbox[u]) \in Nat
            /\ Len(inbox'[u]) = Len(inbox[u]) + 1
            /\ inbox'[u][i] = IF i <= Len(inbox[u]) THEN inbox[u][i] ELSE new
        BY <2>2, <3>3, <4>1, AppendElements
      <4>3. CASE i <= Len(inbox[u])
        BY <1>0, <3>3, <4>2, <4>3, UpdateDomain DEF CopiesAreHonest
      <4>4. CASE ~(i <= Len(inbox[u]))
        BY <2>3, <3>3, <4>2, <4>4
      <4>5. QED
        BY <4>3, <4>4
    <3>4. QED
      BY <3>2, <3>3
  <2>5. QED
    BY <1>1, <2>1, <2>4
<1>5. ASSUME ApplyUpdate(u)
      PROVE  DbOK /\ CacheOK /\ OutOK /\ InOK
  <2>1. /\ inbox[u] \in Seq(Update) /\ inbox[u] # << >>
        /\ cache' = [cache EXCEPT ![u] = TreeAfterUpdate(u)]
        /\ inbox' = [inbox EXCEPT ![u] = Tail(@)]
        /\ UNCHANGED <<db, outbox>>
    BY <1>5 DEF ApplyUpdate, TreeTypeOK
  <2>2. /\ Head(inbox[u]) = inbox[u][1]
        /\ Len(inbox[u]) \in Nat /\ Len(inbox[u]) >= 1
        /\ Len(Tail(inbox[u])) = Len(inbox[u]) - 1
        /\ \A i \in 1 .. Len(Tail(inbox[u])) : Tail(inbox[u])[i] = inbox[u][i + 1]
    BY <2>1, TailElements
  <2>3. \A i \in 1 .. Len(inbox[u]) : \A v \in DOMAIN inbox[u][i] : inbox[u][i][v] \in Honest'[v]
    BY <1>0, UpdateDomain DEF CopiesAreHonest
  <2>4. TreeAfterUpdate(u) \in HonestTrees'
    <3>1. \A v \in DOMAIN Head(inbox[u]) : Head(inbox[u])[v] \in Honest'[v]
      BY <2>2, <2>3
    <3>2. \A v \in Users : cache[u][v] \in Honest'[v]
      BY <1>0 DEF CopiesAreHonest, HonestTrees
    <3>3. TreeAfterUpdate(u) \in Tree
      BY <2>1, TreeAfterUpdateType
    <3>4. \A v \in Users : TreeAfterUpdate(u)[v] \in Honest'[v]
      BY <3>1, <3>2 DEF TreeAfterUpdate
    <3>5. QED
      BY <3>3, <3>4 DEF HonestTrees
  <2>5. CacheOK
    BY <1>0, <2>1, <2>4 DEF TreeTypeOK, CopiesAreHonest
  <2>6. InOK
    <3>1. SUFFICES ASSUME NEW w \in Users, NEW i \in 1 .. Len(inbox'[w]),
                          NEW v \in DOMAIN inbox'[w][i]
                   PROVE  inbox'[w][i][v] \in Honest'[v]
      OBVIOUS
    <3>2. CASE w # u
      BY <1>2, <2>1, <3>2 DEF TreeTypeOK
    <3>3. CASE w = u
      <4>1. inbox'[u] = Tail(inbox[u])
        BY <2>1 DEF TreeTypeOK
      <4>2. i + 1 \in 1 .. Len(inbox[u]) /\ inbox'[u][i] = inbox[u][i + 1]
        BY <2>2, <3>3, <4>1
      <4>3. QED
        BY <2>3, <3>3, <4>2
    <3>4. QED
      BY <3>2, <3>3
  <2>7. QED
    BY <1>1, <2>1, <2>5, <2>6
<1>6. ASSUME DropConnection(u)
      PROVE  DbOK /\ CacheOK /\ OutOK /\ InOK
  <2>1. /\ inbox' = [inbox EXCEPT ![u] = << >>]
        /\ UNCHANGED <<db, cache, outbox>>
    BY <1>6 DEF DropConnection
  <2>2. InOK
    BY <1>2, <2>1 DEF TreeTypeOK
  <2>3. QED
    BY <1>1, <2>1, <2>2
<1>7. ASSUME ForgetClient(u)
      PROVE  DbOK /\ CacheOK /\ OutOK /\ InOK
  <2> DEFINE t == [v \in Users |-> IF v = u THEN db[u] ELSE EmptyNode]
  <2>1. /\ inbox' = [inbox EXCEPT ![u] = << >>]
        /\ outbox' = [outbox EXCEPT ![u] = << >>]
        /\ cache' = [cache EXCEPT ![u] = t]
        /\ UNCHANGED db
    BY <1>7 DEF ForgetClient
  <2>2. t \in HonestTrees'
    <3>1. db \in HonestTrees'
      BY <1>0 DEF CopiesAreHonest
    <3>2. db[u] \in Honest'[u]
      BY <3>1 DEF HonestTrees
    <3>3. \A v \in Users : t[v] \in Honest'[v] /\ t[v] \in Node
      BY <1>0, <3>2
    <3>4. t \in Tree
      BY <3>3 DEF Tree
    <3>5. QED
      BY <3>3, <3>4 DEF HonestTrees
  <2> HIDE DEF t
  <2>3. CacheOK
    BY <1>0, <2>1, <2>2 DEF TreeTypeOK, CopiesAreHonest
  <2>4. InOK
    BY <1>2, <2>1 DEF TreeTypeOK
  <2>5. OutOK
    <3>1. \A w \in Users : outbox'[w] = outbox[w] \/ outbox'[w] = << >>
      BY <2>1 DEF TreeTypeOK
    <3>2. \A w \in Users : \A i \in 1 .. Len(outbox[w]) : outbox[w][i] \in Honest'[w]
      BY <1>0 DEF CopiesAreHonest
    <3>3. QED
      BY <3>1, <3>2
  <2>6. QED
    BY <1>1, <2>1, <2>3, <2>4, <2>5
<1>8. QED
  BY <1>3, <1>4, <1>5, <1>6, <1>7 DEF CopiesAreHonest

----------------------------------------------------------------------------
(* The order of the main queue.                                            *)

\* Taking the first block keeps the order; behind the reply to the MEET
\* button there is no match.
LEMMA TailInOrder ==
    ASSUME NEW q \in Seq(Block), q # << >>, NEW E,
           \A i \in 1 .. Len(q) : q[i] \in E, MatchesFirst(q)
    PROVE  /\ Head(q) \in E
           /\ \A i \in 1 .. Len(Tail(q)) : Tail(q)[i] \in E
           /\ MatchesFirst(Tail(q))
           /\ Head(q).kind = "meet" =>
                 \A i \in 1 .. Len(Tail(q)) : Tail(q)[i].kind # "match"
<1>1. /\ Head(q) = q[1] /\ Len(q) \in Nat /\ Len(q) >= 1
      /\ Len(Tail(q)) = Len(q) - 1
      /\ \A i \in 1 .. Len(Tail(q)) : Tail(q)[i] = q[i + 1]
  BY TailElements
<1>2. \A i \in 1 .. Len(Tail(q)) : i + 1 \in 1 .. Len(q) /\ 1 < i + 1
  BY <1>1
<1>3. MatchesFirst(Tail(q))
  BY <1>1, <1>2 DEF MatchesFirst
<1>4. Head(q).kind = "meet" => \A i \in 1 .. Len(Tail(q)) : Tail(q)[i].kind # "match"
  BY <1>1, <1>2 DEF MatchesFirst
<1>5. Head(q) \in E
  BY <1>1
<1>6. ASSUME NEW i \in 1 .. Len(Tail(q))
      PROVE  Tail(q)[i] \in E
  BY <1>1, <1>2
<1>7. QED
  BY <1>3, <1>4, <1>5, <1>6

\* New blocks that are neither a match nor the reply to the MEET button keep
\* the order.
LEMMA EventsInOrder ==
    ASSUME NEW q \in Seq(Block), NEW e \in Seq(Block), NEW E,
           \A i \in 1 .. Len(q) : q[i] \in E, MatchesFirst(q),
           \A i \in 1 .. Len(e) : e[i] \in E /\ e[i].kind \in {"start", "value", "review"}
    PROVE  /\ q \o e \in Seq(Block)
           /\ \A i \in 1 .. Len(q \o e) : (q \o e)[i] \in E
           /\ MatchesFirst(q \o e)
<1>1. /\ q \o e \in Seq(Block)
      /\ Len(q) \in Nat /\ Len(e) \in Nat
      /\ Len(q \o e) = Len(q) + Len(e)
      /\ \A i \in 1 .. Len(q) + Len(e) :
            (q \o e)[i] = IF i <= Len(q) THEN q[i] ELSE e[i - Len(q)]
  BY ConcatElements
<1>2. \A i \in 1 .. Len(q \o e) :
         \/ i \in 1 .. Len(q) /\ (q \o e)[i] = q[i]
         \/ ~(i \in 1 .. Len(q)) /\ (q \o e)[i] \in E
            /\ (q \o e)[i].kind \in {"start", "value", "review"}
  <2>1. SUFFICES ASSUME NEW i \in 1 .. Len(q \o e), ~(i \in 1 .. Len(q))
                 PROVE  /\ (q \o e)[i] \in E
                        /\ (q \o e)[i].kind \in {"start", "value", "review"}
    BY <1>1
  <2>2. i - Len(q) \in 1 .. Len(e) /\ (q \o e)[i] = e[i - Len(q)]
    BY <1>1, <2>1
  <2>3. QED
    BY <2>2
<1>3. \A i \in 1 .. Len(q \o e) : (q \o e)[i] \in E
  BY <1>2
<1>4. MatchesFirst(q \o e)
  <2>1. SUFFICES ASSUME NEW i \in 1 .. Len(q \o e), NEW j \in 1 .. Len(q \o e),
                        i < j, (q \o e)[i].kind = "meet", (q \o e)[j].kind = "match"
                 PROVE  FALSE
    BY DEF MatchesFirst
  <2>2. i \in 1 .. Len(q) /\ j \in 1 .. Len(q) /\ q[i].kind = "meet" /\ q[j].kind = "match"
    BY <1>2, <2>1
  <2>3. QED
    BY <2>1, <2>2 DEF MatchesFirst
<1>5. QED
  BY <1>1, <1>3, <1>4

\* One more block keeps the order, unless it is a match behind the reply to
\* the MEET button.
LEMMA RequestInOrder ==
    ASSUME NEW q \in Seq(Block), NEW E, NEW b \in Block, b \in E,
           \A i \in 1 .. Len(q) : q[i] \in E, MatchesFirst(q),
           b.kind = "match" => \A i \in 1 .. Len(q) : q[i].kind # "meet"
    PROVE  /\ \A i \in 1 .. Len(Append(q, b)) : Append(q, b)[i] \in E
           /\ MatchesFirst(Append(q, b))
<1>1. /\ Len(q) \in Nat
      /\ Len(Append(q, b)) = Len(q) + 1
      /\ \A i \in 1 .. Len(q) + 1 : Append(q, b)[i] = IF i <= Len(q) THEN q[i] ELSE b
  BY AppendElements
<1>2. \A i \in 1 .. Len(Append(q, b)) :
         \/ i \in 1 .. Len(q) /\ Append(q, b)[i] = q[i]
         \/ i = Len(q) + 1 /\ Append(q, b)[i] = b
  BY <1>1
<1>3. MatchesFirst(Append(q, b))
  <2>1. SUFFICES ASSUME NEW i \in 1 .. Len(Append(q, b)), NEW j \in 1 .. Len(Append(q, b)),
                        i < j, Append(q, b)[i].kind = "meet", Append(q, b)[j].kind = "match"
                 PROVE  FALSE
    BY DEF MatchesFirst
  <2>2. i \in 1 .. Len(q) /\ q[i].kind = "meet"
    BY <1>1, <1>2, <2>1
  <2>3. CASE j \in 1 .. Len(q)
    BY <1>1, <2>1, <2>2, <2>3 DEF MatchesFirst
  <2>4. CASE j = Len(q) + 1
    BY <1>1, <2>1, <2>2, <2>4
  <2>5. QED
    BY <1>2, <2>3, <2>4
<1>4. QED
  BY <1>2, <1>3

\* What u expects stays expected as u goes on; once u agrees, all but matches.
LEMMA ExpectedLasts ==
    ASSUME TypeInv, HistoryGrows, NEW u \in Users,
           matched[u] # NoUser => matched'[u] # NoUser,
           screen[u] = "talking" => screen'[u] = "talking",
           presented[u] = "review" => presented'[u] = "review"
    PROVE  \A b \in Expected[u] :
              (b.kind # "match" \/ ~isObserving'[u]) => b \in Expected'[u]
<1>1. HonestTrees \subseteq HonestTrees'
  BY HonestyLasts
<1>2. SUFFICES ASSUME NEW b \in Expected[u], b.kind # "match" \/ ~isObserving'[u]
               PROVE  b \in Expected'[u]
  OBVIOUS
<1>3. /\ b \in Block
      /\ b.kind = "match" => ~isObserving[u] /\ b.key \in Nearby[u]
      /\ b.kind = "meet" => matched[u] # NoUser
      /\ b.kind = "start" => screen[u] = "talking"
      /\ b.kind = "review" => presented[u] = "review"
      /\ b.kind # "match" => b.snap \in HonestTrees
  BY DEF Expected
<1>4. QED
  BY <1>1, <1>2, <1>3 DEF Expected

\* What a step of u leaves alone on the other devices.
Elsewhere(u) ==
    \A w \in Users \ {u} :
        /\ mainQ'[w] = mainQ[w]
        /\ matched'[w] = matched[w] /\ isObserving'[w] = isObserving[w]
        /\ isStarted'[w] = isStarted[w] /\ screen'[w] = screen[w]
        /\ presented'[w] = presented[w] /\ phoneShown'[w] = phoneShown[w]
        /\ accepted'[w] = accepted[w]

\* The other devices keep their order.
LEMMA OthersInOrder ==
    ASSUME TypeInv, SessionInv, HistoryGrows, NEW u \in Users, Elsewhere(u),
           NEW w \in Users, w # u
    PROVE  QueueInOrder(w)' /\ StepsInOrder(w)'
<1>1. QueueInOrder(w) /\ StepsInOrder(w)
  BY DEF SessionInv
<1>2. /\ mainQ'[w] = mainQ[w] /\ matched'[w] = matched[w] /\ isObserving'[w] = isObserving[w]
      /\ isStarted'[w] = isStarted[w] /\ screen'[w] = screen[w]
      /\ presented'[w] = presented[w] /\ phoneShown'[w] = phoneShown[w]
      /\ accepted'[w] = accepted[w]
  BY DEF Elsewhere
<1>3. QueueInOrder(w)'
  <2>1. \A b \in Expected[w] : b.kind # "match" \/ ~isObserving'[w] => b \in Expected'[w]
    BY <1>2, ExpectedLasts
  <2>2. \A b \in Expected[w] : b.kind = "match" => ~isObserving[w]
    BY DEF Expected
  <2>3. \A b \in Expected[w] : b \in Expected'[w]
    BY <1>2, <2>1, <2>2
  <2>4. QED
    BY <1>1, <1>2, <2>3 DEF QueueInOrder
<1>4. StepsInOrder(w)'
  <2>1. Nearby[w] \subseteq Users
    BY NearbyAssumption
  <2>2. QED
    BY <1>1, <1>2, <2>1 DEF StepsInOrder, HistoryGrows
<1>5. QED
  BY <1>3, <1>4

----------------------------------------------------------------------------
(* The steps, one after the other.                                         *)

InOrder == \A u \in Users : QueueInOrder(u) /\ StepsInOrder(u)

\* Copies that do not move stay honest.
LEMMA CopiesKept ==
    ASSUME TypeInv, CopiesAreHonest, HistoryGrows, UNCHANGED <<db, cache, outbox, inbox>>
    PROVE  CopiesAreHonest'
<1>1. /\ \A v \in Users : Honest[v] \subseteq Honest'[v]
      /\ HonestTrees \subseteq HonestTrees'
  BY HonestyLasts
<1>2. \A w \in Users : \A i \in 1 .. Len(inbox[w]) : DOMAIN inbox[w][i] \subseteq Users
  BY UpdateDomain DEF TypeInv, TypeOK
<1>3. QED
  BY <1>1, <1>2 DEF CopiesAreHonest

\* A step that touches no queue and no screen keeps the order.
LEMMA QuietInOrder ==
    ASSUME TypeInv, SessionInv, HistoryGrows,
           UNCHANGED <<mainQ, matched, isObserving, isStarted, screen, presented, phoneShown,
                       accepted>>
    PROVE  InOrder'
<1>1. SUFFICES ASSUME NEW w \in Users
               PROVE  QueueInOrder(w)' /\ StepsInOrder(w)'
  BY DEF InOrder
<1>2. QueueInOrder(w) /\ StepsInOrder(w)
  BY DEF SessionInv
<1>3. \A b \in Expected[w] : b \in Expected'[w]
  <2>1. \A b \in Expected[w] : b.kind # "match" \/ ~isObserving'[w] => b \in Expected'[w]
    BY ExpectedLasts
  <2>2. \A b \in Expected[w] : b.kind = "match" => ~isObserving[w]
    BY DEF Expected
  <2>3. QED
    BY <2>1, <2>2
<1>4. QueueInOrder(w)'
  BY <1>2, <1>3 DEF QueueInOrder
<1>5. StepsInOrder(w)'
  <2>1. Nearby[w] \subseteq Users
    BY NearbyAssumption
  <2>2. QED
    BY <1>2, <2>1 DEF StepsInOrder, HistoryGrows
<1>6. QED
  BY <1>4, <1>5

\* The events of a change to an honest tree are expected.
LEMMA EventsExpected ==
    ASSUME TypeInv, NEW u \in Users, NEW from, NEW to \in HonestTrees',
           presented[u] = "review" => presented'[u] = "review"
    PROVE  /\ ValueEvents(u, from, to) \in Seq(Block)
           /\ \A i \in 1 .. Len(ValueEvents(u, from, to)) :
                 /\ ValueEvents(u, from, to)[i] \in Expected'[u]
                 /\ ValueEvents(u, from, to)[i].kind \in {"start", "value", "review"}
<1>1. to \in Tree
  BY DEF HonestTrees
<1> DEFINE e == ValueEvents(u, from, to)
<1>2. /\ e \in Seq(Block)
      /\ \A i \in 1 .. Len(e) : /\ e[i].kind \in {"value", "review"}
                                /\ e[i].kind = "review" => presented[u] = "review"
                                /\ e[i].snap = to
  BY <1>1, EventsOfChange
<1> HIDE DEF e
<1>3. \A i \in 1 .. Len(e) : e[i] \in Block
  BY <1>2, ElementOfSeq
<1>4. \A i \in 1 .. Len(e) : e[i] \in Expected'[u] /\ e[i].kind \in {"start", "value", "review"}
  BY <1>2, <1>3 DEF Expected
<1>5. QED
  BY <1>2, <1>4 DEF e

\* A write of an honest node leaves an honest tree.
LEMMA OwnTreeHonest ==
    ASSUME TypeInv, CopiesAreHonest, HistoryGrows, NEW u \in Users, NEW n \in Honest'[u]
    PROVE  WithOwn(u, n) \in HonestTrees'
<1>1. cache[u] \in HonestTrees'
  BY HonestyLasts DEF CopiesAreHonest
<1>2. n \in Node
  BY DEF Honest
<1>3. QED
  BY <1>1, <1>2 DEF WithOwn, HonestTrees, Tree

\* What is known of u before any of its steps.
LEMMA Before ==
    ASSUME TypeInv, SessionInv, NEW u \in Users
    PROVE  /\ mainQ[u] \in Seq(Block)
           /\ \A i \in 1 .. Len(mainQ[u]) : mainQ[u][i] \in Expected[u]
           /\ MatchesFirst(mainQ[u])
           /\ StepsInOrder(u)
           /\ Nearby[u] \subseteq Users /\ NoUser \notin Nearby[u]
           /\ cache[u] \in HonestTrees
           /\ cache[u][u] \in Honest[u]
<1>1. Nearby[u] \subseteq Users /\ NoUser \notin Nearby[u]
  BY NearbyAssumption, NoUserAssumption
<1>2. cache[u] \in HonestTrees /\ cache[u][u] \in Honest[u]
  BY DEF SessionInv, CopiesAreHonest, HonestTrees
<1>3. QED
  BY <1>1, <1>2 DEF SessionInv, QueueInOrder, TypeInv, TypeOK

\* A key that enters the circle puts a match on a queue without a reply to
\* the MEET button.
LEMMA KeyEnteredStep ==
    ASSUME TypeInv, SessionInv, HistoryGrows, NEW u \in Users, NEW k \in Users, KeyEntered(u, k)
    PROVE  CopiesAreHonest' /\ InOrder'
<1> DEFINE b == [kind |-> "match", key |-> k]
<1>1. /\ k \in Nearby[u] /\ matched[u] = NoUser
      /\ mainQ' = [mainQ EXCEPT ![u] = Append(@, b)]
      /\ UNCHANGED <<db, cache, outbox, inbox, matched, isObserving, isStarted, screen, presented,
                     phoneShown, accepted>>
  BY DEF KeyEntered, NoMatchYet, treeVars, meetVars, viewVars, histVars
<1>2. Elsewhere(u)
  BY <1>1 DEF Elsewhere, TypeInv, TypeOK
<1>3. CopiesAreHonest'
  BY <1>1, CopiesKept DEF SessionInv
<1>4. ~isObserving[u]
  BY <1>1, Before DEF StepsInOrder
<1>5. b \in Block /\ b \in Expected'[u]
  BY <1>1, <1>4 DEF Expected, Block, MatchBlock
<1>6. \A i \in 1 .. Len(mainQ[u]) : mainQ[u][i] \in Expected'[u] /\ mainQ[u][i].kind # "meet"
  <2>1. \A x \in Expected[u] : x \in Expected'[u]
    BY <1>1, <1>4, ExpectedLasts
  <2>2. \A x \in Expected[u] : x.kind # "meet"
    BY <1>1 DEF Expected
  <2>3. QED
    BY <2>1, <2>2, Before
<1>7. mainQ'[u] = Append(mainQ[u], b)
  BY <1>1 DEF TypeInv, TypeOK
<1> HIDE DEF b
<1>8. QueueInOrder(u)'
  BY <1>5, <1>6, <1>7, Before, RequestInOrder DEF QueueInOrder
<1>9. StepsInOrder(u)'
  BY <1>1, Before DEF StepsInOrder, HistoryGrows
<1>10. QED
  BY <1>2, <1>3, <1>8, <1>9, OthersInOrder DEF InOrder

\* The MEET and START buttons put an honest snapshot on the queue.
LEMMA TapStep ==
    ASSUME TypeInv, SessionInv, HistoryGrows, NEW u \in Users, TapMeet(u) \/ TapStart(u)
    PROVE  CopiesAreHonest' /\ InOrder'
<1>1. PICK b \in {[kind |-> "meet", snap |-> cache[u]], [kind |-> "start", snap |-> cache[u]]} :
         /\ b.kind = "meet" => screen[u] = "profile"
         /\ b.kind = "start" => screen[u] = "talking"
         /\ mainQ' = [mainQ EXCEPT ![u] = Append(@, b)]
         /\ UNCHANGED <<db, cache, outbox, inbox, matched, isObserving, isStarted, screen,
                        presented, phoneShown, accepted>>
  BY DEF TapMeet, TapStart, OnScreen, treeVars, meetVars, viewVars, histVars
<1>2. Elsewhere(u)
  BY <1>1 DEF Elsewhere, TypeInv, TypeOK
<1>3. CopiesAreHonest'
  BY <1>1, CopiesKept DEF SessionInv
<1>4. cache[u] \in HonestTrees'
  BY Before, HonestyLasts
<1>5. b \in Block
  BY <1>4 DEF HonestTrees, Block, SnapBlock
<1>6. b.kind = "meet" => matched[u] # NoUser
  BY <1>1, Before DEF StepsInOrder
<1>7. b \in Expected'[u] /\ b.kind # "match"
  BY <1>1, <1>4, <1>5, <1>6 DEF Expected
<1>8. \A i \in 1 .. Len(mainQ[u]) : mainQ[u][i] \in Expected'[u]
  <2>1. \A x \in Expected[u] : x.kind = "match" => ~isObserving[u]
    BY DEF Expected
  <2>2. \A x \in Expected[u] : x \in Expected'[u]
    BY <1>1, <2>1, ExpectedLasts
  <2>3. QED
    BY <2>2, Before
<1>9. mainQ'[u] = Append(mainQ[u], b)
  BY <1>1 DEF TypeInv, TypeOK
<1>10. QueueInOrder(u)'
  BY <1>5, <1>7, <1>8, <1>9, Before, RequestInOrder DEF QueueInOrder
<1>11. StepsInOrder(u)'
  BY <1>1, Before DEF StepsInOrder, HistoryGrows
<1>12. QED
  BY <1>2, <1>3, <1>10, <1>11, OthersInOrder DEF InOrder

\* The block that runs next, and the queue behind it.
LEMMA Dequeued ==
    ASSUME TypeInv, SessionInv, NEW u \in Users, mainQ[u] # << >>
    PROVE  /\ Head(mainQ[u]) \in Expected[u]
           /\ Tail(mainQ[u]) \in Seq(Block)
           /\ \A i \in 1 .. Len(Tail(mainQ[u])) : Tail(mainQ[u])[i] \in Expected[u]
           /\ MatchesFirst(Tail(mainQ[u]))
           /\ Head(mainQ[u]).kind = "meet" =>
                 \A i \in 1 .. Len(Tail(mainQ[u])) : Tail(mainQ[u])[i].kind # "match"
BY Before, TailElements, TailInOrder

\* A match is only shown to a user who has not agreed yet.
LEMMA RunMatchStep ==
    ASSUME TypeInv, SessionInv, HistoryGrows, NEW u \in Users, RunMatch(u)
    PROVE  CopiesAreHonest' /\ InOrder'
<1>1. /\ mainQ[u] # << >> /\ Head(mainQ[u]).kind = "match"
      /\ matched' = [matched EXCEPT ![u] = Head(mainQ[u]).key]
      /\ screen' = [screen EXCEPT ![u] = "profile"]
      /\ mainQ' = [mainQ EXCEPT ![u] = Tail(@)]
      /\ UNCHANGED <<db, cache, outbox, inbox, isObserving, isStarted, presented, phoneShown,
                     accepted>>
  BY DEF RunMatch, Next_is, treeVars, histVars
<1>2. Elsewhere(u)
  BY <1>1 DEF Elsewhere, TypeInv, TypeOK
<1>3. CopiesAreHonest'
  BY <1>1, CopiesKept DEF SessionInv
<1>4. ~isObserving[u] /\ Head(mainQ[u]).key \in Nearby[u]
  BY <1>1, Dequeued DEF Expected
<1>5. screen[u] # "talking" /\ ~isStarted[u] /\ presented[u] = "main" /\ ~phoneShown[u]
  BY <1>4, Before DEF StepsInOrder
<1>6. /\ matched'[u] = Head(mainQ[u]).key /\ screen'[u] = "profile"
      /\ mainQ'[u] = Tail(mainQ[u])
  BY <1>1 DEF TypeInv, TypeOK
<1>7. QueueInOrder(u)'
  <2>1. matched'[u] # NoUser
    BY <1>4, <1>6, Before
  <2>2. \A b \in Expected[u] : b \in Expected'[u]
    BY <1>1, <1>4, <1>5, <2>1, ExpectedLasts
  <2>3. QED
    BY <1>1, <1>6, <2>2, Dequeued DEF QueueInOrder
<1>8. StepsInOrder(u)'
  BY <1>1, <1>4, <1>5, <1>6, Before DEF StepsInOrder, HistoryGrows
<1>9. QED
  BY <1>2, <1>3, <1>7, <1>8, OthersInOrder DEF InOrder

\* A flag that is set in an honest snapshot tells of a history that is not
\* empty.
LEMMA AgreedMeans ==
    ASSUME TypeInv, SessionInv, NEW u \in Users, NEW t \in HonestTrees
    PROVE  /\ Agreed(u, t, "agreedToMeet") => matched[u] # NoUser /\ accepted[matched[u]] # {}
           /\ Agreed(u, t, "agreedToStart") => matched[u] # NoUser /\ begun[matched[u]] # {}
           /\ Agreed(u, t, "showPhoneNumber") => matched[u] # NoUser /\ shared[matched[u]]
<1>1. CASE matched[u] = NoUser
  BY <1>1 DEF Agreed, MatchFlag
<1>2. CASE matched[u] # NoUser
  <2>1. matched[u] \in Users
    BY <1>2, Before DEF StepsInOrder
  <2>2. t[matched[u]] \in Honest[matched[u]]
    BY <2>1 DEF HonestTrees
  <2>3. QED
    BY <1>2, <2>1, <2>2 DEF Agreed, MatchFlag, Honest
<1>3. QED
  BY <1>1, <1>2

\* The reply to the MEET button: the last match has been shown before.
LEMMA RunMeetStep ==
    ASSUME TypeInv, SessionInv, HistoryGrows, NEW u \in Users, RunMeet(u)
    PROVE  CopiesAreHonest' /\ InOrder'
<1> DEFINE snap == Head(mainQ[u]).snap
           node == [cache[u][u] EXCEPT !.agreedToMeet = "true"]
           events == ValueEvents(u, cache[u], WithOwn(u, node))
<1>1. /\ mainQ[u] # << >> /\ Head(mainQ[u]).kind = "meet"
      /\ LocalWrite(u, <<node>>)
      /\ mainQ' = [mainQ EXCEPT ![u] = Tail(@) \o events]
      /\ isObserving' = [isObserving EXCEPT ![u] = TRUE]
      /\ screen' = [screen EXCEPT ![u] = IF Agreed(u, snap, "agreedToMeet") THEN "talking" ELSE @]
      /\ accepted' = [accepted EXCEPT ![u] = @ \cup ({matched[u]} \ {NoUser})]
      /\ UNCHANGED <<matched, isStarted, presented, phoneShown, begun, shared>>
  BY DEF RunMeet, Next_is
<1>2. Elsewhere(u)
  BY <1>1 DEF Elsewhere, TypeInv, TypeOK
<1>3. matched[u] # NoUser /\ snap \in HonestTrees
  BY <1>1, Dequeued DEF Expected
<1>4. /\ isObserving'[u] /\ accepted'[u] = accepted[u] \cup {matched[u]}
      /\ screen'[u] = IF Agreed(u, snap, "agreedToMeet") THEN "talking" ELSE screen[u]
      /\ mainQ'[u] = Tail(mainQ[u]) \o events
  BY <1>1, <1>3 DEF TypeInv, TypeOK
<1>5. node \in Honest'[u]
  <2>1. cache[u][u] \in Honest'[u]
    BY Before, HonestyLasts
  <2>2. accepted'[u] # {}
    BY <1>4
  <2>3. QED
    BY <2>1, <2>2 DEF Honest, Node, Flag
<1> HIDE DEF node, snap
<1>6. CopiesAreHonest'
  BY <1>1, <1>5, OneWriteHonest DEF SessionInv
<1>7. /\ events \in Seq(Block)
      /\ \A i \in 1 .. Len(events) : /\ events[i] \in Expected'[u]
                                     /\ events[i].kind \in {"start", "value", "review"}
  <2>1. WithOwn(u, node) \in HonestTrees'
    BY <1>5, OwnTreeHonest DEF SessionInv
  <2>2. QED
    BY <1>1, <2>1, EventsExpected
<1> HIDE DEF events
<1>8. QueueInOrder(u)'
  <2>1. \A b \in Expected[u] : b.kind # "match" => b \in Expected'[u]
    BY <1>1, <1>4, ExpectedLasts
  <2>2. \A i \in 1 .. Len(Tail(mainQ[u])) : Tail(mainQ[u])[i] \in Expected'[u]
    BY <1>1, <2>1, Dequeued
  <2>3. Tail(mainQ[u]) \in Seq(Block) /\ MatchesFirst(Tail(mainQ[u]))
    BY <1>1, Dequeued
  <2> DEFINE q == Tail(mainQ[u]) \o events
  <2>4. (\A i \in 1 .. Len(q) : q[i] \in Expected'[u]) /\ MatchesFirst(q)
    BY <1>7, <2>2, <2>3, EventsInOrder
  <2>5. QED
    BY <1>4, <2>4 DEF QueueInOrder
<1>9. StepsInOrder(u)'
  <2>1. StepsInOrder(u) /\ matched[u] \in Nearby[u] /\ matched[u] \in Users
    BY <1>3, Before DEF StepsInOrder
  <2>2. Agreed(u, snap, "agreedToMeet") => accepted[matched[u]] # {}
    BY <1>3, AgreedMeans
  <2>3. screen'[u] = "talking" => accepted'[matched[u]] # {}
    BY <1>4, <2>1, <2>2 DEF StepsInOrder, HistoryGrows
  <2>4. QED
    BY <1>1, <1>3, <1>4, <2>1, <2>3 DEF StepsInOrder
<1>10. QED
  BY <1>2, <1>6, <1>8, <1>9, OthersInOrder DEF InOrder

\* The reply to the START button.
LEMMA RunStartStep ==
    ASSUME TypeInv, SessionInv, HistoryGrows, NEW u \in Users, RunStart(u)
    PROVE  CopiesAreHonest' /\ InOrder'
<1> DEFINE snap == Head(mainQ[u]).snap
           node == [cache[u][u] EXCEPT !.agreedToStart = "true"]
           events == ValueEvents(u, cache[u], WithOwn(u, node))
<1>1. /\ mainQ[u] # << >> /\ Head(mainQ[u]).kind = "start"
      /\ LocalWrite(u, <<node>>)
      /\ mainQ' = [mainQ EXCEPT ![u] = Tail(@) \o events]
      /\ isStarted' = [isStarted EXCEPT ![u] = TRUE]
      /\ begun' = [begun EXCEPT ![u] = @ \cup ({matched[u]} \ {NoUser})]
      /\ \/ Agreed(u, snap, "agreedToStart") /\ PerformTimerSegue(u)
         \/ UNCHANGED presented
      /\ UNCHANGED <<matched, isObserving, screen, phoneShown, accepted, shared>>
  BY DEF RunStart, Next_is
<1>2. Elsewhere(u)
  BY <1>1 DEF Elsewhere, PerformTimerSegue, TypeInv, TypeOK
<1>3. screen[u] = "talking" /\ snap \in HonestTrees
  BY <1>1, Dequeued DEF Expected
<1>4. matched[u] \in Users /\ matched[u] # NoUser
  BY <1>3, Before DEF StepsInOrder
<1>5. /\ isStarted'[u] /\ begun'[u] = begun[u] \cup {matched[u]}
      /\ mainQ'[u] = Tail(mainQ[u]) \o events
      /\ presented'[u] # presented[u] => /\ Agreed(u, snap, "agreedToStart")
                                         /\ presented[u] = "main"
  BY <1>1, <1>4 DEF PerformTimerSegue, TypeInv, TypeOK
<1>6. node \in Honest'[u]
  <2>1. cache[u][u] \in Honest'[u]
    BY Before, HonestyLasts
  <2>2. begun'[u] # {}
    BY <1>5
  <2>3. QED
    BY <2>1, <2>2 DEF Honest, Node, Flag
<1> HIDE DEF node, snap
<1>7. CopiesAreHonest'
  BY <1>1, <1>6, OneWriteHonest DEF SessionInv
<1>8. /\ events \in Seq(Block)
      /\ \A i \in 1 .. Len(events) : /\ events[i] \in Expected'[u]
                                     /\ events[i].kind \in {"start", "value", "review"}
  <2>1. WithOwn(u, node) \in HonestTrees'
    BY <1>6, OwnTreeHonest DEF SessionInv
  <2>2. QED
    BY <1>5, <2>1, EventsExpected
<1> HIDE DEF events
<1>9. QueueInOrder(u)'
  <2>1. \A b \in Expected[u] : b.kind = "match" => ~isObserving[u]
    BY DEF Expected
  <2>2. \A b \in Expected[u] : b \in Expected'[u]
    BY <1>1, <1>5, <2>1, ExpectedLasts
  <2>3. /\ Tail(mainQ[u]) \in Seq(Block) /\ MatchesFirst(Tail(mainQ[u]))
        /\ \A i \in 1 .. Len(Tail(mainQ[u])) : Tail(mainQ[u])[i] \in Expected'[u]
    BY <1>1, <2>2, Dequeued
  <2>4. QED
    BY <1>5, <1>8, <2>3, EventsInOrder DEF QueueInOrder
<1>10. StepsInOrder(u)'
  <2>1. StepsInOrder(u)
    BY Before
  <2>2. Agreed(u, snap, "agreedToStart") => begun[matched[u]] # {}
    BY <1>3, AgreedMeans
  <2>3. presented'[u] # "main" => begun'[matched[u]] # {}
    BY <1>4, <1>5, <2>1, <2>2 DEF StepsInOrder, HistoryGrows
  <2>4. phoneShown[u] => presented'[u] = "review" /\ shared[matched[u]]
    BY <1>5, <2>1 DEF StepsInOrder
  <2>5. QED
    BY <1>1, <1>3, <1>5, <2>1, <2>3, <2>4 DEF StepsInOrder
<1>11. QED
  BY <1>2, <1>7, <1>9, <1>10, OthersInOrder DEF InOrder

\* The observers only lead on a user who has agreed, or pressed START.
LEMMA RunValueStep ==
    ASSUME TypeInv, SessionInv, HistoryGrows, NEW u \in Users, RunValue(u)
    PROVE  CopiesAreHonest' /\ InOrder'
<1> DEFINE snap == Head(mainQ[u]).snap
<1>1. /\ mainQ[u] # << >> /\ Head(mainQ[u]).kind = "value"
      /\ mainQ' = [mainQ EXCEPT ![u] = Tail(@)]
      /\ MeetObserver(u, snap) /\ StartObserver(u, snap)
      /\ UNCHANGED <<db, cache, outbox, inbox, matched, isObserving, isStarted, phoneShown,
                     accepted, begun, shared>>
  BY DEF RunValue, Next_is, treeVars, meetVars, histVars
<1>2. snap \in HonestTrees
  BY <1>1, Dequeued DEF Expected
<1> HIDE DEF snap
<1>3. \/ /\ Agreed(u, snap, "agreedToMeet") /\ isObserving[u]
         /\ screen' = [screen EXCEPT ![u] = "talking"]
      \/ UNCHANGED screen
  BY <1>1 DEF MeetObserver, BothAgree
<1>4. \/ /\ Agreed(u, snap, "agreedToStart") /\ isStarted[u]
         /\ PerformTimerSegue(u)
      \/ UNCHANGED presented
  BY <1>1 DEF StartObserver
<1>5. Elsewhere(u)
  BY <1>1, <1>3, <1>4 DEF Elsewhere, PerformTimerSegue, TypeInv, TypeOK
<1>6. CopiesAreHonest'
  BY <1>1, CopiesKept DEF SessionInv
<1>7. /\ mainQ'[u] = Tail(mainQ[u])
      /\ screen'[u] # screen[u] => /\ screen'[u] = "talking" /\ isObserving[u]
                                   /\ Agreed(u, snap, "agreedToMeet")
      /\ presented'[u] # presented[u] => /\ presented[u] = "main" /\ isStarted[u]
                                         /\ Agreed(u, snap, "agreedToStart")
  BY <1>1, <1>3, <1>4 DEF PerformTimerSegue, TypeInv, TypeOK
<1>8. QueueInOrder(u)'
  <2>1. \A b \in Expected[u] : b.kind = "match" => ~isObserving[u]
    BY DEF Expected
  <2>2. \A b \in Expected[u] : b \in Expected'[u]
    BY <1>1, <1>7, <2>1, ExpectedLasts
  <2>3. QED
    BY <1>1, <1>7, <2>2, Dequeued DEF QueueInOrder
<1>9. StepsInOrder(u)'
  <2>1. StepsInOrder(u)
    BY Before
  <2>2. /\ Agreed(u, snap, "agreedToMeet") => matched[u] # NoUser /\ accepted[matched[u]] # {}
        /\ Agreed(u, snap, "agreedToStart") => matched[u] # NoUser /\ begun[matched[u]] # {}
    BY <1>2, AgreedMeans
  <2>3. /\ screen'[u] = "talking" => isObserving[u] /\ accepted[matched[u]] # {}
        /\ presented'[u] # "main" => isStarted[u] /\ begun[matched[u]] # {}
        /\ isStarted[u] => screen'[u] = "talking"
        /\ phoneShown[u] => presented'[u] = "review"
        /\ matched[u] = NoUser => screen'[u] = "searching"
    BY <1>7, <2>1, <2>2 DEF StepsInOrder
  <2>4. QED
    BY <1>1, <2>1, <2>3 DEF StepsInOrder
<1>10. QED
  BY <1>5, <1>6, <1>8, <1>9, OthersInOrder DEF InOrder

\* The observer of the review screen.
LEMMA RunReviewStep ==
    ASSUME TypeInv, SessionInv, HistoryGrows, NEW u \in Users, RunReview(u)
    PROVE  CopiesAreHonest' /\ InOrder'
<1> DEFINE snap == Head(mainQ[u]).snap
<1>1. /\ mainQ[u] # << >> /\ Head(mainQ[u]).kind = "review"
      /\ mainQ' = [mainQ EXCEPT ![u] = Tail(@)]
      /\ phoneShown' = [phoneShown EXCEPT ![u] = @ \/ Agreed(u, snap, "showPhoneNumber")]
      /\ UNCHANGED <<db, cache, outbox, inbox, matched, isObserving, isStarted, screen, presented,
                     accepted, begun, shared>>
  BY DEF RunReview, NumberShared, Next_is, treeVars, meetVars, histVars
<1>2. snap \in HonestTrees /\ presented[u] = "review"
  BY <1>1, Dequeued DEF Expected
<1> HIDE DEF snap
<1>3. Elsewhere(u)
  BY <1>1 DEF Elsewhere, TypeInv, TypeOK
<1>4. CopiesAreHonest'
  BY <1>1, CopiesKept DEF SessionInv
<1>5. /\ mainQ'[u] = Tail(mainQ[u])
      /\ phoneShown'[u] => phoneShown[u] \/ Agreed(u, snap, "showPhoneNumber")
  BY <1>1 DEF TypeInv, TypeOK
<1>6. QueueInOrder(u)'
  <2>1. \A b \in Expected[u] : b.kind = "match" => ~isObserving[u]
    BY DEF Expected
  <2>2. \A b \in Expected[u] : b \in Expected'[u]
    BY <1>1, <2>1, ExpectedLasts
  <2>3. QED
    BY <1>1, <1>5, <2>2, Dequeued DEF QueueInOrder
<1>7. StepsInOrder(u)'
  <2>1. Agreed(u, snap, "showPhoneNumber") => shared[matched[u]]
    BY <1>2, AgreedMeans
  <2>2. QED
    BY <1>1, <1>2, <1>5, <2>1, Before DEF StepsInOrder
<1>8. QED
  BY <1>3, <1>4, <1>6, <1>7, OthersInOrder DEF InOrder

\* The talk timer: at zero the review screen gets an honest snapshot.
LEMMA UpdateTalkTimerStep ==
    ASSUME TypeInv, SessionInv, HistoryGrows, NEW u \in Users, UpdateTalkTimer(u)
    PROVE  CopiesAreHonest' /\ InOrder'
<1> DEFINE b == [kind |-> "review", snap |-> cache[u]]
<1>1. /\ presented[u] = "timer"
      /\ \/ UNCHANGED <<presented, mainQ>>
         \/ /\ presented' = [presented EXCEPT ![u] = "review"]
            /\ mainQ' = [mainQ EXCEPT ![u] = Append(@, b)]
      /\ UNCHANGED <<db, cache, outbox, inbox, matched, isObserving, isStarted, screen,
                     phoneShown, accepted, begun, shared>>
  BY DEF UpdateTalkTimer, treeVars, meetVars, histVars
<1>2. CopiesAreHonest'
  BY <1>1, CopiesKept DEF SessionInv
<1>3. CASE UNCHANGED <<presented, mainQ>>
  BY <1>1, <1>2, <1>3, QuietInOrder
<1>4. CASE /\ presented' = [presented EXCEPT ![u] = "review"]
           /\ mainQ' = [mainQ EXCEPT ![u] = Append(@, b)]
  <2>1. Elsewhere(u)
    BY <1>1, <1>4 DEF Elsewhere, TypeInv, TypeOK
  <2>2. presented'[u] = "review" /\ mainQ'[u] = Append(mainQ[u], b)
    BY <1>4 DEF TypeInv, TypeOK
  <2>3. b \in Block /\ b \in Expected'[u] /\ b.kind # "match"
    <3>1. cache[u] \in HonestTrees'
      BY Before, HonestyLasts
    <3>2. b \in Block
      BY <3>1 DEF HonestTrees, Block, SnapBlock
    <3>3. QED
      BY <2>2, <3>1, <3>2 DEF Expected
  <2> HIDE DEF b
  <2>4. \A i \in 1 .. Len(mainQ[u]) : mainQ[u][i] \in Expected'[u]
    <3>1. \A x \in Expected[u] : x.kind = "match" => ~isObserving[u]
      BY DEF Expected
    <3>2. \A x \in Expected[u] : x \in Expected'[u]
      BY <1>1, <2>2, <3>1, ExpectedLasts
    <3>3. QED
      BY <3>2, Before
  <2>5. QueueInOrder(u)'
    BY <2>2, <2>3, <2>4, Before, RequestInOrder DEF QueueInOrder
  <2>6. StepsInOrder(u)'
    BY <1>1, <2>2, Before DEF StepsInOrder
  <2>7. QED
    BY <1>2, <2>1, <2>5, <2>6, OthersInOrder DEF InOrder
<1>5. QED
  BY <1>1, <1>3, <1>4

\* More events on the queue of a user whose screen does not change.
LEMMA EventsStep ==
    ASSUME TypeInv, SessionInv, HistoryGrows, NEW u \in Users, NEW e \in Seq(Block),
           \A i \in 1 .. Len(e) : e[i] \in Expected'[u] /\ e[i].kind \in {"start", "value", "review"},
           mainQ' = [mainQ EXCEPT ![u] = @ \o e],
           UNCHANGED <<matched, isObserving, isStarted, screen, presented, phoneShown, accepted>>
    PROVE  InOrder'
<1>1. Elsewhere(u) /\ mainQ'[u] = mainQ[u] \o e
  BY DEF Elsewhere, TypeInv, TypeOK
<1>2. \A i \in 1 .. Len(mainQ[u]) : mainQ[u][i] \in Expected'[u]
  <2>1. \A x \in Expected[u] : x.kind = "match" => ~isObserving[u]
    BY DEF Expected
  <2>2. \A x \in Expected[u] : x \in Expected'[u]
    BY <2>1, ExpectedLasts
  <2>3. QED
    BY <2>2, Before
<1>3. QueueInOrder(u)'
  <2> DEFINE q == mainQ[u] \o e
  <2>1. (\A i \in 1 .. Len(q) : q[i] \in Expected'[u]) /\ MatchesFirst(q)
    BY <1>2, Before, EventsInOrder
  <2>2. QED
    BY <1>1, <2>1 DEF QueueInOrder
<1>4. StepsInOrder(u)'
  BY Before DEF StepsInOrder, HistoryGrows
<1>5. QED
  BY <1>1, <1>3, <1>4, OthersInOrder DEF InOrder

\* The button that shares the phone number.
LEMMA ShowPhoneNumberStep ==
    ASSUME TypeInv, SessionInv, HistoryGrows, NEW u \in Users, ShowPhoneNumber(u)
    PROVE  CopiesAreHonest' /\ InOrder'
<1> DEFINE node == [cache[u][u] EXCEPT !.showPhoneNumber = "true"]
           events == ValueEvents(u, cache[u], WithOwn(u, node))
<1>1. /\ LocalWrite(u, <<node>>)
      /\ mainQ' = [mainQ EXCEPT ![u] = @ \o events]
      /\ shared' = [shared EXCEPT ![u] = TRUE]
      /\ UNCHANGED <<matched, isObserving, isStarted, screen, presented, phoneShown, accepted>>
  BY DEF ShowPhoneNumber, meetVars, viewVars
<1>2. node \in Honest'[u]
  <2>1. cache[u][u] \in Honest'[u]
    BY Before, HonestyLasts
  <2>2. shared'[u]
    BY <1>1 DEF TypeInv, TypeOK
  <2>3. QED
    BY <2>1, <2>2 DEF Honest, Node, Flag
<1> HIDE DEF node
<1>3. CopiesAreHonest'
  BY <1>1, <1>2, OneWriteHonest DEF SessionInv
<1>4. WithOwn(u, node) \in HonestTrees'
  BY <1>2, OwnTreeHonest DEF SessionInv
<1>5. /\ events \in Seq(Block)
      /\ \A i \in 1 .. Len(events) : /\ events[i] \in Expected'[u]
                                     /\ events[i].kind \in {"start", "value", "review"}
  BY <1>1, <1>4, EventsExpected
<1> HIDE DEF events
<1>6. QED
  BY <1>1, <1>3, <1>5, EventsStep

\* The exits of the application: three writes, each of an honest node.
LEMMA WithdrawStep ==
    ASSUME TypeInv, SessionInv, HistoryGrows, NEW u \in Users,
           DidEnterBackground(u) \/ WillTerminate(u)
    PROVE  CopiesAreHonest' /\ InOrder'
<1> DEFINE w == Withdrawn(u)
           e1 == ValueEvents(u, cache[u], WithOwn(u, w[1]))
           e2 == ValueEvents(u, WithOwn(u, w[1]), WithOwn(u, w[2]))
           e3 == ValueEvents(u, WithOwn(u, w[2]), WithOwn(u, w[3]))
<1>1. /\ LocalWrite(u, w)
      /\ mainQ' = [mainQ EXCEPT ![u] = @ \o e1 \o e2 \o e3]
      /\ UNCHANGED <<matched, isObserving, isStarted, screen, presented, phoneShown, accepted>>
  BY DEF DidEnterBackground, WillTerminate, WithdrawConsent, meetVars, viewVars, histVars
<1>2. /\ w \in Seq(Node) /\ w # << >> /\ Len(w) = 3
      /\ \A i \in 1 .. 3 : w[i] \in Honest'[u]
  <2> DEFINE n1 == [cache[u][u] EXCEPT !.agreedToMeet = "false"]
             n2 == [n1 EXCEPT !.agreedToStart = "false"]
             n3 == [n2 EXCEPT !.showPhoneNumber = "false"]
  <2>1. n1 \in Honest[u]
    BY Before, HonestNodes
  <2>2. n2 \in Honest[u]
    BY <2>1, HonestNodes
  <2>3. n3 \in Honest[u]
    BY <2>2, HonestNodes
  <2>4. w = <<n1, n2, n3>>
    BY DEF Withdrawn
  <2> HIDE DEF w, n1, n2, n3
  <2>5. n1 \in Honest'[u] /\ n2 \in Honest'[u] /\ n3 \in Honest'[u]
    BY <2>1, <2>2, <2>3, HonestyLasts
  <2>6. Honest[u] \subseteq Node
    BY HonestNodes
  <2>7. QED
    BY <2>1, <2>2, <2>3, <2>4, <2>5, <2>6
<1> HIDE DEF w
<1>3. CopiesAreHonest'
  BY <1>1, <1>2, LocalWriteHonest DEF SessionInv, TypeInv, TypeOK
<1>4. \A i \in 1 .. 3 : WithOwn(u, w[i]) \in HonestTrees'
  BY <1>2, OwnTreeHonest DEF SessionInv
<1> DEFINE Fit(e) == /\ e \in Seq(Block)
                     /\ \A i \in 1 .. Len(e) : /\ e[i] \in Expected'[u]
                                               /\ e[i].kind \in {"start", "value", "review"}
<1>5. Fit(e1) /\ Fit(e2) /\ Fit(e3)
  BY <1>1, <1>4, EventsExpected
<1> HIDE DEF e1, e2, e3
<1>6. mainQ[u] \in Seq(Block)
  BY Before
<1>7. \A i \in 1 .. Len(mainQ[u]) : mainQ[u][i] \in Expected'[u]
  <2>1. \A x \in Expected[u] : x.kind = "match" => ~isObserving[u]
    BY DEF Expected
  <2>2. \A x \in Expected[u] : x \in Expected'[u]
    BY <1>1, <2>1, ExpectedLasts
  <2>3. QED
    BY <2>2, Before
<1> DEFINE q1 == mainQ[u] \o e1
           q2 == q1 \o e2
           q3 == q2 \o e3
           Fits(q) == /\ q \in Seq(Block) /\ MatchesFirst(q)
                      /\ \A i \in 1 .. Len(q) : q[i] \in Expected'[u]
<1>8. Fits(mainQ[u])
  BY <1>6, <1>7, Before
<1>9. Fits(q1)
  BY <1>5, <1>8, EventsInOrder
<1> HIDE DEF q1
<1>10. Fits(q2)
  BY <1>5, <1>9, EventsInOrder
<1> HIDE DEF q2
<1>11. Fits(q3)
  BY <1>5, <1>10, EventsInOrder
<1>12. mainQ' = [mainQ EXCEPT ![u] = q3]
  BY <1>1 DEF q1, q2, q3
<1> HIDE DEF q3
<1>13. Elsewhere(u) /\ mainQ'[u] = q3
  BY <1>1, <1>12 DEF Elsewhere, TypeInv, TypeOK
<1>14. QueueInOrder(u)'
  BY <1>11, <1>13 DEF QueueInOrder
<1>15. StepsInOrder(u)'
  BY <1>1, Before DEF StepsInOrder, HistoryGrows
<1>16. QED
  BY <1>3, <1>13, <1>14, <1>15, OthersInOrder DEF InOrder

\* The end of a process empties its queue and resets its screens.
LEMMA DieStep ==
    ASSUME TypeInv, SessionInv, HistoryGrows, NEW u \in Users, Die(u)
    PROVE  CopiesAreHonest' /\ InOrder'
<1>1. /\ ForgetClient(u) /\ ResetFields(u)
      /\ mainQ' = [mainQ EXCEPT ![u] = << >>]
      /\ UNCHANGED <<accepted, begun, shared>>
  BY DEF Die, histVars
<1>2. CopiesAreHonest'
  BY <1>1, NetworkHonest DEF SessionInv, TypeInv, TypeOK
<1>3. Elsewhere(u)
  BY <1>1 DEF Elsewhere, ResetFields, TypeInv, TypeOK
<1>4. QueueInOrder(u)'
  <2>1. mainQ'[u] = << >>
    BY <1>1 DEF TypeInv, TypeOK
  <2>2. QED
    BY <2>1 DEF QueueInOrder, MatchesFirst
<1>5. StepsInOrder(u)'
  <2>1. /\ matched'[u] = NoUser /\ ~isObserving'[u] /\ ~isStarted'[u]
        /\ screen'[u] = "searching" /\ presented'[u] = "main" /\ ~phoneShown'[u]
    BY <1>1 DEF ResetFields, TypeInv, TypeOK
  <2>2. QED
    BY <1>1, <2>1, Before DEF StepsInOrder
<1>6. QED
  BY <1>2, <1>3, <1>4, <1>5, OthersInOrder DEF InOrder

\* An update brings honest nodes, and events that carry an honest tree.
LEMMA ReceiveStep ==
    ASSUME TypeInv, SessionInv, HistoryGrows, NEW u \in Users, Receive(u)
    PROVE  CopiesAreHonest' /\ InOrder'
<1> DEFINE after == TreeAfterUpdate(u)
           first == [kind |-> "value", snap |-> after]
           e == IF loaded[u] THEN ValueEvents(u, cache[u], after) ELSE <<first>>
<1>1. /\ ApplyUpdate(u) /\ cache' = [cache EXCEPT ![u] = after]
      /\ mainQ' = [mainQ EXCEPT ![u] = @ \o e]
      /\ UNCHANGED <<matched, isObserving, isStarted, screen, presented, phoneShown, accepted>>
  BY DEF Receive, ApplyUpdate, meetVars, viewVars, histVars
<1>2. CopiesAreHonest'
  BY <1>1, NetworkHonest DEF SessionInv, TypeInv, TypeOK
<1>3. after \in HonestTrees'
  <2>1. cache'[u] = after
    BY <1>1 DEF TypeInv, TypeOK, TreeTypeOK
  <2>2. QED
    BY <1>2, <2>1 DEF CopiesAreHonest
<1> HIDE DEF after
<1>4. first \in Expected'[u] /\ first \in Block
  BY <1>3 DEF Expected, Block, SnapBlock, HonestTrees
<1>5. /\ e \in Seq(Block)
      /\ \A i \in 1 .. Len(e) : e[i] \in Expected'[u] /\ e[i].kind \in {"start", "value", "review"}
  <2>1. CASE loaded[u]
    BY <1>1, <1>3, <2>1, EventsExpected
  <2>2. CASE ~loaded[u]
    <3>1. e = <<first>> /\ first.kind = "value"
      BY <2>2
    <3> HIDE DEF e, first
    <3>2. QED
      BY <1>4, <3>1
  <2>3. QED
    BY <2>1, <2>2
<1> HIDE DEF e
<1>6. QED
  BY <1>1, <1>2, <1>5, EventsStep

\* The remaining steps touch neither queues nor screens nor histories.
LEMMA QuietStep ==
    ASSUME TypeInv, SessionInv, HistoryGrows, NEW u \in Users,
           \/ UpdateTimer(u) \/ TopicReply(u) \/ Launch(u) \/ WillEnterForeground(u)
           \/ Commit(u) \/ Listen(u) \/ Disconnect(u)
    PROVE  CopiesAreHonest' /\ InOrder'
<1>1. UNCHANGED <<mainQ, matched, isObserving, isStarted, screen, presented, phoneShown,
                  accepted>>
  BY DEF UpdateTimer, TopicReply, Launch, WillEnterForeground, Commit, Listen, Disconnect,
     meetVars, viewVars, histVars
<1>2. \/ UNCHANGED <<db, cache, outbox, inbox>>
      \/ ServerCommits(u) \/ ServerAnswersListen(u) \/ DropConnection(u)
  BY DEF UpdateTimer, TopicReply, Launch, WillEnterForeground, Commit, Listen, Disconnect,
     treeVars
<1>3. CopiesAreHonest'
  BY <1>2, CopiesKept, NetworkHonest DEF SessionInv, TypeInv, TypeOK
<1>4. InOrder'
  BY <1>1, QuietInOrder
<1>5. QED
  BY <1>3, <1>4

----------------------------------------------------------------------------
(* The theorems.                                                           *)

IInv == TypeInv /\ SessionInv

LEMMA SessionInit == Init => SessionInv
<1> SUFFICES ASSUME Init
             PROVE  SessionInv
  OBVIOUS
<1>1. \A v \in Users : EmptyNode \in Honest[v] /\ EmptyNode \in Node
  BY HonestNodes DEF EmptyNode, Node, Flag
<1>2. [v \in Users |-> EmptyNode] \in HonestTrees
  BY <1>1 DEF HonestTrees, Tree
<1>3. /\ db = [v \in Users |-> EmptyNode]
      /\ \A u \in Users : /\ cache[u] = [v \in Users |-> EmptyNode]
                          /\ outbox[u] = << >> /\ inbox[u] = << >> /\ mainQ[u] = << >>
  BY DEF Init, TreeInit
<1>4. CopiesAreHonest
  BY <1>2, <1>3 DEF CopiesAreHonest
<1>5. \A u \in Users : QueueInOrder(u)
  <2> SUFFICES ASSUME NEW u \in Users
               PROVE  QueueInOrder(u)
    OBVIOUS
  <2>1. mainQ[u] = << >>
    BY <1>3
  <2>2. 1 .. Len(mainQ[u]) = {}
    BY <2>1
  <2>3. MatchesFirst(mainQ[u])
    BY <2>2 DEF MatchesFirst
  <2>4. QED
    BY <2>2, <2>3 DEF QueueInOrder
<1>6. \A u \in Users : StepsInOrder(u)
  BY DEF Init, StepsInOrder
<1>7. QED
  BY <1>4, <1>5, <1>6 DEF SessionInv

\* Every step keeps the invariant.
LEMMA SessionStep == IInv /\ [Next]_vars => IInv'
<1> SUFFICES ASSUME TypeInv, SessionInv, [Next]_vars
             PROVE  IInv'
  BY DEF IInv
<1>1. HistoryGrows /\ TypeInv'
  BY HistoryStep, TypeStep
<1>2. CopiesAreHonest' /\ InOrder'
  <2>1. CASE UNCHANGED vars
    <3>1. UNCHANGED <<db, cache, outbox, inbox, mainQ, matched, isObserving, isStarted, screen,
                      presented, phoneShown, accepted>>
      BY <2>1 DEF vars, treeVars, meetVars, viewVars, histVars
    <3>2. QED
      BY <1>1, <3>1, CopiesKept, QuietInOrder DEF SessionInv
  <2>2. CASE Next
    <3>1. PICK u \in Users :
             \/ \E k \in Users : KeyEntered(u, k)
             \/ Buttons(u)
             \/ Blocks(u)
             \/ Clocks(u)
             \/ Network(u)
             \/ Lifecycle(u)
      BY <2>2 DEF Next
    <3>2. CASE \E k \in Users : KeyEntered(u, k)
      BY <1>1, <3>2, KeyEnteredStep
    <3>3. CASE Buttons(u)
      BY <1>1, <3>3, TapStep, ShowPhoneNumberStep DEF Buttons
    <3>4. CASE Blocks(u)
      BY <1>1, <3>4, RunMatchStep, RunMeetStep, RunStartStep, RunValueStep, RunReviewStep
         DEF Blocks
    <3>5. CASE Clocks(u)
      BY <1>1, <3>5, QuietStep, UpdateTalkTimerStep DEF Clocks
    <3>6. CASE Network(u)
      BY <1>1, <3>6, QuietStep, ReceiveStep DEF Network
    <3>7. CASE Lifecycle(u)
      BY <1>1, <3>7, QuietStep, WithdrawStep, DieStep DEF Lifecycle
    <3>8. QED
      BY <3>1, <3>2, <3>3, <3>4, <3>5, <3>6, <3>7
  <2>3. QED
    BY <2>1, <2>2
<1>3. QED
  BY <1>1, <1>2 DEF IInv, InOrder, SessionInv

\* The inductive invariant of a meeting: honest copies, fitting blocks, steps
\* in order.
THEOREM SessionCorrect == Spec => []SessionInv
<1>1. Init => IInv
  BY TypeInit, SessionInit DEF IInv
<1>2. IInv => SessionInv
  BY DEF IInv
<1>3. QED
  BY <1>1, <1>2, SessionStep, PTL DEF Spec

\* Nobody reaches the talking screen unless both sides have agreed to meet.
THEOREM AgreementTheorem == Spec => []BothAccepted
<1>1. SessionInv => BothAccepted
  BY DEF SessionInv, StepsInOrder, BothAccepted
<1>2. QED
  BY <1>1, SessionCorrect, PTL

\* Nobody sees the talk timer unless both sides have agreed and started.
THEOREM StartTheorem == Spec => []BothBegan
<1>1. SessionInv => BothBegan
  BY DEF SessionInv, StepsInOrder, BothBegan
<1>2. QED
  BY <1>1, SessionCorrect, PTL

\* A phone number is displayed only if its owner has shared it.
THEOREM PhoneTheorem == Spec => []PhoneNeedsConsent
<1>1. SessionInv => PhoneNeedsConsent
  BY DEF SessionInv, StepsInOrder, PhoneNeedsConsent
<1>2. QED
  BY <1>1, SessionCorrect, PTL

\* Until the process ends, no step takes a match, or the talking screen, from
\* a user who has agreed.
LEMMA SettledStep ==
    ASSUME IInv, Next, NEW u \in Users, isObserving[u], app'[u] # "dead"
    PROVE  /\ matched'[u] = matched[u]
           /\ screen[u] = "talking" => screen'[u] = "talking"
<1>1. PICK v \in Users :
         \/ \E k \in Users : KeyEntered(v, k)
         \/ Buttons(v)
         \/ Blocks(v)
         \/ Clocks(v)
         \/ Network(v)
         \/ Lifecycle(v)
  BY DEF Next
<1>2. TypeInv /\ SessionInv
  BY DEF IInv
<1>3. CASE UNCHANGED <<matched, screen>>
  BY <1>3
<1>4. CASE RunMatch(v)
  <2>1. mainQ[v] # << >> /\ Head(mainQ[v]).kind = "match"
    BY <1>4 DEF RunMatch, Next_is
  <2>2. ~isObserving[v]
    BY <1>2, <2>1, Dequeued DEF Expected
  <2>3. QED
    BY <1>2, <1>4, <2>2 DEF RunMatch, TypeInv, TypeOK
<1>5. CASE RunMeet(v)
  <2>1. /\ UNCHANGED matched
        /\ \E s \in {"talking", screen[v]} : screen' = [screen EXCEPT ![v] = s]
    BY <1>5 DEF RunMeet
  <2>2. QED
    BY <1>2, <2>1 DEF TypeInv, TypeOK
<1>6. CASE RunValue(v)
  <2>1. /\ UNCHANGED matched
        /\ UNCHANGED screen \/ screen' = [screen EXCEPT ![v] = "talking"]
    BY <1>6 DEF RunValue, MeetObserver, meetVars
  <2>2. QED
    BY <1>2, <2>1 DEF TypeInv, TypeOK
<1>7. CASE Die(v)
  <2>1. app'[v] = "dead"
    BY <1>2, <1>7 DEF Die, TypeInv, TypeOK
  <2>2. QED
    BY <1>2, <1>7, <2>1 DEF Die, ResetFields, TypeInv, TypeOK
<1>8. QED
  <2>1. UNCHANGED <<matched, screen>> \/ RunMatch(v) \/ RunMeet(v) \/ RunValue(v) \/ Die(v)
    <3>1. CASE \E k \in Users : KeyEntered(v, k)
      BY <3>1 DEF KeyEntered, meetVars, viewVars
    <3>2. CASE Buttons(v)
      BY <3>2 DEF Buttons, TapMeet, TapStart, ShowPhoneNumber, meetVars, viewVars
    <3>3. CASE Blocks(v)
      BY <3>3 DEF Blocks, RunStart, RunReview, meetVars
    <3>4. CASE Clocks(v)
      BY <3>4 DEF Clocks, UpdateTimer, UpdateTalkTimer, meetVars, viewVars
    <3>5. CASE Network(v)
      BY <3>5 DEF Network, Commit, Listen, Receive, TopicReply, meetVars, viewVars
    <3>6. CASE Lifecycle(v)
      BY <3>6 DEF Lifecycle, Launch, DidEnterBackground, WillEnterForeground, WillTerminate,
         Disconnect, meetVars, viewVars
    <3>7. QED
      BY <1>1, <3>1, <3>2, <3>3, <3>4, <3>5, <3>6
  <2>2. QED
    BY <1>3, <1>4, <1>5, <1>6, <1>7, <2>1

\* Whatever completions are still queued, the match of a user who has agreed
\* is settled, and the talking screen stays.
THEOREM SettledTheorem == Spec => PartnerIsSettled
<1> DEFINE A == \A u \in Users : (isObserving[u] /\ app'[u] # "dead") =>
                   /\ matched'[u] = matched[u]
                   /\ screen[u] = "talking" => screen'[u] = "talking"
<1>1. IInv /\ [Next]_vars => [A]_vars
  BY SettledStep
<1>2. Init => IInv
  BY TypeInit, SessionInit DEF IInv
<1>3. QED
  BY <1>1, <1>2, SessionStep, PTL DEF Spec, PartnerIsSettled

=============================================================================
