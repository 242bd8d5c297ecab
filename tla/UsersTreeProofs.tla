-------------------------- MODULE UsersTreeProofs --------------------------
(***************************************************************************)
(* What the operations of UsersTree keep: lemmas for the modules that are  *)
(* built on it.                                                            *)
(***************************************************************************)
EXTENDS UsersTree, SequenceTheorems, TLAPS

\* The first element of a queue and the elements that remain behind it.
LEMMA TailElements ==
    ASSUME NEW S, NEW s \in Seq(S), s # << >>
    PROVE  /\ Head(s) \in S /\ Head(s) = s[1]
           /\ Len(s) \in Nat /\ Len(s) >= 1
           /\ Tail(s) \in Seq(S)
           /\ Len(Tail(s)) = Len(s) - 1
           /\ \A i \in 1 .. Len(Tail(s)) : Tail(s)[i] = s[i + 1]
BY HeadTailProperties, EmptySeq, LenProperties

\* The elements of a queue with one more at its end.
LEMMA AppendElements ==
    ASSUME NEW S, NEW s \in Seq(S), NEW e \in S
    PROVE  /\ Append(s, e) \in Seq(S)
           /\ Len(s) \in Nat
           /\ Len(Append(s, e)) = Len(s) + 1
           /\ \A i \in 1 .. Len(s) + 1 :
                 Append(s, e)[i] = IF i <= Len(s) THEN s[i] ELSE e
BY AppendProperties, LenProperties

\* The elements of a queue with several more at its end.
LEMMA ConcatElements ==
    ASSUME NEW S, NEW s \in Seq(S), NEW t \in Seq(S)
    PROVE  /\ s \o t \in Seq(S)
           /\ Len(s) \in Nat /\ Len(t) \in Nat
           /\ Len(s \o t) = Len(s) + Len(t)
           /\ \A i \in 1 .. Len(s) + Len(t) :
                 (s \o t)[i] = IF i <= Len(s) THEN s[i] ELSE t[i - Len(s)]
BY ConcatProperties, LenProperties

----------------------------------------------------------------------------
(* Types.                                                                  *)

\* A local write of well-formed nodes keeps the tree well-formed.
LEMMA LocalWriteType ==
    ASSUME TreeTypeOK, NEW u \in Users, NEW nodes \in Seq(Node), nodes # << >>,
           LocalWrite(u, nodes)
    PROVE  TreeTypeOK'
<1>1. nodes[Len(nodes)] \in Node
  BY LenProperties, EmptySeq, ElementOfSeq
<1>2. outbox[u] \o nodes \in Seq(Node)
  BY ConcatProperties DEF TreeTypeOK
<1>3. cache' \in [Users -> Tree]
  BY <1>1 DEF TreeTypeOK, LocalWrite, Tree
<1>4. outbox' \in [Users -> Seq(Node)]
  BY <1>2 DEF TreeTypeOK, LocalWrite
<1>5. QED
  BY <1>3, <1>4 DEF TreeTypeOK, LocalWrite

\* A commit keeps the tree well-formed.
LEMMA ServerCommitsType ==
    ASSUME TreeTypeOK, NEW u \in Users, ServerCommits(u)
    PROVE  TreeTypeOK'
<1>1. Head(outbox[u]) \in Node /\ Tail(outbox[u]) \in Seq(Node)
  BY TailElements DEF TreeTypeOK, ServerCommits
<1>2. [v \in {u} |-> Head(outbox[u])] \in Update
  <2>1. [v \in {u} |-> Head(outbox[u])] \in [{u} -> Node]
    BY <1>1
  <2>2. {u} \in SUBSET Users
    OBVIOUS
  <2>3. QED
    BY <2>1, <2>2 DEF Update
<1>3. \A w \in Users : Append(inbox[w], [v \in {u} |-> Head(outbox[u])]) \in Seq(Update)
  BY <1>2, AppendProperties DEF TreeTypeOK
<1>4. inbox' \in [Users -> Seq(Update)]
  BY <1>3 DEF TreeTypeOK, ServerCommits
<1>5. db' \in Tree /\ outbox' \in [Users -> Seq(Node)]
  BY <1>1 DEF TreeTypeOK, ServerCommits, Tree
<1>6. QED
  BY <1>4, <1>5 DEF TreeTypeOK, ServerCommits

\* The answer to a listen request keeps the tree well-formed.
LEMMA ServerAnswersListenType ==
    ASSUME TreeTypeOK, NEW u \in Users, ServerAnswersListen(u)
    PROVE  TreeTypeOK'
<1>1. [v \in Users \ {u} |-> db[v]] \in Update
  <2>1. [v \in Users \ {u} |-> db[v]] \in [Users \ {u} -> Node]
    BY DEF TreeTypeOK, Tree
  <2>2. Users \ {u} \in SUBSET Users
    OBVIOUS
  <2>3. QED
    BY <2>1, <2>2 DEF Update
<1>2. Append(inbox[u], [v \in Users \ {u} |-> db[v]]) \in Seq(Update)
  BY <1>1, AppendProperties DEF TreeTypeOK
<1>3. inbox' \in [Users -> Seq(Update)]
  BY <1>2 DEF TreeTypeOK, ServerAnswersListen
<1>4. listening' \in [Users -> BOOLEAN]
  BY DEF TreeTypeOK, ServerAnswersListen
<1>5. QED
  BY <1>3, <1>4 DEF TreeTypeOK, ServerAnswersListen

\* The tree a device has after an update is a tree.
LEMMA TreeAfterUpdateType ==
    ASSUME TreeTypeOK, NEW u \in Users, inbox[u] # << >>
    PROVE  TreeAfterUpdate(u) \in Tree
<1>1. Head(inbox[u]) \in Update
  BY TailElements DEF TreeTypeOK
<1>2. \A v \in DOMAIN Head(inbox[u]) : Head(inbox[u])[v] \in Node
  <2>1. PICK S \in SUBSET Users : Head(inbox[u]) \in [S -> Node]
    BY <1>1 DEF Update
  <2>2. QED
    BY <2>1
<1>3. \A v \in Users : cache[u][v] \in Node
  BY DEF TreeTypeOK, Tree
<1>4. QED
  BY <1>2, <1>3 DEF TreeAfterUpdate, Tree

\* Applying an update keeps the tree well-formed.
LEMMA ApplyUpdateType ==
    ASSUME TreeTypeOK, NEW u \in Users, ApplyUpdate(u)
    PROVE  TreeTypeOK'
<1>1. Tail(inbox[u]) \in Seq(Update)
  BY TailElements DEF TreeTypeOK, ApplyUpdate
<1>2. cache' \in [Users -> Tree]
  BY TreeAfterUpdateType DEF TreeTypeOK, ApplyUpdate
<1>3. inbox' \in [Users -> Seq(Update)] /\ loaded' \in [Users -> BOOLEAN]
  BY <1>1 DEF TreeTypeOK, ApplyUpdate
<1>4. QED
  BY <1>2, <1>3 DEF TreeTypeOK, ApplyUpdate

\* A broken connection and the end of a process keep the tree well-formed.
LEMMA DropConnectionType ==
    ASSUME TreeTypeOK, NEW u \in Users, DropConnection(u)
    PROVE  TreeTypeOK'
<1>1. << >> \in Seq(Update)
  BY EmptySeq
<1>2. QED
  BY <1>1 DEF TreeTypeOK, DropConnection

LEMMA ForgetClientType ==
    ASSUME TreeTypeOK, NEW u \in Users, ForgetClient(u)
    PROVE  TreeTypeOK'
<1>1. << >> \in Seq(Update) /\ << >> \in Seq(Node)
  BY EmptySeq
<1>2. EmptyNode \in Node
  BY DEF EmptyNode, Node, Flag
<1>3. [v \in Users |-> IF v = u THEN db[u] ELSE EmptyNode] \in Tree
  BY <1>2 DEF TreeTypeOK, Tree
<1>4. cache' \in [Users -> Tree]
  BY <1>3 DEF TreeTypeOK, ForgetClient
<1>5. QED
  BY <1>1, <1>4 DEF TreeTypeOK, ForgetClient

\* The initial tree is well-formed.
LEMMA TreeInitType == TreeInit => TreeTypeOK
<1>1. << >> \in Seq(Update) /\ << >> \in Seq(Node)
  BY EmptySeq
<1>2. EmptyNode \in Node
  BY DEF EmptyNode, Node, Flag
<1>3. QED
  BY <1>1, <1>2 DEF TreeInit, TreeTypeOK, Tree

----------------------------------------------------------------------------
(* All copies of a node become the node its owner sees.                    *)

\* The updates of a queue that carry the node of v.
Mentions(q, v) == {i \in 1 .. Len(q) : v \in DOMAIN q[i]}

\* A device that has the node c of v, and will apply q, ends with the node d.
EndsWith(q, v, c, d) ==
    \/ Mentions(q, v) = {} /\ c = d
    \/ \E i \in Mentions(q, v) : q[i][v] = d /\ \A j \in Mentions(q, v) : j <= i

\* What is kept of one device.
Follower(u) ==
    /\ SeesOwnWrites(u)
    /\ listening[u] => \A v \in Users \ {u} : EndsWith(inbox[u], v, cache[u][v], db[v])
    /\ Mentions(inbox[u], u) = {}
    /\ ~listening[u] => inbox[u] = << >>

LEMMA Followers == Converges <=> \A u \in Users : Follower(u)
BY DEF Converges, FollowsServer, Follower, About, EndsWith, Mentions

LEMMA FollowersNext == Converges' <=> \A u \in Users : Follower(u)'
BY DEF Converges, FollowsServer, Follower, About, EndsWith, Mentions

\* One more update: what it carries is what the device ends with.
LEMMA AppendEnds ==
    ASSUME NEW S, NEW q \in Seq(S), NEW e \in S, NEW v, NEW c, NEW d,
           IF v \in DOMAIN e THEN e[v] = d ELSE EndsWith(q, v, c, d)
    PROVE  EndsWith(Append(q, e), v, c, d)
<1> DEFINE p == Append(q, e)
<1>1. /\ Len(q) \in Nat /\ Len(p) = Len(q) + 1
      /\ \A i \in 1 .. Len(q) + 1 : p[i] = IF i <= Len(q) THEN q[i] ELSE e
  BY AppendElements
<1> HIDE DEF p
<1>2. CASE v \in DOMAIN e
  <2>1. Len(q) + 1 \in Mentions(p, v) /\ p[Len(q) + 1] = e
    BY <1>1, <1>2 DEF Mentions
  <2>2. \A j \in Mentions(p, v) : j <= Len(q) + 1
    BY <1>1 DEF Mentions
  <2>3. EndsWith(p, v, c, d)
    BY <1>2, <2>1, <2>2 DEF EndsWith
  <2>4. QED
    BY <2>3 DEF p
<1>3. CASE v \notin DOMAIN e
  <2>1. ASSUME NEW i \in Mentions(p, v)
        PROVE  i \in Mentions(q, v) /\ p[i] = q[i]
    BY <1>1, <1>3, <2>1 DEF Mentions
  <2>2. ASSUME NEW i \in Mentions(q, v)
        PROVE  i \in Mentions(p, v) /\ p[i] = q[i]
    BY <1>1, <2>2 DEF Mentions
  <2>3. Mentions(p, v) = Mentions(q, v)
    BY <2>1, <2>2
  <2>4. EndsWith(p, v, c, d)
    BY <1>3, <2>2, <2>3 DEF EndsWith
  <2>5. QED
    BY <2>4 DEF p
<1>4. QED
  BY <1>2, <1>3

\* The oldest update moves from the queue into the tree.
LEMMA TailEnds ==
    ASSUME NEW S, NEW q \in Seq(S), q # << >>, NEW v, NEW c, NEW d, EndsWith(q, v, c, d)
    PROVE  EndsWith(Tail(q), v, IF v \in DOMAIN Head(q) THEN Head(q)[v] ELSE c, d)
<1> DEFINE t == Tail(q)
           n == IF v \in DOMAIN Head(q) THEN Head(q)[v] ELSE c
<1>1. /\ Head(q) = q[1] /\ Len(q) \in Nat /\ Len(q) >= 1
      /\ Len(t) = Len(q) - 1
      /\ \A i \in 1 .. Len(t) : t[i] = q[i + 1]
  BY TailElements
<1> HIDE DEF t
<1>2. \A i \in Mentions(t, v) : i \in Nat /\ i >= 1 /\ i + 1 \in Mentions(q, v)
  BY <1>1 DEF Mentions
<1>3. \A i \in Mentions(q, v) : i \in Nat /\ (i > 1 => /\ i - 1 \in Mentions(t, v)
                                                      /\ t[i - 1] = q[i])
  BY <1>1 DEF Mentions
<1>4. CASE Mentions(q, v) = {} /\ c = d
  <2>1. Mentions(t, v) = {}
    BY <1>2, <1>4
  <2>2. v \notin DOMAIN Head(q)
    BY <1>1, <1>4 DEF Mentions
  <2>3. EndsWith(t, v, n, d)
    BY <1>4, <2>1, <2>2 DEF EndsWith
  <2>4. QED
    BY <2>3 DEF t
<1>5. ASSUME NEW i \in Mentions(q, v), q[i][v] = d, \A j \in Mentions(q, v) : j <= i
      PROVE  EndsWith(t, v, n, d)
  <2>1. CASE i > 1
    <3>1. i - 1 \in Mentions(t, v) /\ t[i - 1][v] = d
      BY <1>3, <1>5, <2>1
    <3>2. \A j \in Mentions(t, v) : j <= i - 1
      BY <1>2, <1>3, <1>5
    <3>3. QED
      BY <3>1, <3>2 DEF EndsWith
  <2>2. CASE ~(i > 1)
    <3>1. i = 1 /\ v \in DOMAIN Head(q) /\ n = d
      BY <1>1, <1>5, <2>2 DEF Mentions
    <3>2. ASSUME NEW j \in Mentions(t, v)
          PROVE  FALSE
      <4>1. j \in Nat /\ j >= 1 /\ j + 1 \in Mentions(q, v)
        BY <1>2
      <4>2. j + 1 <= 1
        BY <1>5, <3>1, <4>1
      <4>3. QED
        BY <4>1, <4>2
    <3>3. QED
      BY <3>1, <3>2 DEF EndsWith
  <2>3. QED
    BY <2>1, <2>2
<1>6. QED
  BY <1>4, <1>5 DEF EndsWith, t

\* A queue that carries the node of v nowhere carries it nowhere later.
LEMMA SilentTail ==
    ASSUME NEW S, NEW q \in Seq(S), q # << >>, NEW v, Mentions(q, v) = {}
    PROVE  v \notin DOMAIN Head(q) /\ Mentions(Tail(q), v) = {}
<1>1. /\ Head(q) = q[1] /\ Len(q) \in Nat /\ Len(q) >= 1
      /\ Len(Tail(q)) = Len(q) - 1
      /\ \A i \in 1 .. Len(Tail(q)) : Tail(q)[i] = q[i + 1]
  BY TailElements
<1>2. v \notin DOMAIN Head(q)
  BY <1>1 DEF Mentions
<1>3. \A i \in 1 .. Len(Tail(q)) : i + 1 \in 1 .. Len(q) /\ v \notin DOMAIN Tail(q)[i]
  BY <1>1 DEF Mentions
<1>4. QED
  BY <1>2, <1>3 DEF Mentions

LEMMA SilentAppend ==
    ASSUME NEW S, NEW q \in Seq(S), NEW e \in S, NEW v, Mentions(q, v) = {}, v \notin DOMAIN e
    PROVE  Mentions(Append(q, e), v) = {}
<1>1. /\ Len(q) \in Nat /\ Len(Append(q, e)) = Len(q) + 1
      /\ \A i \in 1 .. Len(q) + 1 : Append(q, e)[i] = IF i <= Len(q) THEN q[i] ELSE e
  BY AppendElements
<1>2. QED
  BY <1>1 DEF Mentions

\* A local write is what its device sees; the others do not notice it.
LEMMA LocalWriteConverges ==
    ASSUME TreeTypeOK, Converges, NEW u \in Users, NEW nodes \in Seq(Node), nodes # << >>,
           LocalWrite(u, nodes)
    PROVE  Converges'
<1>1. /\ cache' = [cache EXCEPT ![u][u] = nodes[Len(nodes)]]
      /\ outbox' = [outbox EXCEPT ![u] = @ \o nodes]
      /\ UNCHANGED <<db, inbox, listening>>
  BY DEF LocalWrite
<1>2. \A w \in Users : Follower(w)
  BY Followers
<1>3. SUFFICES ASSUME NEW w \in Users
               PROVE  Follower(w)'
  BY FollowersNext
<1>4. SeesOwnWrites(w)'
  <2>1. CASE w # u
    BY <1>1, <1>2, <2>1 DEF TreeTypeOK, Follower, SeesOwnWrites
  <2>2. CASE w = u
    <3>1. outbox[u] \in Seq(Node) /\ outbox'[u] = outbox[u] \o nodes
      BY <1>1 DEF TreeTypeOK
    <3>2. /\ outbox'[u] \in Seq(Node)
          /\ Len(outbox[u]) \in Nat /\ Len(nodes) \in Nat /\ Len(nodes) >= 1
          /\ Len(outbox'[u]) = Len(outbox[u]) + Len(nodes)
          /\ \A i \in 1 .. Len(outbox[u]) + Len(nodes) :
                outbox'[u][i] = IF i <= Len(outbox[u]) THEN outbox[u][i]
                                                       ELSE nodes[i - Len(outbox[u])]
      BY <3>1, ConcatElements, EmptySeq
    <3>3. outbox'[u] # << >> /\ outbox'[u][Len(outbox'[u])] = nodes[Len(nodes)]
      BY <3>2, EmptySeq
    <3>4. cache'[u][u] = nodes[Len(nodes)]
      BY <1>1 DEF TreeTypeOK, Tree
    <3>5. QED
      BY <2>2, <3>3, <3>4 DEF SeesOwnWrites
  <2>3. QED
    BY <2>1, <2>2
<1>5. \A v \in Users \ {w} : cache'[w][v] = cache[w][v]
  BY <1>1 DEF TreeTypeOK, Tree
<1>6. QED
  BY <1>1, <1>2, <1>4, <1>5 DEF Follower

\* A commit reaches every device that listens.
LEMMA ServerCommitsConverges ==
    ASSUME TreeTypeOK, Converges, NEW u \in Users, ServerCommits(u)
    PROVE  Converges'
<1> DEFINE head == Head(outbox[u])
           new == [v \in {u} |-> head]
<1>1. /\ outbox[u] \in Seq(Node) /\ outbox[u] # << >>
      /\ db' = [db EXCEPT ![u] = head]
      /\ outbox' = [outbox EXCEPT ![u] = Tail(@)]
      /\ \A w \in Users : inbox'[w] = IF w # u /\ listening[w] THEN Append(inbox[w], new)
                                                               ELSE inbox[w]
      /\ UNCHANGED <<cache, listening>>
  BY DEF ServerCommits, TreeTypeOK
<1>2. \A w \in Users : Follower(w)
  BY Followers
<1>3. DOMAIN new = {u} /\ new[u] = head
  OBVIOUS
<1>4. new \in Update
  <2>1. head \in Node
    BY <1>1, TailElements
  <2>2. new \in [{u} -> Node] /\ {u} \in SUBSET Users
    BY <2>1
  <2>3. QED
    BY <2>2 DEF Update
<1> HIDE DEF new
<1>5. /\ db'[u] = head
      /\ \A v \in Users \ {u} : db'[v] = db[v]
  BY <1>1 DEF TreeTypeOK, Tree
<1>6. SUFFICES ASSUME NEW w \in Users
               PROVE  Follower(w)'
  BY FollowersNext
<1>7. SeesOwnWrites(w)'
  <2>1. CASE w # u
    BY <1>1, <1>2, <1>5, <2>1 DEF TreeTypeOK, Follower, SeesOwnWrites
  <2>2. CASE w = u
    <3>1. outbox'[u] = Tail(outbox[u])
      BY <1>1 DEF TreeTypeOK
    <3>2. /\ head = outbox[u][1] /\ Len(outbox[u]) \in Nat /\ Len(outbox[u]) >= 1
          /\ outbox'[u] \in Seq(Node)
          /\ Len(outbox'[u]) = Len(outbox[u]) - 1
          /\ \A i \in 1 .. Len(outbox'[u]) : outbox'[u][i] = outbox[u][i + 1]
      <4>1. /\ head = outbox[u][1] /\ Len(outbox[u]) \in Nat /\ Len(outbox[u]) >= 1
            /\ Tail(outbox[u]) \in Seq(Node)
            /\ Len(Tail(outbox[u])) = Len(outbox[u]) - 1
            /\ \A i \in 1 .. Len(Tail(outbox[u])) : Tail(outbox[u])[i] = outbox[u][i + 1]
        BY <1>1, TailElements
      <4>2. QED
        BY <3>1, <4>1
    <3>3. cache[u][u] = outbox[u][Len(outbox[u])]
      BY <1>1, <1>2 DEF Follower, SeesOwnWrites
    <3> HIDE DEF head
    <3>4. CASE Len(outbox[u]) = 1
      <4>1. outbox'[u] = << >>
        BY <3>2, <3>4, EmptySeq
      <4>2. QED
        BY <1>1, <1>5, <2>2, <3>2, <3>3, <3>4, <4>1 DEF SeesOwnWrites
    <3>5. CASE Len(outbox[u]) # 1
      <4>1. Len(outbox'[u]) \in 1 .. Len(outbox'[u])
        <5>1. ASSUME NEW m \in Nat, m >= 1, m # 1
              PROVE  m - 1 \in 1 .. m - 1
          BY <5>1
        <5>2. /\ Len(outbox[u]) \in Nat /\ Len(outbox[u]) >= 1 /\ Len(outbox[u]) # 1
              /\ Len(outbox'[u]) = Len(outbox[u]) - 1
          BY <3>2, <3>5
        <5>3. QED
          BY <5>1, <5>2
      <4>2. outbox'[u][Len(outbox'[u])] = outbox[u][Len(outbox[u])]
        BY <3>2, <4>1
      <4>3. outbox'[u] # << >>
        BY <4>1
      <4>4. QED
        BY <1>1, <2>2, <3>3, <4>2, <4>3 DEF SeesOwnWrites
    <3>6. QED
      BY <3>4, <3>5
  <2>3. QED
    BY <2>1, <2>2
<1> HIDE DEF head
<1>8. inbox[w] \in Seq(Update)
  BY DEF TreeTypeOK
<1>9. CASE w = u \/ ~listening[w]
  <2>1. inbox'[w] = inbox[w] /\ cache'[w] = cache[w] /\ listening'[w] = listening[w]
    BY <1>1, <1>9
  <2>2. listening[w] => \A v \in Users \ {w} : db'[v] = db[v]
    BY <1>5, <1>9
  <2>3. QED
    BY <1>2, <1>7, <2>1, <2>2 DEF Follower
<1>10. CASE w # u /\ listening[w]
  <2>1. inbox'[w] = Append(inbox[w], new) /\ cache'[w] = cache[w] /\ listening'[w]
    BY <1>1, <1>10
  <2>2. \A v \in Users \ {w} : EndsWith(Append(inbox[w], new), v, cache[w][v], db'[v])
    <3>1. SUFFICES ASSUME NEW v \in Users \ {w}
                   PROVE  IF v \in DOMAIN new THEN new[v] = db'[v]
                          ELSE EndsWith(inbox[w], v, cache[w][v], db'[v])
      BY <1>4, <1>8, AppendEnds
    <3>2. QED
      BY <1>2, <1>3, <1>5, <1>10 DEF Follower
  <2>3. Mentions(Append(inbox[w], new), w) = {}
    BY <1>2, <1>3, <1>4, <1>8, <1>10, SilentAppend DEF Follower
  <2>4. QED
    BY <1>7, <2>1, <2>2, <2>3 DEF Follower
<1>11. QED
  BY <1>9, <1>10

\* The whole tree of the server is what the device ends with.
LEMMA ServerAnswersListenConverges ==
    ASSUME TreeTypeOK, Converges, NEW u \in Users, ServerAnswersListen(u)
    PROVE  Converges'
<1> DEFINE new == [v \in Users \ {u} |-> db[v]]
<1>1. /\ listening' = [listening EXCEPT ![u] = TRUE]
      /\ inbox' = [inbox EXCEPT ![u] = Append(@, new)]
      /\ UNCHANGED <<db, cache, outbox>>
  BY DEF ServerAnswersListen
<1>2. \A w \in Users : Follower(w)
  BY Followers
<1>3. DOMAIN new = Users \ {u} /\ \A v \in Users \ {u} : new[v] = db[v]
  OBVIOUS
<1>4. new \in Update
  <2>1. new \in [Users \ {u} -> Node] /\ Users \ {u} \in SUBSET Users
    BY DEF TreeTypeOK, Tree
  <2>2. QED
    BY <2>1 DEF Update
<1> HIDE DEF new
<1>5. SUFFICES ASSUME NEW w \in Users
               PROVE  Follower(w)'
  BY FollowersNext
<1>6. SeesOwnWrites(w)'
  BY <1>1, <1>2 DEF Follower, SeesOwnWrites
<1>7. CASE w # u
  BY <1>1, <1>2, <1>6, <1>7 DEF TreeTypeOK, Follower
<1>8. CASE w = u
  <2>1. inbox[u] \in Seq(Update) /\ inbox'[u] = Append(inbox[u], new) /\ listening'[u]
    BY <1>1 DEF TreeTypeOK
  <2>2. \A v \in Users \ {u} : EndsWith(Append(inbox[u], new), v, cache[u][v], db[v])
    BY <1>3, <1>4, <2>1, AppendEnds
  <2>3. Mentions(Append(inbox[u], new), u) = {}
    BY <1>2, <1>3, <1>4, <2>1, SilentAppend DEF Follower
  <2>4. QED
    BY <1>1, <1>6, <1>8, <2>1, <2>2, <2>3 DEF Follower
<1>9. QED
  BY <1>7, <1>8

\* An update moves from the queue into the tree.
LEMMA ApplyUpdateConverges ==
    ASSUME TreeTypeOK, Converges, NEW u \in Users, ApplyUpdate(u)
    PROVE  Converges' /\ cache'[u][u] = cache[u][u]
<1>1. /\ inbox[u] \in Seq(Update) /\ inbox[u] # << >>
      /\ cache' = [cache EXCEPT ![u] = TreeAfterUpdate(u)]
      /\ inbox' = [inbox EXCEPT ![u] = Tail(@)]
      /\ UNCHANGED <<db, outbox, listening>>
  BY DEF ApplyUpdate, TreeTypeOK
<1>2. \A w \in Users : Follower(w)
  BY Followers
<1>3. \A v \in Users : cache'[u][v] = IF v \in DOMAIN Head(inbox[u]) THEN Head(inbox[u])[v]
                                                                     ELSE cache[u][v]
  BY <1>1 DEF TreeAfterUpdate, TreeTypeOK
<1>4. u \notin DOMAIN Head(inbox[u]) /\ Mentions(Tail(inbox[u]), u) = {}
  BY <1>1, <1>2, SilentTail DEF Follower
<1>5. cache'[u][u] = cache[u][u]
  BY <1>3, <1>4
<1>6. listening[u]
  BY <1>1, <1>2 DEF Follower
<1>7. SUFFICES ASSUME NEW w \in Users
               PROVE  Follower(w)'
  BY <1>5, FollowersNext
<1>8. CASE w # u
  <2>1. cache'[w] = cache[w] /\ inbox'[w] = inbox[w]
    BY <1>1, <1>8 DEF TreeTypeOK
  <2>2. QED
    BY <1>1, <1>2, <2>1 DEF Follower, SeesOwnWrites
<1>9. CASE w = u
  <2>1. inbox'[u] = Tail(inbox[u])
    BY <1>1 DEF TreeTypeOK
  <2>2. SeesOwnWrites(u)'
    BY <1>1, <1>2, <1>5 DEF Follower, SeesOwnWrites
  <2>3. ASSUME NEW v \in Users \ {u}
        PROVE  EndsWith(Tail(inbox[u]), v, cache'[u][v], db[v])
    <3>1. EndsWith(inbox[u], v, cache[u][v], db[v])
      BY <1>2, <1>6 DEF Follower
    <3>2. QED
      BY <1>1, <1>3, <3>1, TailEnds
  <2>4. QED
    BY <1>1, <1>4, <1>6, <1>9, <2>1, <2>2, <2>3 DEF Follower
<1>10. QED
  BY <1>8, <1>9

\* A device that does not listen waits for nothing.
LEMMA DropConnectionConverges ==
    ASSUME TreeTypeOK, Converges, NEW u \in Users, DropConnection(u)
    PROVE  Converges'
<1>1. /\ listening' = [listening EXCEPT ![u] = FALSE]
      /\ inbox' = [inbox EXCEPT ![u] = << >>]
      /\ UNCHANGED <<db, cache, outbox>>
  BY DEF DropConnection
<1>2. \A w \in Users : Follower(w)
  BY Followers
<1>3. SUFFICES ASSUME NEW w \in Users
               PROVE  Follower(w)'
  BY FollowersNext
<1>4. SeesOwnWrites(w)'
  BY <1>1, <1>2 DEF Follower, SeesOwnWrites
<1>5. CASE w # u
  BY <1>1, <1>2, <1>4, <1>5 DEF TreeTypeOK, Follower
<1>6. CASE w = u
  <2>1. inbox'[u] = << >> /\ ~listening'[u]
    BY <1>1 DEF TreeTypeOK
  <2>2. QED
    BY <1>4, <1>6, <2>1 DEF Follower, Mentions
<1>7. QED
  BY <1>5, <1>6

LEMMA ForgetClientConverges ==
    ASSUME TreeTypeOK, Converges, NEW u \in Users, ForgetClient(u)
    PROVE  Converges'
<1>1. /\ listening' = [listening EXCEPT ![u] = FALSE]
      /\ inbox' = [inbox EXCEPT ![u] = << >>]
      /\ outbox' = [outbox EXCEPT ![u] = << >>]
      /\ cache' = [cache EXCEPT ![u] = [v \in Users |-> IF v = u THEN db[u] ELSE EmptyNode]]
      /\ UNCHANGED db
  BY DEF ForgetClient
<1>2. \A w \in Users : Follower(w)
  BY Followers
<1>3. SUFFICES ASSUME NEW w \in Users
               PROVE  Follower(w)'
  BY FollowersNext
<1>4. CASE w # u
  <2>1. /\ inbox'[w] = inbox[w] /\ outbox'[w] = outbox[w] /\ cache'[w] = cache[w]
        /\ listening'[w] = listening[w] /\ db' = db
    BY <1>1, <1>4 DEF TreeTypeOK
  <2>2. QED
    BY <1>2, <2>1 DEF Follower, SeesOwnWrites
<1>5. CASE w = u
  <2>1. inbox'[u] = << >> /\ outbox'[u] = << >> /\ ~listening'[u] /\ cache'[u][u] = db'[u]
    BY <1>1 DEF TreeTypeOK
  <2>2. QED
    BY <1>5, <2>1 DEF Follower, SeesOwnWrites, Mentions
<1>6. QED
  BY <1>4, <1>5

LEMMA TreeInitConverges == TreeInit => Converges
BY Followers DEF TreeInit, Follower, SeesOwnWrites, Mentions

=============================================================================
