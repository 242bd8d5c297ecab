------------------------- MODULE MeetProgressProofs -------------------------
(***************************************************************************)
(* No consent is missed, for any number of users, blocks and               *)
(* interruptions: ProgressInv is inductive, and QuietMeansSeen follows     *)
(* from it.                                                                *)
(*                                                                         *)
(* Nor is a withdrawn one still seen: WithdrawalArrives follows from what   *)
(* the exits leave behind and from the copies converging.                  *)
(*                                                                         *)
(* What a device will still do depends on its queue and on its copy of the *)
(* tree.  Both are given here as parameters, q and c, so that a step is    *)
(* taken apart: the block it removes from the queue first, the events it   *)
(* adds for the nodes that change afterwards.                              *)
(***************************************************************************)
EXTENDS MeetSafetyProofs

----------------------------------------------------------------------------
(* Queues.                                                                 *)

\* A block of kind k in q shows the flag f of v.
Shows(q, k, v, f) == \E i \in 1 .. Len(q) : q[i].kind = k /\ q[i].snap[v][f] = "true"

\* A block of kind k in q carries the node n of v.
Carries(q, k, v, n) == \E i \in 1 .. Len(q) : q[i].kind = k /\ q[i].snap[v] = n

\* The replies to taps in q carry the node n of v, or an event behind them does.
Followed(q, v, n) ==
    \A i \in 1 .. Len(q) :
        q[i].kind \in {"meet", "start"} =>
            \/ q[i].snap[v] = n
            \/ \E j \in i + 1 .. Len(q) : q[j].kind = "value" /\ q[j].snap[v] = n

\* The consents W of m that a device with the copy c knows of are shown in q.
Acts(W, m, c, q) ==
    m # NoUser => \A f \in W : c[m][f] = "true" => Shows(q, EventOf(f), m, f)

\* What is shown stays shown when the queue grows.
LEMMA ShowsConcat ==
    ASSUME NEW S, NEW q \in Seq(S), NEW e \in Seq(S), NEW k, NEW v, NEW f,
           Shows(q, k, v, f) \/ Shows(e, k, v, f)
    PROVE  Shows(q \o e, k, v, f)
<1> DEFINE p == q \o e
<1>1. /\ Len(q) \in Nat /\ Len(e) \in Nat /\ Len(p) = Len(q) + Len(e)
      /\ \A i \in 1 .. Len(q) + Len(e) : p[i] = IF i <= Len(q) THEN q[i] ELSE e[i - Len(q)]
  BY ConcatElements
<1> HIDE DEF p
<1>2. ASSUME NEW i \in 1 .. Len(q), q[i].kind = k, q[i].snap[v][f] = "true"
      PROVE  Shows(p, k, v, f)
  <2>1. i \in 1 .. Len(p) /\ p[i] = q[i]
    BY <1>1
  <2>2. QED
    BY <1>2, <2>1 DEF Shows
<1>3. ASSUME NEW i \in 1 .. Len(e), e[i].kind = k, e[i].snap[v][f] = "true"
      PROVE  Shows(p, k, v, f)
  <2>1. Len(q) + i \in 1 .. Len(p) /\ p[Len(q) + i] = e[i]
    BY <1>1
  <2>2. QED
    BY <1>3, <2>1 DEF Shows
<1>4. QED
  BY <1>2, <1>3 DEF Shows, p

\* What is shown is shown by the first block or behind it.
LEMMA ShowsTail ==
    ASSUME NEW S, NEW q \in Seq(S), q # << >>, NEW k, NEW v, NEW f, Shows(q, k, v, f)
    PROVE  \/ Head(q).kind = k /\ Head(q).snap[v][f] = "true"
           \/ Shows(Tail(q), k, v, f)
<1> DEFINE t == Tail(q)
<1>1. /\ Head(q) = q[1] /\ Len(q) \in Nat /\ Len(q) >= 1
      /\ Len(t) = Len(q) - 1
      /\ \A i \in 1 .. Len(t) : t[i] = q[i + 1]
  BY TailElements
<1> HIDE DEF t
<1>2. PICK i \in 1 .. Len(q) : q[i].kind = k /\ q[i].snap[v][f] = "true"
  BY DEF Shows
<1>3. CASE i = 1
  BY <1>1, <1>2, <1>3
<1>4. CASE i # 1
  <2>1. i - 1 \in 1 .. Len(t) /\ t[i - 1] = q[i]
    BY <1>1, <1>4
  <2>2. Shows(t, k, v, f)
    BY <1>2, <2>1 DEF Shows
  <2>3. QED
    BY <2>2 DEF t
<1>5. QED
  BY <1>3, <1>4

\* The first block has been followed when it runs, and so is the rest.
LEMMA FollowedTail ==
    ASSUME NEW S, NEW q \in Seq(S), q # << >>, NEW v, NEW n, Followed(q, v, n)
    PROVE  /\ Followed(Tail(q), v, n)
           /\ Head(q).kind \in {"meet", "start"} =>
                 Head(q).snap[v] = n \/ Carries(Tail(q), "value", v, n)
<1> DEFINE t == Tail(q)
<1>1. /\ Head(q) = q[1] /\ Len(q) \in Nat /\ Len(q) >= 1
      /\ Len(t) = Len(q) - 1
      /\ \A i \in 1 .. Len(t) : t[i] = q[i + 1]
  BY TailElements
<1> HIDE DEF t
<1>2. ASSUME NEW i \in 1 .. Len(q), q[i].kind \in {"meet", "start"}, q[i].snap[v] # n
      PROVE  \E j \in i .. Len(t) : t[j].kind = "value" /\ t[j].snap[v] = n
  <2>1. PICK j \in i + 1 .. Len(q) : q[j].kind = "value" /\ q[j].snap[v] = n
    BY <1>2 DEF Followed
  <2>2. j - 1 \in i .. Len(t) /\ j - 1 \in 1 .. Len(t)
    BY <1>1
  <2>3. t[j - 1] = q[j]
    BY <1>1, <2>2
  <2>4. QED
    BY <2>1, <2>2, <2>3
<1>3. Followed(t, v, n)
  <2>1. SUFFICES ASSUME NEW i \in 1 .. Len(t), t[i].kind \in {"meet", "start"}, t[i].snap[v] # n
                 PROVE  \E j \in i + 1 .. Len(t) : t[j].kind = "value" /\ t[j].snap[v] = n
    BY DEF Followed
  <2>2. i + 1 \in 1 .. Len(q) /\ q[i + 1] = t[i]
    BY <1>1
  <2>3. QED
    BY <1>2, <2>1, <2>2
<1>4. ASSUME Head(q).kind \in {"meet", "start"}, Head(q).snap[v] # n
      PROVE  Carries(t, "value", v, n)
  <2>1. 1 \in 1 .. Len(q)
    BY <1>1
  <2>2. QED
    BY <1>1, <1>2, <1>4, <2>1 DEF Carries
<1>5. QED
  BY <1>3, <1>4 DEF t

\* Replies stay followed when the queue grows with the copy.
LEMMA FollowedConcat ==
    ASSUME NEW S, NEW q \in Seq(S), NEW e \in Seq(S), NEW v, NEW n, NEW d,
           Followed(q, v, n), Followed(e, v, d), d = n \/ Carries(e, "value", v, d)
    PROVE  Followed(q \o e, v, d)
<1> DEFINE p == q \o e
<1>1. /\ Len(q) \in Nat /\ Len(e) \in Nat /\ Len(p) = Len(q) + Len(e)
      /\ \A i \in 1 .. Len(q) + Len(e) : p[i] = IF i <= Len(q) THEN q[i] ELSE e[i - Len(q)]
  BY ConcatElements
<1> HIDE DEF p
<1>2. \A i \in 1 .. Len(q) : i \in 1 .. Len(p) /\ p[i] = q[i]
  BY <1>1
<1>3. \A i \in 1 .. Len(e) : Len(q) + i \in 1 .. Len(p) /\ p[Len(q) + i] = e[i]
  BY <1>1
<1>4. SUFFICES ASSUME NEW i \in 1 .. Len(p), p[i].kind \in {"meet", "start"}, p[i].snap[v] # d
               PROVE  \E j \in i + 1 .. Len(p) : p[j].kind = "value" /\ p[j].snap[v] = d
  BY DEF Followed, p
<1>5. CASE i <= Len(q)
  <2>1. i \in 1 .. Len(q) /\ p[i] = q[i]
    BY <1>1, <1>5
  <2>2. CASE d = n
    <3>1. PICK j \in i + 1 .. Len(q) : q[j].kind = "value" /\ q[j].snap[v] = d
      BY <1>4, <2>1, <2>2 DEF Followed
    <3>2. j \in i + 1 .. Len(p) /\ p[j] = q[j]
      BY <1>1, <2>1
    <3>3. QED
      BY <3>1, <3>2
  <2>3. CASE Carries(e, "value", v, d)
    <3>1. PICK j \in 1 .. Len(e) : e[j].kind = "value" /\ e[j].snap[v] = d
      BY <2>3 DEF Carries
    <3>2. Len(q) + j \in i + 1 .. Len(p) /\ p[Len(q) + j] = e[j]
      BY <1>1, <2>1
    <3>3. QED
      BY <3>1, <3>2
  <2>4. QED
    BY <2>2, <2>3
<1>6. CASE ~(i <= Len(q))
  <2> DEFINE k == i - Len(q)
  <2>1. k \in 1 .. Len(e) /\ p[i] = e[k]
    BY <1>1, <1>6
  <2>2. PICK j \in k + 1 .. Len(e) : e[j].kind = "value" /\ e[j].snap[v] = d
    BY <1>4, <2>1 DEF Followed
  <2>3. Len(q) + j \in i + 1 .. Len(p)
    BY <1>1, <2>1
  <2>4. p[Len(q) + j] = e[j]
    BY <1>1, <2>1
  <2>5. QED
    BY <2>2, <2>3, <2>4
<1>7. QED
  BY <1>5, <1>6

\* The consents stay shown when the queue grows with the copy.
LEMMA ActsConcat ==
    ASSUME NEW S, NEW q \in Seq(S), NEW e \in Seq(S), NEW W, NEW m, NEW c, NEW d,
           Acts(W, m, c, q),
           m # NoUser => \A f \in W : d[m] = c[m] \/ Carries(e, EventOf(f), m, d[m])
    PROVE  Acts(W, m, d, q \o e)
<1>1. SUFFICES ASSUME m # NoUser, NEW f \in W, d[m][f] = "true"
               PROVE  Shows(q \o e, EventOf(f), m, f)
  BY DEF Acts
<1>2. CASE d[m] = c[m]
  <2>1. Shows(q, EventOf(f), m, f)
    BY <1>1, <1>2 DEF Acts
  <2>2. QED
    BY <2>1, ShowsConcat
<1>3. CASE Carries(e, EventOf(f), m, d[m])
  <2>1. Shows(e, EventOf(f), m, f)
    BY <1>1, <1>3 DEF Carries, Shows
  <2>2. QED
    BY <2>1, ShowsConcat
<1>4. QED
  BY <1>1, <1>2, <1>3

----------------------------------------------------------------------------
(* Devices.                                                                *)

DeviceOK(u) == ActsOnConsent(u) /\ TapsAreFollowed(u) /\ MatchedIsLoaded(u)

\* The invariant of one device in terms of its queue and its copy, now and
\* after a step.
LEMMA DeviceIs ==
    ASSUME NEW u \in Users
    PROVE  /\ ActsOnConsent(u) <=> Acts(Awaits(u), matched[u], cache[u], mainQ[u])
           /\ TapsAreFollowed(u) <=>
                 \A v \in Users \ {u} : Followed(mainQ[u], v, cache[u][v])
<1>1. ActsOnConsent(u) <=> Acts(Awaits(u), matched[u], cache[u], mainQ[u])
  <2>1. CASE matched[u] = NoUser
    BY <2>1 DEF ActsOnConsent, Agreed, MatchFlag, Acts
  <2>2. CASE matched[u] # NoUser
    BY <2>2 DEF ActsOnConsent, WillSee, Agreed, MatchFlag, Acts, Shows
  <2>3. QED
    BY <2>1, <2>2
<1>2. QED
  BY <1>1 DEF TapsAreFollowed, Followed

LEMMA DeviceIsNext ==
    ASSUME NEW u \in Users
    PROVE  /\ ActsOnConsent(u)' <=> Acts(Awaits(u)', matched'[u], cache'[u], mainQ'[u])
           /\ TapsAreFollowed(u)' <=>
                 \A v \in Users \ {u} : Followed(mainQ'[u], v, cache'[u][v])
<1>1. ActsOnConsent(u)' <=> Acts(Awaits(u)', matched'[u], cache'[u], mainQ'[u])
  <2>1. CASE matched'[u] = NoUser
    BY <2>1 DEF ActsOnConsent, Agreed, MatchFlag, Acts
  <2>2. CASE matched'[u] # NoUser
    BY <2>2 DEF ActsOnConsent, WillSee, Agreed, MatchFlag, Acts, Shows
  <2>3. QED
    BY <2>1, <2>2
<1>2. QED
  BY <1>1 DEF TapsAreFollowed, Followed

\* The nodes of others that differ in the copies c and d are carried by e.
Covers(u, e, c, d) ==
    \A v \in Users \ {u} :
        \/ d[v] = c[v]
        \/ /\ Carries(e, "value", v, d[v])
           /\ presented'[u] = "review" => Carries(e, "review", v, d[v])

\* The second half of a step: the copy changes, and the queue grows with it.
LEMMA GrowStep ==
    ASSUME NEW u \in Users, NEW q \in Seq(Block), NEW e \in Seq(Block), mainQ'[u] = q \o e,
           matched'[u] \in (Users \ {u}) \cup {NoUser},
           Acts(Awaits(u)', matched'[u], cache[u], q),
           \A v \in Users \ {u} : Followed(q, v, cache[u][v]),
           \A v \in Users \ {u} : Followed(e, v, cache'[u][v]),
           Covers(u, e, cache[u], cache'[u])
    PROVE  ActsOnConsent(u)' /\ TapsAreFollowed(u)'
<1>1. \A f \in Awaits(u)' : EventOf(f) \in {"value", "review"}
                            /\ (EventOf(f) = "review" => presented'[u] = "review")
  BY DEF Awaits, EventOf
<1>2. matched'[u] # NoUser => \A f \in Awaits(u)' :
         \/ cache'[u][matched'[u]] = cache[u][matched'[u]]
         \/ Carries(e, EventOf(f), matched'[u], cache'[u][matched'[u]])
  <2>1. SUFFICES ASSUME matched'[u] # NoUser, NEW f \in Awaits(u)',
                        cache'[u][matched'[u]] # cache[u][matched'[u]]
                 PROVE  Carries(e, EventOf(f), matched'[u], cache'[u][matched'[u]])
    OBVIOUS
  <2>2. matched'[u] \in Users \ {u}
    BY <2>1
  <2>3. /\ Carries(e, "value", matched'[u], cache'[u][matched'[u]])
        /\ presented'[u] = "review" => Carries(e, "review", matched'[u], cache'[u][matched'[u]])
    BY <2>1, <2>2 DEF Covers
  <2>4. QED
    BY <1>1, <2>3
<1>3. Acts(Awaits(u)', matched'[u], cache'[u], q \o e)
  BY <1>2, ActsConcat
<1>4. \A v \in Users \ {u} : Followed(q \o e, v, cache'[u][v])
  BY FollowedConcat DEF Covers
<1>5. QED
  BY <1>3, <1>4, DeviceIsNext

\* The events of a change carry every node of the new tree, and answer no tap.
LEMMA EventsCarry ==
    ASSUME NEW u \in Users, NEW from, NEW to \in Tree
    PROVE  /\ ValueEvents(u, from, to) \in Seq(Block)
           /\ \A v, n : Followed(ValueEvents(u, from, to), v, n)
           /\ \A i \in 1 .. Len(ValueEvents(u, from, to)) :
                 ValueEvents(u, from, to)[i].kind # "match"
           /\ from # to => \A v \in Users :
                 /\ Carries(ValueEvents(u, from, to), "value", v, to[v])
                 /\ presented[u] = "review" =>
                       Carries(ValueEvents(u, from, to), "review", v, to[v])
<1> DEFINE e == ValueEvents(u, from, to)
           value == [kind |-> "value", snap |-> to]
           review == [kind |-> "review", snap |-> to]
<1>1. /\ e \in Seq(Block)
      /\ \A i \in 1 .. Len(e) : e[i].kind \in {"value", "review"}
  BY EventsOfChange
<1>2. \A v, n : Followed(e, v, n)
  BY <1>1 DEF Followed
<1>3. ASSUME from # to, NEW v \in Users
      PROVE  /\ Carries(e, "value", v, to[v])
             /\ presented[u] = "review" => Carries(e, "review", v, to[v])
  <2>1. CASE presented[u] = "review"
    <3>1. e = <<value, review>>
      BY <1>3, <2>1 DEF ValueEvents
    <3>2. /\ 1 \in 1 .. Len(e) /\ e[1].kind = "value" /\ e[1].snap = to
          /\ 2 \in 1 .. Len(e) /\ e[2].kind = "review" /\ e[2].snap = to
      BY <3>1
    <3>3. QED
      BY <3>2 DEF Carries
  <2>2. CASE presented[u] # "review"
    <3>1. e = <<value>>
      BY <1>3, <2>2 DEF ValueEvents
    <3>2. 1 \in 1 .. Len(e) /\ e[1].kind = "value" /\ e[1].snap = to
      BY <3>1
    <3>3. QED
      BY <2>2, <3>2 DEF Carries
  <2>3. QED
    BY <2>1, <2>2
<1>4. QED
  BY <1>1, <1>2, <1>3

\* What u has on its queue, and who its match can be.
LEMMA DeviceTypes ==
    ASSUME IInv, NEW u \in Users
    PROVE  /\ mainQ[u] \in Seq(Block)
           /\ matched[u] \in (Users \ {u}) \cup {NoUser}
           /\ mainQ[u] # << >> => Tail(mainQ[u]) \in Seq(Block) /\ Head(mainQ[u]) \in Expected[u]
           /\ cache[u] \in Tree
<1>1. matched[u] \in (Users \ {u}) \cup {NoUser}
  BY Before, NearbyAssumption DEF IInv, StepsInOrder
<1>2. QED
  BY <1>1, Before, Dequeued DEF IInv, TypeInv, TypeOK, TreeTypeOK

\* What a step of u leaves alone on the other devices.
Untouched(w) ==
    /\ mainQ'[w] = mainQ[w] /\ cache'[w] = cache[w] /\ loaded'[w] = loaded[w]
    /\ matched'[w] = matched[w] /\ isObserving'[w] = isObserving[w]
    /\ isStarted'[w] = isStarted[w] /\ screen'[w] = screen[w]
    /\ presented'[w] = presented[w] /\ phoneShown'[w] = phoneShown[w]

\* An untouched device keeps its invariant.
LEMMA UntouchedStep ==
    ASSUME NEW w \in Users, DeviceOK(w), Untouched(w)
    PROVE  DeviceOK(w)'
<1>1. Awaits(w)' = Awaits(w)
  BY DEF Untouched, Awaits
<1>2. ActsOnConsent(w)' /\ TapsAreFollowed(w)'
  BY <1>1, DeviceIs, DeviceIsNext DEF DeviceOK, Untouched
<1>3. MatchedIsLoaded(w)'
  BY DEF DeviceOK, MatchedIsLoaded, Untouched
<1>4. QED
  BY <1>2, <1>3 DEF DeviceOK

----------------------------------------------------------------------------
(* The steps, one after the other.                                         *)

LEMMA NextMatch ==
    ASSUME IInv', NEW u \in Users
    PROVE  matched'[u] \in (Users \ {u}) \cup {NoUser}
BY NearbyAssumption DEF IInv, SessionInv, StepsInOrder

\* A step that only puts blocks on the queue: what they are, and which changes
\* of the copy they cover.
LEMMA QueueGrows ==
    ASSUME IInv, IInv', NEW u \in Users, DeviceOK(u), NEW e \in Seq(Block),
           mainQ'[u] = mainQ[u] \o e,
           UNCHANGED <<matched, isObserving, isStarted, screen, phoneShown, presented>>,
           \A v \in Users \ {u} : Followed(e, v, cache'[u][v]),
           Covers(u, e, cache[u], cache'[u])
    PROVE  ActsOnConsent(u)' /\ TapsAreFollowed(u)'
<1>1. Awaits(u)' = Awaits(u)
  BY DEF Awaits
<1>2. mainQ[u] \in Seq(Block)
  BY DeviceTypes
<1>3. /\ Acts(Awaits(u)', matched'[u], cache[u], mainQ[u])
      /\ \A v \in Users \ {u} : Followed(mainQ[u], v, cache[u][v])
  BY <1>1, DeviceIs DEF DeviceOK
<1>4. QED
  BY <1>2, <1>3, NextMatch, GrowStep

\* A match is only queued on a device that has loaded the tree.
LEMMA MatchedStaysLoaded ==
    ASSUME NEW u \in Users, NEW q \in Seq(Block), NEW e \in Seq(Block), mainQ'[u] = q \o e,
           ~loaded'[u] => /\ matched'[u] = NoUser
                          /\ \A i \in 1 .. Len(q) : q[i].kind # "match"
                          /\ \A i \in 1 .. Len(e) : e[i].kind # "match"
    PROVE  MatchedIsLoaded(u)'
<1> DEFINE p == q \o e
<1>1. /\ Len(q) \in Nat /\ Len(e) \in Nat /\ Len(p) = Len(q) + Len(e)
      /\ \A i \in 1 .. Len(q) + Len(e) : p[i] = IF i <= Len(q) THEN q[i] ELSE e[i - Len(q)]
  BY ConcatElements
<1> HIDE DEF p
<1>2. SUFFICES ASSUME ~loaded'[u], NEW i \in 1 .. Len(p)
               PROVE  p[i].kind # "match"
  BY DEF MatchedIsLoaded, p
<1>3. CASE i <= Len(q)
  BY <1>1, <1>2, <1>3
<1>4. CASE ~(i <= Len(q))
  <2>1. i - Len(q) \in 1 .. Len(e) /\ p[i] = e[i - Len(q)]
    BY <1>1, <1>4
  <2>2. QED
    BY <1>2, <2>1
<1>5. QED
  BY <1>3, <1>4

\* Queues with one more block.
LEMMA OneBlock ==
    ASSUME NEW q \in Seq(Block), NEW b \in Block
    PROVE  /\ Append(q, b) = q \o <<b>>
           /\ <<b>> \in Seq(Block) /\ Len(<<b>>) = 1 /\ <<b>>[1] = b
<1>1. Append(q, b) = q \o <<b>>
  BY AppendIsConcat
<1>2. <<b>> \in Seq(Block) /\ Len(<<b>>) = 1 /\ <<b>>[1] = b
  OBVIOUS
<1>3. QED
  BY <1>1, <1>2

\* A key that enters the circle, or a tap: the reply to the tap carries the
\* copy as it is.
LEMMA RequestProgress ==
    ASSUME IInv, IInv', NEW u \in Users, DeviceOK(u),
           \/ \E k \in Users : KeyEntered(u, k)
           \/ TapMeet(u)
           \/ TapStart(u)
    PROVE  DeviceOK(u)'
<1>1. PICK b \in Block :
         /\ mainQ' = [mainQ EXCEPT ![u] = Append(@, b)]
         /\ b.kind = "match" => loaded[u]
         /\ b.kind # "match" => b.snap = cache[u]
         /\ UNCHANGED <<cache, loaded, matched, isObserving, isStarted, screen, phoneShown,
                        presented>>
  <2>1. CASE \E k \in Users : KeyEntered(u, k)
    <3>1. PICK k \in Users : KeyEntered(u, k)
      BY <2>1
    <3>2. [kind |-> "match", key |-> k] \in Block
      BY DEF Block, MatchBlock
    <3>3. QED
      BY <3>1, <3>2 DEF KeyEntered, treeVars, meetVars, viewVars
  <2>2. CASE TapMeet(u)
    <3>1. [kind |-> "meet", snap |-> cache[u]] \in Block
      BY DeviceTypes DEF Block, SnapBlock
    <3>2. QED
      BY <2>2, <3>1 DEF TapMeet, treeVars, meetVars, viewVars
  <2>3. CASE TapStart(u)
    <3>1. [kind |-> "start", snap |-> cache[u]] \in Block
      BY DeviceTypes DEF Block, SnapBlock
    <3>2. QED
      BY <2>3, <3>1 DEF TapStart, treeVars, meetVars, viewVars
  <2>4. QED
    BY <2>1, <2>2, <2>3
<1>2. /\ mainQ[u] \in Seq(Block) /\ <<b>> \in Seq(Block)
      /\ Len(<<b>>) = 1 /\ <<b>>[1] = b
      /\ mainQ'[u] = mainQ[u] \o <<b>>
  <2>1. mainQ'[u] = Append(mainQ[u], b)
    BY <1>1 DEF IInv, TypeInv, TypeOK
  <2>2. QED
    BY <2>1, DeviceTypes, OneBlock
<1>3. \A v \in Users \ {u} : Followed(<<b>>, v, cache'[u][v])
  BY <1>1, <1>2 DEF Followed
<1>4. Covers(u, <<b>>, cache[u], cache'[u])
  BY <1>1 DEF Covers
<1>5. ActsOnConsent(u)' /\ TapsAreFollowed(u)'
  BY <1>1, <1>2, <1>3, <1>4, QueueGrows
<1>6. MatchedIsLoaded(u)'
  BY <1>1, <1>2, MatchedStaysLoaded DEF DeviceOK, MatchedIsLoaded
<1>7. QED
  BY <1>5, <1>6 DEF DeviceOK

\* A write of u's own node, in any number of writes, raises events that cover
\* nothing and need to cover nothing.
LEMMA OwnWriteProgress ==
    ASSUME IInv, IInv', NEW u \in Users, DeviceOK(u), NEW e \in Seq(Block),
           mainQ'[u] = mainQ[u] \o e,
           \A i \in 1 .. Len(e) : e[i].kind \in {"value", "review"},
           \A v \in Users \ {u} : cache'[u][v] = cache[u][v],
           UNCHANGED <<loaded, matched, isObserving, isStarted, screen, phoneShown, presented>>
    PROVE  DeviceOK(u)'
<1>1. \A v \in Users \ {u} : Followed(e, v, cache'[u][v])
  BY DEF Followed
<1>2. Covers(u, e, cache[u], cache'[u])
  BY DEF Covers
<1>3. ActsOnConsent(u)' /\ TapsAreFollowed(u)'
  BY <1>1, <1>2, QueueGrows
<1>4. MatchedIsLoaded(u)'
  BY DeviceTypes, MatchedStaysLoaded DEF DeviceOK, MatchedIsLoaded
<1>5. QED
  BY <1>3, <1>4 DEF DeviceOK

\* The head of the queue runs: what is left of the invariant for the rest.
LEMMA HeadRuns ==
    ASSUME IInv, NEW u \in Users, DeviceOK(u), mainQ[u] # << >>
    PROVE  /\ Tail(mainQ[u]) \in Seq(Block)
           /\ \A v \in Users \ {u} :
                 /\ Followed(Tail(mainQ[u]), v, cache[u][v])
                 /\ Head(mainQ[u]).kind \in {"meet", "start"} =>
                       \/ Head(mainQ[u]).snap[v] = cache[u][v]
                       \/ Carries(Tail(mainQ[u]), "value", v, cache[u][v])
           /\ \A f \in Awaits(u) : \A v \in Users \ {u} :
                 (matched[u] = v /\ cache[u][v][f] = "true") =>
                    \/ Head(mainQ[u]).kind = EventOf(f) /\ Head(mainQ[u]).snap[v][f] = "true"
                    \/ Shows(Tail(mainQ[u]), EventOf(f), v, f)
           /\ ~loaded[u] => /\ matched[u] = NoUser /\ Head(mainQ[u]).kind # "match"
                            /\ \A i \in 1 .. Len(Tail(mainQ[u])) :
                                  Tail(mainQ[u])[i].kind # "match"
<1>1. mainQ[u] \in Seq(Block) /\ Tail(mainQ[u]) \in Seq(Block)
  BY DeviceTypes
<1>2. \A v \in Users \ {u} : Followed(mainQ[u], v, cache[u][v])
  BY DeviceIs DEF DeviceOK
<1>3. \A v \in Users \ {u} :
         /\ Followed(Tail(mainQ[u]), v, cache[u][v])
         /\ Head(mainQ[u]).kind \in {"meet", "start"} =>
               \/ Head(mainQ[u]).snap[v] = cache[u][v]
               \/ Carries(Tail(mainQ[u]), "value", v, cache[u][v])
  BY <1>1, <1>2, FollowedTail
<1>4. ASSUME NEW f \in Awaits(u), NEW v \in Users \ {u}, matched[u] = v, cache[u][v][f] = "true"
      PROVE  \/ Head(mainQ[u]).kind = EventOf(f) /\ Head(mainQ[u]).snap[v][f] = "true"
             \/ Shows(Tail(mainQ[u]), EventOf(f), v, f)
  <2>1. Shows(mainQ[u], EventOf(f), v, f)
    BY <1>4, DeviceIs, NoUserAssumption DEF DeviceOK, Acts
  <2>2. QED
    BY <1>1, <2>1, ShowsTail
<1>5. ~loaded[u] => /\ matched[u] = NoUser /\ Head(mainQ[u]).kind # "match"
                    /\ \A i \in 1 .. Len(Tail(mainQ[u])) : Tail(mainQ[u])[i].kind # "match"
  <2>1. /\ Head(mainQ[u]) = mainQ[u][1] /\ 1 \in 1 .. Len(mainQ[u])
        /\ \A i \in 1 .. Len(Tail(mainQ[u])) :
              i + 1 \in 1 .. Len(mainQ[u]) /\ Tail(mainQ[u])[i] = mainQ[u][i + 1]
    BY <1>1, TailElements
  <2>2. QED
    BY <2>1 DEF DeviceOK, MatchedIsLoaded
<1>6. QED
  BY <1>1, <1>3, <1>4, <1>5

\* A match is only shown while no consent is awaited.
LEMMA RunMatchProgress ==
    ASSUME IInv, IInv', NEW u \in Users, DeviceOK(u), RunMatch(u)
    PROVE  DeviceOK(u)'
<1>1. /\ mainQ[u] # << >> /\ Head(mainQ[u]).kind = "match"
      /\ mainQ' = [mainQ EXCEPT ![u] = Tail(@)]
      /\ UNCHANGED <<cache, loaded, isObserving, isStarted, presented, phoneShown>>
  BY DEF RunMatch, Next_is, treeVars
<1>2. mainQ'[u] = Tail(mainQ[u])
  BY <1>1 DEF IInv, TypeInv, TypeOK
<1>3. Awaits(u)' = {}
  <2>1. ~isObserving[u]
    BY <1>1, DeviceTypes DEF Expected
  <2>2. ~isStarted[u] /\ presented[u] = "main"
    BY <2>1, Before DEF IInv, StepsInOrder
  <2>3. QED
    BY <1>1, <2>1, <2>2 DEF Awaits
<1>4. ActsOnConsent(u)'
  BY <1>3 DEF ActsOnConsent
<1>5. TapsAreFollowed(u)'
  BY <1>1, <1>2, HeadRuns, DeviceIsNext
<1>6. MatchedIsLoaded(u)'
  BY <1>1, HeadRuns DEF MatchedIsLoaded
<1>7. QED
  BY <1>4, <1>5, <1>6 DEF DeviceOK

\* A reply to a tap: the consent f that u now awaits is in its snapshot, or in
\* an event behind it.
LEMMA ReplyProgress ==
    ASSUME IInv, IInv', NEW u \in Users, DeviceOK(u), mainQ[u] # << >>,
           Head(mainQ[u]).kind \in {"meet", "start"},
           NEW f \in {"agreedToMeet", "agreedToStart"},
           NEW e \in Seq(Block), mainQ'[u] = Tail(mainQ[u]) \o e,
           \A i \in 1 .. Len(e) : e[i].kind \in {"value", "review"},
           \A v \in Users \ {u} : cache'[u][v] = cache[u][v],
           UNCHANGED <<loaded, matched>>,
           Awaits(u)' \subseteq Awaits(u) \cup {f},
           f \in Awaits(u)' => ~Agreed(u, Head(mainQ[u]).snap, f)
    PROVE  DeviceOK(u)'
<1> DEFINE snap == Head(mainQ[u]).snap
           rest == Tail(mainQ[u])
<1>1. /\ rest \in Seq(Block)
      /\ \A v \in Users \ {u} : Followed(rest, v, cache[u][v])
      /\ ~loaded[u] => /\ matched[u] = NoUser
                       /\ \A i \in 1 .. Len(rest) : rest[i].kind # "match"
  BY HeadRuns
<1>2. Acts(Awaits(u)', matched'[u], cache[u], rest)
  <2>1. SUFFICES ASSUME matched[u] # NoUser, NEW g \in Awaits(u)', cache[u][matched[u]][g] = "true"
                 PROVE  Shows(rest, EventOf(g), matched[u], g)
    BY DEF Acts
  <2>2. matched[u] \in Users \ {u}
    BY <2>1, DeviceTypes
  <2>3. CASE g = f
    <3>1. snap[matched[u]][f] # "true"
      BY <2>1, <2>3 DEF Agreed, MatchFlag
    <3>2. Carries(rest, "value", matched[u], cache[u][matched[u]])
      BY <2>1, <2>2, <2>3, <3>1, HeadRuns
    <3>3. EventOf(f) = "value"
      BY DEF EventOf
    <3>4. QED
      BY <2>1, <2>3, <3>2, <3>3 DEF Carries, Shows
  <2>4. CASE g # f
    <3>1. g \in Awaits(u) /\ EventOf(g) \in {"value", "review"}
      BY <2>1, <2>4 DEF EventOf
    <3>2. QED
      BY <2>1, <2>2, <3>1, HeadRuns
  <2>5. QED
    BY <2>3, <2>4
<1>3. /\ \A v \in Users \ {u} : Followed(e, v, cache'[u][v])
      /\ Covers(u, e, cache[u], cache'[u])
  BY DEF Followed, Covers
<1> HIDE DEF rest
<1>4. mainQ'[u] = rest \o e
  BY DEF rest
<1>5. ActsOnConsent(u)' /\ TapsAreFollowed(u)'
  BY <1>1, <1>2, <1>3, <1>4, NextMatch, GrowStep
<1>6. MatchedIsLoaded(u)'
  BY <1>1, <1>4, MatchedStaysLoaded
<1>7. QED
  BY <1>5, <1>6 DEF DeviceOK

\* The write of a consent, and the events it raises.
LEMMA WriteProgress ==
    ASSUME IInv, NEW u \in Users, NEW n \in Node, LocalWrite(u, <<n>>)
    PROVE  /\ ValueEvents(u, cache[u], WithOwn(u, n)) \in Seq(Block)
           /\ \A i \in 1 .. Len(ValueEvents(u, cache[u], WithOwn(u, n))) :
                 ValueEvents(u, cache[u], WithOwn(u, n))[i].kind \in {"value", "review"}
           /\ \A v \in Users \ {u} : cache'[u][v] = cache[u][v]
           /\ loaded' = loaded
<1>1. WithOwn(u, n) \in Tree
  BY WriteTypes DEF IInv, TypeInv
<1>2. \A v \in Users \ {u} : cache'[u][v] = cache[u][v]
  BY DEF LocalWrite, IInv, TypeInv, TypeOK, TreeTypeOK, Tree
<1>3. QED
  BY <1>1, <1>2, EventsOfChange DEF LocalWrite

\* The reply to the MEET button.
LEMMA RunMeetProgress ==
    ASSUME IInv, IInv', NEW u \in Users, DeviceOK(u), RunMeet(u)
    PROVE  DeviceOK(u)'
<1> DEFINE snap == Head(mainQ[u]).snap
           node == [cache[u][u] EXCEPT !.agreedToMeet = "true"]
           events == ValueEvents(u, cache[u], WithOwn(u, node))
<1>1. /\ mainQ[u] # << >> /\ Head(mainQ[u]).kind = "meet"
      /\ LocalWrite(u, <<node>>)
      /\ mainQ' = [mainQ EXCEPT ![u] = Tail(@) \o events]
      /\ isObserving' = [isObserving EXCEPT ![u] = TRUE]
      /\ screen' = [screen EXCEPT ![u] = IF Agreed(u, snap, "agreedToMeet") THEN "talking" ELSE @]
      /\ UNCHANGED <<matched, isStarted, presented, phoneShown>>
  BY DEF RunMeet, Next_is
<1>2. node \in Node
  BY WriteTypes DEF IInv, TypeInv
<1> HIDE DEF node, snap
<1>3. /\ events \in Seq(Block) /\ \A i \in 1 .. Len(events) : events[i].kind \in {"value", "review"}
      /\ \A v \in Users \ {u} : cache'[u][v] = cache[u][v]
      /\ UNCHANGED <<loaded, matched>>
  BY <1>1, <1>2, WriteProgress
<1> HIDE DEF events
<1>4. mainQ'[u] = Tail(mainQ[u]) \o events
  BY <1>1 DEF IInv, TypeInv, TypeOK
<1>5. screen'[u] = IF Agreed(u, snap, "agreedToMeet") THEN "talking" ELSE screen[u]
  BY <1>1 DEF IInv, TypeInv, TypeOK
<1>6. /\ Awaits(u)' \subseteq Awaits(u) \cup {"agreedToMeet"}
      /\ "agreedToMeet" \in Awaits(u)' => ~Agreed(u, snap, "agreedToMeet")
  BY <1>1, <1>5 DEF Awaits
<1>7. QED
  BY <1>1, <1>3, <1>4, <1>6, ReplyProgress DEF snap

\* The reply to the START button.
LEMMA RunStartProgress ==
    ASSUME IInv, IInv', NEW u \in Users, DeviceOK(u), RunStart(u)
    PROVE  DeviceOK(u)'
<1> DEFINE snap == Head(mainQ[u]).snap
           node == [cache[u][u] EXCEPT !.agreedToStart = "true"]
           events == ValueEvents(u, cache[u], WithOwn(u, node))
<1>1. /\ mainQ[u] # << >> /\ Head(mainQ[u]).kind = "start"
      /\ LocalWrite(u, <<node>>)
      /\ mainQ' = [mainQ EXCEPT ![u] = Tail(@) \o events]
      /\ IF Agreed(u, snap, "agreedToStart") THEN PerformTimerSegue(u) ELSE UNCHANGED presented
      /\ UNCHANGED <<matched, isObserving, screen, phoneShown>>
  BY DEF RunStart, Next_is
<1>2. node \in Node
  BY WriteTypes DEF IInv, TypeInv
<1> HIDE DEF node, snap
<1>3. /\ events \in Seq(Block) /\ \A i \in 1 .. Len(events) : events[i].kind \in {"value", "review"}
      /\ \A v \in Users \ {u} : cache'[u][v] = cache[u][v]
      /\ UNCHANGED <<loaded, matched>>
  BY <1>1, <1>2, WriteProgress
<1> HIDE DEF events
<1>4. mainQ'[u] = Tail(mainQ[u]) \o events
  BY <1>1 DEF IInv, TypeInv, TypeOK
<1>5. /\ Agreed(u, snap, "agreedToStart") => presented'[u] # "main"
      /\ presented'[u] = "main" => presented[u] = "main"
      /\ presented'[u] = "review" => presented[u] = "review"
  BY <1>1 DEF PerformTimerSegue, IInv, TypeInv, TypeOK
<1>6. /\ Awaits(u)' \subseteq Awaits(u) \cup {"agreedToStart"}
      /\ "agreedToStart" \in Awaits(u)' => ~Agreed(u, snap, "agreedToStart")
  BY <1>1, <1>5 DEF Awaits
<1>7. QED
  BY <1>1, <1>3, <1>4, <1>6, ReplyProgress DEF snap

\* An event runs: what it shows is awaited no longer.
LEMMA EventProgress ==
    ASSUME IInv, IInv', NEW u \in Users, DeviceOK(u), mainQ[u] # << >>,
           mainQ'[u] = Tail(mainQ[u]),
           UNCHANGED <<cache, loaded, matched>>,
           Awaits(u)' \subseteq Awaits(u),
           \A f \in Awaits(u)' :
              Head(mainQ[u]).kind = EventOf(f) => ~Agreed(u, Head(mainQ[u]).snap, f)
    PROVE  DeviceOK(u)'
<1>1. Acts(Awaits(u)', matched'[u], cache'[u], mainQ'[u])
  <2>1. SUFFICES ASSUME matched[u] # NoUser, NEW f \in Awaits(u)', cache[u][matched[u]][f] = "true"
                 PROVE  Shows(Tail(mainQ[u]), EventOf(f), matched[u], f)
    BY DEF Acts
  <2>2. matched[u] \in Users \ {u} /\ f \in Awaits(u)
    BY <2>1, DeviceTypes
  <2>3. ~(Head(mainQ[u]).kind = EventOf(f) /\ Head(mainQ[u]).snap[matched[u]][f] = "true")
    BY <2>1 DEF Agreed, MatchFlag
  <2>4. QED
    BY <2>1, <2>2, <2>3, HeadRuns
<1>2. ActsOnConsent(u)' /\ TapsAreFollowed(u)'
  BY <1>1, HeadRuns, DeviceIsNext
<1>3. MatchedIsLoaded(u)'
  BY HeadRuns DEF MatchedIsLoaded
<1>4. QED
  BY <1>2, <1>3 DEF DeviceOK

\* A value event: both observers of the main screen.
LEMMA RunValueProgress ==
    ASSUME IInv, IInv', NEW u \in Users, DeviceOK(u), RunValue(u)
    PROVE  DeviceOK(u)'
<1> DEFINE snap == Head(mainQ[u]).snap
<1>1. /\ mainQ[u] # << >> /\ Head(mainQ[u]).kind = "value"
      /\ mainQ' = [mainQ EXCEPT ![u] = Tail(@)]
      /\ MeetObserver(u, snap) /\ StartObserver(u, snap)
      /\ UNCHANGED <<cache, loaded, matched, isObserving, isStarted, phoneShown>>
  BY DEF RunValue, Next_is, treeVars, meetVars
<1> HIDE DEF snap
<1>2. mainQ'[u] = Tail(mainQ[u])
  BY <1>1 DEF IInv, TypeInv, TypeOK
<1>3. /\ (Agreed(u, snap, "agreedToMeet") /\ isObserving[u]) => screen'[u] = "talking"
      /\ screen'[u] # "talking" => screen[u] # "talking"
  <2>1. \/ /\ Agreed(u, snap, "agreedToMeet") /\ isObserving[u]
           /\ screen' = [screen EXCEPT ![u] = "talking"]
        \/ /\ ~(Agreed(u, snap, "agreedToMeet") /\ isObserving[u])
           /\ UNCHANGED screen
    BY <1>1 DEF MeetObserver, BothAgree
  <2>2. QED
    BY <2>1 DEF IInv, TypeInv, TypeOK
<1>4. /\ (Agreed(u, snap, "agreedToStart") /\ isStarted[u]) => presented'[u] # "main"
      /\ presented'[u] = "main" => presented[u] = "main"
      /\ presented'[u] = "review" => presented[u] = "review"
  BY <1>1 DEF StartObserver, PerformTimerSegue, IInv, TypeInv, TypeOK
<1>5. Awaits(u)' \subseteq Awaits(u)
  BY <1>1, <1>3, <1>4 DEF Awaits
<1>6. ASSUME NEW f \in Awaits(u)', Head(mainQ[u]).kind = EventOf(f)
      PROVE  ~Agreed(u, snap, f)
  BY <1>1, <1>3, <1>4, <1>6 DEF Awaits, EventOf
<1>7. QED
  BY <1>1, <1>2, <1>5, <1>6, EventProgress DEF snap

\* A review event: the observer of the review screen.
LEMMA RunReviewProgress ==
    ASSUME IInv, IInv', NEW u \in Users, DeviceOK(u), RunReview(u)
    PROVE  DeviceOK(u)'
<1> DEFINE snap == Head(mainQ[u]).snap
<1>1. /\ mainQ[u] # << >> /\ Head(mainQ[u]).kind = "review"
      /\ mainQ' = [mainQ EXCEPT ![u] = Tail(@)]
      /\ phoneShown' = [phoneShown EXCEPT ![u] = @ \/ Agreed(u, snap, "showPhoneNumber")]
      /\ UNCHANGED <<cache, loaded, matched, isObserving, isStarted, screen, presented>>
  BY DEF RunReview, NumberShared, Next_is, treeVars, meetVars
<1> HIDE DEF snap
<1>2. /\ mainQ'[u] = Tail(mainQ[u])
      /\ phoneShown[u] => phoneShown'[u]
      /\ Agreed(u, snap, "showPhoneNumber") => phoneShown'[u]
  <2>1. mainQ'[u] = Tail(mainQ[u])
    BY <1>1 DEF IInv, TypeInv, TypeOK
  <2>2. phoneShown'[u] = (phoneShown[u] \/ Agreed(u, snap, "showPhoneNumber"))
    BY <1>1 DEF IInv, TypeInv, TypeOK
  <2>3. QED
    BY <2>1, <2>2
<1>3. Awaits(u)' \subseteq Awaits(u)
  BY <1>1, <1>2 DEF Awaits
<1>4. ASSUME NEW f \in Awaits(u)', Head(mainQ[u]).kind = EventOf(f)
      PROVE  ~Agreed(u, snap, f)
  BY <1>1, <1>2, <1>4 DEF Awaits, EventOf
<1>5. QED
  BY <1>1, <1>2, <1>3, <1>4, EventProgress DEF snap

\* The review screen first gets the tree as it is, so it misses nothing that
\* happened during the talk.
LEMMA UpdateTalkTimerProgress ==
    ASSUME IInv, IInv', NEW u \in Users, DeviceOK(u), UpdateTalkTimer(u)
    PROVE  DeviceOK(u)'
<1> DEFINE b == [kind |-> "review", snap |-> cache[u]]
<1>1. /\ presented[u] = "timer"
      /\ \/ UNCHANGED <<presented, mainQ>>
         \/ /\ presented' = [presented EXCEPT ![u] = "review"]
            /\ mainQ' = [mainQ EXCEPT ![u] = Append(@, b)]
      /\ UNCHANGED <<cache, loaded, matched, isObserving, isStarted, screen, phoneShown>>
  BY DEF UpdateTalkTimer, treeVars, meetVars
<1>2. CASE UNCHANGED <<presented, mainQ>>
  BY <1>1, <1>2, UntouchedStep DEF Untouched
<1>3. CASE /\ presented' = [presented EXCEPT ![u] = "review"]
           /\ mainQ' = [mainQ EXCEPT ![u] = Append(@, b)]
  <2>1. presented'[u] = "review" /\ mainQ'[u] = Append(mainQ[u], b)
    BY <1>3 DEF IInv, TypeInv, TypeOK
  <2>2. mainQ[u] \in Seq(Block) /\ b \in Block
    BY DeviceTypes DEF Block, SnapBlock
  <2>3. b.kind = "review" /\ b.snap = cache[u]
    OBVIOUS
  <2> HIDE DEF b
  <2>4. /\ <<b>> \in Seq(Block) /\ Len(<<b>>) = 1 /\ <<b>>[1] = b
        /\ mainQ'[u] = mainQ[u] \o <<b>>
    BY <2>1, <2>2, OneBlock
  <2>5. Acts(Awaits(u)', matched'[u], cache'[u], mainQ'[u])
    <3>1. SUFFICES ASSUME matched[u] # NoUser, NEW f \in Awaits(u)',
                          cache[u][matched[u]][f] = "true"
                   PROVE  Shows(mainQ[u] \o <<b>>, EventOf(f), matched[u], f)
      BY <1>1, <2>4 DEF Acts
    <3>2. CASE f = "showPhoneNumber"
      <4>1. Shows(<<b>>, "review", matched[u], f)
        BY <2>3, <2>4, <3>1 DEF Shows
      <4>2. EventOf(f) = "review"
        BY <3>2 DEF EventOf
      <4>3. QED
        BY <2>2, <2>4, <4>1, <4>2, ShowsConcat
    <3>3. CASE f # "showPhoneNumber"
      <4>1. f \in Awaits(u)
        BY <1>1, <2>1, <3>3 DEF Awaits
      <4>2. Shows(mainQ[u], EventOf(f), matched[u], f)
        BY <3>1, <4>1, DeviceIs DEF DeviceOK, Acts
      <4>3. QED
        BY <2>2, <2>4, <4>2, ShowsConcat
    <3>4. QED
      BY <3>2, <3>3
  <2>6. \A v \in Users \ {u} : Followed(mainQ'[u], v, cache'[u][v])
    <3>1. SUFFICES ASSUME NEW v \in Users \ {u}
                   PROVE  Followed(mainQ[u] \o <<b>>, v, cache[u][v])
      BY <1>1, <2>4
    <3>2. Followed(mainQ[u], v, cache[u][v])
      BY DeviceIs DEF DeviceOK
    <3>3. Followed(<<b>>, v, cache[u][v])
      BY <2>3, <2>4 DEF Followed
    <3>4. QED
      BY <2>2, <2>4, <3>2, <3>3, FollowedConcat
  <2>7. ActsOnConsent(u)' /\ TapsAreFollowed(u)'
    BY <2>5, <2>6, DeviceIsNext
  <2>8. MatchedIsLoaded(u)'
    BY <1>1, <2>2, <2>3, <2>4, MatchedStaysLoaded DEF DeviceOK, MatchedIsLoaded
  <2>9. QED
    BY <2>7, <2>8 DEF DeviceOK
<1>4. QED
  BY <1>1, <1>2, <1>3

\* The button that shares the phone number.
LEMMA ShowPhoneNumberProgress ==
    ASSUME IInv, IInv', NEW u \in Users, DeviceOK(u), ShowPhoneNumber(u)
    PROVE  DeviceOK(u)'
<1> DEFINE node == [cache[u][u] EXCEPT !.showPhoneNumber = "true"]
           events == ValueEvents(u, cache[u], WithOwn(u, node))
<1>1. /\ LocalWrite(u, <<node>>)
      /\ mainQ' = [mainQ EXCEPT ![u] = @ \o events]
      /\ UNCHANGED <<matched, isObserving, isStarted, screen, presented, phoneShown>>
  BY DEF ShowPhoneNumber, meetVars, viewVars
<1>2. node \in Node
  BY WriteTypes DEF IInv, TypeInv
<1> HIDE DEF node
<1>3. /\ events \in Seq(Block) /\ \A i \in 1 .. Len(events) : events[i].kind \in {"value", "review"}
      /\ \A v \in Users \ {u} : cache'[u][v] = cache[u][v]
      /\ UNCHANGED loaded
  BY <1>1, <1>2, WriteProgress
<1> HIDE DEF events
<1>4. mainQ'[u] = mainQ[u] \o events
  BY <1>1 DEF IInv, TypeInv, TypeOK
<1>5. QED
  BY <1>1, <1>3, <1>4, OwnWriteProgress

NoMatches(q) == \A i \in 1 .. Len(q) : q[i].kind # "match"

\* Events that carry nothing new keep what a queue is for.
LEMMA EventsKeep ==
    ASSUME NEW q \in Seq(Block), NEW e \in Seq(Block),
           \A i \in 1 .. Len(e) : e[i].kind \in {"value", "review"},
           NEW W, NEW m, NEW c, NEW V,
           Acts(W, m, c, q), \A v \in V : Followed(q, v, c[v])
    PROVE  /\ q \o e \in Seq(Block)
           /\ Acts(W, m, c, q \o e)
           /\ \A v \in V : Followed(q \o e, v, c[v])
           /\ NoMatches(q) => NoMatches(q \o e)
<1>1. q \o e \in Seq(Block)
  BY ConcatProperties
<1>2. Acts(W, m, c, q \o e)
  BY ActsConcat
<1>3. ASSUME NEW v \in V
      PROVE  Followed(q \o e, v, c[v])
  <2>1. Followed(e, v, c[v])
    BY DEF Followed
  <2>2. QED
    BY <2>1, FollowedConcat
<1>4. ASSUME NoMatches(q)
      PROVE  NoMatches(q \o e)
  <2> DEFINE p == q \o e
  <2>1. /\ Len(q) \in Nat /\ Len(e) \in Nat /\ Len(p) = Len(q) + Len(e)
        /\ \A i \in 1 .. Len(q) + Len(e) : p[i] = IF i <= Len(q) THEN q[i] ELSE e[i - Len(q)]
    BY ConcatElements
  <2> HIDE DEF p
  <2>2. ASSUME NEW i \in 1 .. Len(p)
        PROVE  p[i].kind # "match"
    <3>1. CASE i <= Len(q)
      BY <1>4, <2>1, <3>1 DEF NoMatches
    <3>2. CASE ~(i <= Len(q))
      <4>1. i - Len(q) \in 1 .. Len(e) /\ p[i] = e[i - Len(q)]
        BY <2>1, <3>2
      <4>2. QED
        BY <4>1
    <3>3. QED
      BY <3>1, <3>2
  <2>3. QED
    BY <2>2 DEF NoMatches, p
<1>5. QED
  BY <1>1, <1>2, <1>3, <1>4

\* The exits of the application: three rounds of events.
LEMMA WithdrawProgress ==
    ASSUME IInv, IInv', NEW u \in Users, DeviceOK(u), DidEnterBackground(u) \/ WillTerminate(u)
    PROVE  DeviceOK(u)'
<1> DEFINE w == Withdrawn(u)
           e1 == ValueEvents(u, cache[u], WithOwn(u, w[1]))
           e2 == ValueEvents(u, WithOwn(u, w[1]), WithOwn(u, w[2]))
           e3 == ValueEvents(u, WithOwn(u, w[2]), WithOwn(u, w[3]))
           Events(e) == e \in Seq(Block) /\ \A i \in 1 .. Len(e) : e[i].kind \in {"value", "review"}
<1>1. /\ LocalWrite(u, w)
      /\ mainQ' = [mainQ EXCEPT ![u] = @ \o e1 \o e2 \o e3]
      /\ UNCHANGED <<matched, isObserving, isStarted, screen, presented, phoneShown>>
  BY DEF DidEnterBackground, WillTerminate, WithdrawConsent, meetVars, viewVars
<1>2. \A i \in 1 .. 3 : WithOwn(u, w[i]) \in Tree
  BY WriteTypes DEF IInv, TypeInv
<1> HIDE DEF w
<1>3. Events(e1) /\ Events(e2) /\ Events(e3)
  BY <1>2, EventsOfChange
<1>4. /\ \A v \in Users \ {u} : cache'[u][v] = cache[u][v]
      /\ UNCHANGED loaded
  BY <1>1 DEF LocalWrite, IInv, TypeInv, TypeOK, TreeTypeOK, Tree
<1> HIDE DEF e1, e2, e3
<1> DEFINE W == Awaits(u)'
           c == cache'[u]
           V == Users \ {u}
           Keeps(q) == /\ q \in Seq(Block)
                       /\ Acts(W, matched[u], c, q)
                       /\ \A v \in V : Followed(q, v, c[v])
                       /\ ~loaded[u] => NoMatches(q)
           q1 == mainQ[u] \o e1
           q2 == q1 \o e2
           q3 == q2 \o e3
<1>5. Keeps(mainQ[u])
  <2>1. mainQ[u] \in Seq(Block) /\ matched[u] \in (Users \ {u}) \cup {NoUser}
    BY DeviceTypes
  <2>2. W = Awaits(u)
    BY <1>1 DEF Awaits
  <2>3. Acts(W, matched[u], c, mainQ[u])
    BY <1>4, <2>1, <2>2, DeviceIs DEF DeviceOK, Acts
  <2>4. \A v \in V : Followed(mainQ[u], v, c[v])
    BY <1>4, DeviceIs DEF DeviceOK
  <2>5. ~loaded[u] => NoMatches(mainQ[u])
    BY DEF DeviceOK, MatchedIsLoaded, NoMatches
  <2>6. QED
    BY <2>1, <2>3, <2>4, <2>5
<1> HIDE DEF W, c, V
<1>6. Keeps(q1)
  BY <1>3, <1>5, EventsKeep
<1> HIDE DEF q1
<1>7. Keeps(q2)
  BY <1>3, <1>6, EventsKeep
<1> HIDE DEF q2
<1>8. Keeps(q3)
  BY <1>3, <1>7, EventsKeep
<1>9. mainQ' = [mainQ EXCEPT ![u] = q3]
  BY <1>1 DEF q1, q2, q3
<1> HIDE DEF q3
<1>10. mainQ'[u] = q3
  BY <1>9 DEF IInv, TypeInv, TypeOK
<1>11. ActsOnConsent(u)' /\ TapsAreFollowed(u)'
  BY <1>1, <1>8, <1>10, DeviceIsNext DEF W, c, V
<1>12. MatchedIsLoaded(u)'
  BY <1>1, <1>4, <1>8, <1>10 DEF DeviceOK, MatchedIsLoaded, NoMatches
<1>13. QED
  BY <1>11, <1>12 DEF DeviceOK

\* The end of a process.
LEMMA DieProgress ==
    ASSUME IInv, NEW u \in Users, Die(u)
    PROVE  DeviceOK(u)'
<1>1. /\ mainQ'[u] = << >> /\ matched'[u] = NoUser
      /\ ~isObserving'[u] /\ ~isStarted'[u] /\ presented'[u] = "main"
  BY DEF Die, ResetFields, IInv, TypeInv, TypeOK
<1>2. Len(mainQ'[u]) = 0 /\ 1 .. Len(mainQ'[u]) = {}
  BY <1>1
<1>3. Awaits(u)' = {}
  BY <1>1 DEF Awaits
<1>4. QED
  BY <1>1, <1>2, <1>3 DEF DeviceOK, ActsOnConsent, TapsAreFollowed, MatchedIsLoaded

\* An update: its events cover the nodes it changes.
LEMMA ReceiveProgress ==
    ASSUME IInv, IInv', NEW u \in Users, DeviceOK(u), Receive(u)
    PROVE  DeviceOK(u)'
<1> DEFINE after == TreeAfterUpdate(u)
           first == [kind |-> "value", snap |-> after]
           e == IF loaded[u] THEN ValueEvents(u, cache[u], after) ELSE <<first>>
<1>1. /\ inbox[u] # << >>
      /\ cache' = [cache EXCEPT ![u] = after]
      /\ loaded' = [loaded EXCEPT ![u] = TRUE]
      /\ mainQ' = [mainQ EXCEPT ![u] = @ \o e]
      /\ UNCHANGED <<matched, isObserving, isStarted, screen, presented, phoneShown>>
  BY DEF Receive, ApplyUpdate, meetVars, viewVars
<1>2. after \in Tree
  BY <1>1, TreeAfterUpdateType DEF IInv, TypeInv, TypeOK
<1> HIDE DEF after, e
<1>3. cache'[u] = after /\ loaded'[u] /\ mainQ'[u] = mainQ[u] \o e /\ mainQ[u] \in Seq(Block)
  BY <1>1 DEF IInv, TypeInv, TypeOK, TreeTypeOK
<1>4. /\ e \in Seq(Block)
      /\ \A v \in Users \ {u} : Followed(e, v, after[v])
      /\ Covers(u, e, cache[u], after)
  <2>1. CASE loaded[u]
    <3>1. e = ValueEvents(u, cache[u], after)
      BY <2>1 DEF e
    <3>2. QED
      BY <1>1, <1>2, <3>1, EventsCarry DEF Covers
  <2>2. CASE ~loaded[u]
    <3>1. presented[u] = "main"
      <4>1. matched[u] = NoUser
        BY <2>2 DEF DeviceOK, MatchedIsLoaded
      <4>2. QED
        BY <4>1, Before DEF IInv, StepsInOrder
    <3>2. e = <<first>>
      BY <2>2 DEF e
    <3>3. first \in Block /\ first.kind = "value" /\ first.snap = after
      BY <1>2 DEF Block, SnapBlock
    <3> HIDE DEF first
    <3>4. e \in Seq(Block) /\ Len(e) = 1 /\ e[1] = first
      BY <3>2, <3>3, OneBlock, EmptySeq
    <3>5. \A v \in Users \ {u} : Followed(e, v, after[v])
      BY <3>3, <3>4 DEF Followed
    <3>6. \A v \in Users \ {u} : Carries(e, "value", v, after[v])
      BY <3>3, <3>4 DEF Carries
    <3>7. QED
      BY <1>1, <3>1, <3>4, <3>5, <3>6 DEF Covers
  <2>3. QED
    BY <2>1, <2>2
<1>5. ActsOnConsent(u)' /\ TapsAreFollowed(u)'
  BY <1>1, <1>3, <1>4, QueueGrows
<1>6. MatchedIsLoaded(u)'
  BY <1>3 DEF MatchedIsLoaded
<1>7. QED
  BY <1>5, <1>6 DEF DeviceOK

\* A step of u touches no other device; the network touches none at all.
LEMMA OthersUntouched ==
    ASSUME IInv, NEW u \in Users,
           \/ \E k \in Users : KeyEntered(u, k)
           \/ Buttons(u) \/ Blocks(u) \/ Clocks(u) \/ Network(u) \/ Lifecycle(u)
    PROVE  /\ \A w \in Users \ {u} : Untouched(w)
           /\ \/ UpdateTimer(u) \/ TopicReply(u) \/ Launch(u) \/ WillEnterForeground(u)
              \/ Commit(u) \/ Listen(u) \/ Disconnect(u)
              => Untouched(u)
<1> DEFINE Local == \A w \in Users \ {u} : Untouched(w)
<1>1. CASE \E k \in Users : KeyEntered(u, k)
  BY <1>1 DEF KeyEntered, treeVars, meetVars, viewVars, Untouched, IInv, TypeInv, TypeOK,
     UpdateTimer, TopicReply, Launch, WillEnterForeground, Commit, Listen, Disconnect
<1>2. ASSUME NEW n, LocalWrite(u, n), NEW w \in Users \ {u}
      PROVE  cache'[w] = cache[w] /\ loaded'[w] = loaded[w]
  BY <1>2 DEF LocalWrite, IInv, TypeInv, TypeOK, TreeTypeOK
<1>3. ASSUME TapMeet(u) \/ TapStart(u)
      PROVE  Local
  BY <1>3 DEF TapMeet, TapStart, treeVars, meetVars, viewVars, Untouched, IInv, TypeInv, TypeOK
<1>4. ASSUME ShowPhoneNumber(u)
      PROVE  Local
  BY <1>2, <1>4 DEF ShowPhoneNumber, meetVars, viewVars, Untouched, IInv, TypeInv, TypeOK
<1>5. ASSUME RunMatch(u) \/ RunReview(u)
      PROVE  Local
  BY <1>5 DEF RunMatch, RunReview, treeVars, meetVars, Untouched, IInv, TypeInv, TypeOK
<1>6. ASSUME RunMeet(u)
      PROVE  Local
  BY <1>2, <1>6 DEF RunMeet, Untouched, IInv, TypeInv, TypeOK
<1>7. ASSUME RunStart(u)
      PROVE  Local
  BY <1>2, <1>7 DEF RunStart, PerformTimerSegue, Untouched, IInv, TypeInv, TypeOK
<1>8. ASSUME RunValue(u)
      PROVE  Local
  BY <1>8 DEF RunValue, MeetObserver, StartObserver, PerformTimerSegue, treeVars, meetVars,
     Untouched, IInv, TypeInv, TypeOK
<1>9. ASSUME UpdateTalkTimer(u)
      PROVE  Local
  BY <1>9 DEF UpdateTalkTimer, treeVars, meetVars, Untouched, IInv, TypeInv, TypeOK
<1>10. ASSUME DidEnterBackground(u) \/ WillTerminate(u)
       PROVE  Local
  BY <1>2, <1>10 DEF DidEnterBackground, WillTerminate, WithdrawConsent, meetVars, viewVars,
     Untouched, IInv, TypeInv, TypeOK
<1>11. ASSUME Die(u)
       PROVE  Local
  BY <1>11 DEF Die, ForgetClient, ResetFields, Untouched, IInv, TypeInv, TypeOK, TreeTypeOK
<1>12. ASSUME Receive(u)
       PROVE  Local
  BY <1>12 DEF Receive, ApplyUpdate, meetVars, viewVars, Untouched, IInv, TypeInv, TypeOK,
     TreeTypeOK
<1>13. ASSUME \/ UpdateTimer(u) \/ TopicReply(u) \/ Launch(u) \/ WillEnterForeground(u)
              \/ Commit(u) \/ Listen(u) \/ Disconnect(u)
       PROVE  \A w \in Users : Untouched(w)
  BY <1>13 DEF UpdateTimer, TopicReply, Launch, WillEnterForeground, Commit, Listen, Disconnect,
     ServerCommits, ServerAnswersListen, DropConnection, treeVars, meetVars, viewVars, Untouched
<1> HIDE DEF Local
<1>14. Local
  BY <1>1, <1>3, <1>4, <1>5, <1>6, <1>7, <1>8, <1>9, <1>10, <1>11, <1>12, <1>13
     DEF Local, Buttons, Blocks, Clocks, Network, Lifecycle
<1>15. QED
  BY <1>13, <1>14 DEF Local

\* Every step of u keeps the invariant of the devices.
LEMMA DevicesStep ==
    ASSUME IInv, IInv', ProgressInv, NEW u \in Users,
           \/ \E k \in Users : KeyEntered(u, k)
           \/ Buttons(u) \/ Blocks(u) \/ Clocks(u) \/ Network(u) \/ Lifecycle(u)
    PROVE  \A w \in Users : DeviceOK(w)'
<1>1. \A w \in Users : DeviceOK(w)
  BY DEF ProgressInv, DeviceOK
<1>2. \A w \in Users \ {u} : DeviceOK(w)'
  BY <1>1, OthersUntouched, UntouchedStep
<1>3. DeviceOK(u)'
  <2>1. CASE \/ \E k \in Users : KeyEntered(u, k)
             \/ TapMeet(u) \/ TapStart(u)
    BY <1>1, <2>1, RequestProgress
  <2>2. CASE ShowPhoneNumber(u)
    BY <1>1, <2>2, ShowPhoneNumberProgress
  <2>3. CASE Blocks(u)
    BY <1>1, <2>3, RunMatchProgress, RunMeetProgress, RunStartProgress, RunValueProgress,
       RunReviewProgress DEF Blocks
  <2>4. CASE UpdateTalkTimer(u)
    BY <1>1, <2>4, UpdateTalkTimerProgress
  <2>5. CASE Receive(u)
    BY <1>1, <2>5, ReceiveProgress
  <2>6. CASE DidEnterBackground(u) \/ WillTerminate(u)
    BY <1>1, <2>6, WithdrawProgress
  <2>7. CASE Die(u)
    BY <2>7, DieProgress
  <2>8. CASE \/ UpdateTimer(u) \/ TopicReply(u) \/ Launch(u) \/ WillEnterForeground(u)
             \/ Commit(u) \/ Listen(u) \/ Disconnect(u)
    BY <1>1, <2>8, OthersUntouched, UntouchedStep
  <2>9. QED
    BY <2>1, <2>2, <2>3, <2>4, <2>5, <2>6, <2>7, <2>8
       DEF Buttons, Clocks, Network, Lifecycle
<1>4. QED
  BY <1>2, <1>3

\* Every step of u keeps the copies converging.
LEMMA TreeStep ==
    ASSUME IInv, Converges, NEW u \in Users,
           \/ \E k \in Users : KeyEntered(u, k)
           \/ Buttons(u) \/ Blocks(u) \/ Clocks(u) \/ Network(u) \/ Lifecycle(u)
    PROVE  Converges'
<1>1. TreeTypeOK /\ TypeOK
  BY DEF IInv, TypeInv, TypeOK
<1>2. ASSUME UNCHANGED treeVars
      PROVE  Converges'
  <2>1. /\ db' = db /\ cache' = cache /\ outbox' = outbox /\ inbox' = inbox
        /\ listening' = listening
    BY <1>2 DEF treeVars
  <2>2. \A w \in Users : Follower(w)'
    BY <2>1, Followers DEF Follower, SeesOwnWrites
  <2>3. QED
    BY <2>2, FollowersNext
<1>3. ASSUME NEW n \in Node, LocalWrite(u, <<n>>)
      PROVE  Converges'
  <2>1. <<n>> \in Seq(Node) /\ <<n>> # << >>
    BY WriteEvents, <1>1
  <2>2. QED
    BY <1>1, <1>3, <2>1, LocalWriteConverges
<1>4. CASE RunMeet(u) \/ RunStart(u) \/ ShowPhoneNumber(u)
  BY <1>1, <1>3, <1>4, WriteTypes DEF RunMeet, RunStart, ShowPhoneNumber
<1>5. CASE DidEnterBackground(u) \/ WillTerminate(u)
  <2>1. LocalWrite(u, Withdrawn(u))
    BY <1>5 DEF DidEnterBackground, WillTerminate, WithdrawConsent
  <2>2. QED
    BY <1>1, <2>1, WriteTypes, LocalWriteConverges
<1>6. CASE Die(u) \/ Commit(u) \/ Listen(u) \/ Disconnect(u) \/ Receive(u)
  BY <1>1, <1>6, ForgetClientConverges, ServerCommitsConverges, ServerAnswersListenConverges,
     DropConnectionConverges, ApplyUpdateConverges DEF Die, Commit, Listen, Disconnect, Receive
<1>7. CASE \/ \E k \in Users : KeyEntered(u, k)
           \/ TapMeet(u) \/ TapStart(u) \/ RunMatch(u) \/ RunValue(u) \/ RunReview(u)
           \/ Clocks(u) \/ TopicReply(u) \/ Launch(u) \/ WillEnterForeground(u)
  BY <1>2, <1>7 DEF KeyEntered, TapMeet, TapStart, RunMatch, RunValue, RunReview, Clocks,
     UpdateTimer, UpdateTalkTimer, TopicReply, Launch, WillEnterForeground
<1>8. QED
  BY <1>4, <1>5, <1>6, <1>7 DEF Buttons, Blocks, Network, Lifecycle

----------------------------------------------------------------------------
(* The theorems.                                                           *)

LEMMA ProgressInit == Init => ProgressInv
<1> SUFFICES ASSUME Init
             PROVE  ProgressInv
  OBVIOUS
<1>1. Converges
  BY TreeInitConverges DEF Init
<1>2. ASSUME NEW u \in Users
      PROVE  DeviceOK(u)
  <2>1. /\ mainQ[u] = << >> /\ matched[u] = NoUser
        /\ ~isObserving[u] /\ ~isStarted[u] /\ presented[u] = "main"
    BY DEF Init
  <2>2. Len(mainQ[u]) = 0 /\ 1 .. Len(mainQ[u]) = {}
    BY <2>1
  <2>3. Awaits(u) = {}
    BY <2>1 DEF Awaits
  <2>4. QED
    BY <2>1, <2>2, <2>3 DEF DeviceOK, ActsOnConsent, TapsAreFollowed, MatchedIsLoaded
<1>3. QED
  BY <1>1, <1>2 DEF ProgressInv, DeviceOK

\* Every step keeps ProgressInv, given the invariant of MeetSafetyProofs.
LEMMA ProgressStep == IInv /\ ProgressInv /\ [Next]_vars => IInv' /\ ProgressInv'
<1> SUFFICES ASSUME IInv, ProgressInv, [Next]_vars
             PROVE  IInv' /\ ProgressInv'
  OBVIOUS
<1>1. IInv'
  BY SessionStep
<1>2. CASE UNCHANGED vars
  <2>1. /\ db' = db /\ cache' = cache /\ outbox' = outbox /\ inbox' = inbox
        /\ listening' = listening /\ loaded' = loaded /\ mainQ' = mainQ
        /\ matched' = matched /\ isObserving' = isObserving /\ isStarted' = isStarted
        /\ screen' = screen /\ presented' = presented /\ phoneShown' = phoneShown
    BY <1>2 DEF vars, treeVars, meetVars, viewVars
  <2>2. \A w \in Users : DeviceOK(w)'
    BY <2>1, UntouchedStep DEF ProgressInv, DeviceOK, Untouched
  <2>3. \A w \in Users : Follower(w)'
    BY <2>1, Followers DEF ProgressInv, Follower, SeesOwnWrites
  <2>4. QED
    BY <1>1, <2>2, <2>3, FollowersNext DEF ProgressInv, DeviceOK
<1>3. CASE Next
  <2>1. PICK u \in Users :
           \/ \E k \in Users : KeyEntered(u, k)
           \/ Buttons(u) \/ Blocks(u) \/ Clocks(u) \/ Network(u) \/ Lifecycle(u)
    BY <1>3 DEF Next
  <2>2. \A w \in Users : DeviceOK(w)'
    BY <1>1, <2>1, DevicesStep
  <2>3. Converges'
    BY <2>1, TreeStep DEF ProgressInv
  <2>4. QED
    BY <1>1, <2>2, <2>3 DEF ProgressInv, DeviceOK
<1>4. QED
  BY <1>2, <1>3

\* The inductive invariant behind the liveness of a meeting: copies converge,
\* and every consent a device knows of has been acted on or is on its queue.
THEOREM ProgressCorrect == Spec => []ProgressInv
<1>1. Init => IInv /\ ProgressInv
  BY TypeInit, SessionInit, ProgressInit DEF IInv
<1>2. QED
  BY <1>1, ProgressStep, PTL DEF Spec

\* When all is quiet between a user and its match, the user has acted on every
\* consent of the match that stands.
LEMMA NothingMissed == IInv /\ ProgressInv => QuietMeansSeen
<1> SUFFICES ASSUME IInv, ProgressInv, NEW u \in Users, NEW v \in Users,
                    matched[u] = v, Quiet(u, v)
             PROVE  /\ (isObserving[u] /\ cache[v][v].agreedToMeet = "true")
                          => screen[u] = "talking"
                    /\ (isStarted[u] /\ cache[v][v].agreedToStart = "true")
                          => presented[u] # "main"
                    /\ (presented[u] = "review" /\ cache[v][v].showPhoneNumber = "true")
                          => phoneShown[u]
  BY DEF QuietMeansSeen
<1>1. v # u
  BY DeviceTypes, NoUserAssumption
<1>2. cache[u][v] = cache[v][v]
  <2>1. Follower(u) /\ Follower(v)
    BY Followers DEF ProgressInv
  <2>2. cache[v][v] = db[v]
    BY <2>1 DEF Follower, SeesOwnWrites, Quiet
  <2>3. EndsWith(inbox[u], v, cache[u][v], db[v]) /\ inbox[u] = << >>
    BY <1>1, <2>1 DEF Follower, Quiet
  <2>4. Mentions(inbox[u], v) = {}
    BY <2>3 DEF Mentions
  <2>5. QED
    BY <2>2, <2>3, <2>4 DEF EndsWith
<1>3. mainQ[u] = << >> /\ 1 .. Len(mainQ[u]) = {}
  BY DEF Quiet
<1>4. \A f \in Awaits(u) : cache[v][v][f] # "true"
  <2>1. \A f \in Awaits(u) : ~Agreed(u, cache[u], f)
    BY <1>3 DEF ProgressInv, ActsOnConsent, WillSee
  <2>2. v # NoUser
    BY NoUserAssumption
  <2>3. QED
    BY <1>2, <2>1, <2>2 DEF Agreed, MatchFlag
<1>5. QED
  BY <1>4 DEF Awaits, FlagName

\* No consent is missed, whatever was interrupted.
THEOREM NothingMissedTheorem == Spec => []QuietMeansSeen
<1>1. Init => IInv /\ ProgressInv
  BY TypeInit, SessionInit, ProgressInit DEF IInv
<1>2. QED
  BY <1>1, ProgressStep, NothingMissed, PTL DEF Spec

----------------------------------------------------------------------------
(* Withdrawn consents.                                                     *)

\* A device that has left stands by every flag it shows.
LeftBehind(v) ==
    app[v] \in {"background", "terminating"} =>
        \A f \in FlagName : cache[v][v][f] = "true" => f \in StandsBy(v)

\* What the exits and the replies behind them leave in the own node.
LEMMA OwnFlags ==
    ASSUME TypeInv, NEW v \in Users
    PROVE  /\ RunMeet(v) => \A f \in FlagName :
                 cache'[v][v][f] = "true" => cache[v][v][f] = "true" \/ f = "agreedToMeet"
           /\ RunStart(v) => \A f \in FlagName :
                 cache'[v][v][f] = "true" => cache[v][v][f] = "true" \/ f = "agreedToStart"
           /\ WithdrawConsent(v) => \A f \in FlagName : cache'[v][v][f] # "true"
<1>1. cache \in [Users -> Tree] /\ cache[v] \in Tree /\ cache[v][v] \in Node
  BY DEF TypeInv, TypeOK, TreeTypeOK, Tree
<1>2. ASSUME NEW s, LocalWrite(v, s)
      PROVE  cache'[v][v] = s[Len(s)]
  BY <1>1, <1>2 DEF LocalWrite, Tree
<1>3. ASSUME RunMeet(v)
      PROVE  cache'[v][v] = [cache[v][v] EXCEPT !.agreedToMeet = "true"]
  <2>. DEFINE n == [cache[v][v] EXCEPT !.agreedToMeet = "true"]
  <2>1. LocalWrite(v, <<n>>)
    BY <1>3 DEF RunMeet
  <2>2. QED
    BY <1>2, <2>1
<1>4. ASSUME RunStart(v)
      PROVE  cache'[v][v] = [cache[v][v] EXCEPT !.agreedToStart = "true"]
  <2>. DEFINE n == [cache[v][v] EXCEPT !.agreedToStart = "true"]
  <2>1. LocalWrite(v, <<n>>)
    BY <1>4 DEF RunStart
  <2>2. QED
    BY <1>2, <2>1
<1>5. ASSUME WithdrawConsent(v)
      PROVE  cache'[v][v] = Withdrawn(v)[3]
  <2>1. LocalWrite(v, Withdrawn(v)) /\ Len(Withdrawn(v)) = 3
    BY <1>5 DEF WithdrawConsent, Withdrawn
  <2>2. QED
    BY <1>2, <2>1
<1>6. \A f \in FlagName : Withdrawn(v)[3][f] = "false"
  <2>. DEFINE n1 == [cache[v][v] EXCEPT !.agreedToMeet = "false"]
              n2 == [n1 EXCEPT !.agreedToStart = "false"]
              n3 == [n2 EXCEPT !.showPhoneNumber = "false"]
  <2>1. n1 \in Node /\ n1.agreedToMeet = "false"
    BY <1>1 DEF Node, Flag
  <2>. HIDE DEF n1
  <2>2. n2 \in Node /\ n2.agreedToMeet = "false" /\ n2.agreedToStart = "false"
    BY <2>1 DEF Node, Flag
  <2>. HIDE DEF n2
  <2>3. n3.agreedToMeet = "false" /\ n3.agreedToStart = "false" /\ n3.showPhoneNumber = "false"
    BY <2>2 DEF Node, Flag
  <2>4. Withdrawn(v)[3] = n3
    BY DEF Withdrawn, n1, n2
  <2>. HIDE DEF n3
  <2>5. QED
    BY <2>3, <2>4 DEF FlagName
<1>7. QED
  BY <1>1, <1>3, <1>4, <1>5, <1>6 DEF FlagName, Node

\* What matters of a device for LeftBehind.
SameStand(v) ==
    /\ cache'[v][v] = cache[v][v] /\ app'[v] = app[v] /\ given'[v] = given[v]
    /\ isObserving'[v] = isObserving[v] /\ isStarted'[v] = isStarted[v]

\* A step of u leaves all of this alone on the other devices.
LEMMA OthersStand ==
    ASSUME IInv, NEW u \in Users, NEW w \in Users \ {u},
           \/ \E k \in Users : KeyEntered(u, k)
           \/ Buttons(u) \/ Blocks(u) \/ Clocks(u) \/ Network(u) \/ Lifecycle(u)
    PROVE  SameStand(w)
<1>1. Untouched(w)
  BY OthersUntouched
<1>2. app'[w] = app[w]
  <2>1. \/ app' = app
        \/ \E s \in {"dead", "foreground", "background", "terminating"} :
              app' = [app EXCEPT ![u] = s]
    BY DEF KeyEntered, Buttons, TapMeet, TapStart, ShowPhoneNumber, Blocks, RunMatch, RunMeet,
       RunStart, RunValue, RunReview, Clocks, UpdateTimer, UpdateTalkTimer, Network, Commit,
       Listen, Receive, TopicReply, Lifecycle, Launch, DidEnterBackground, WillEnterForeground,
       WillTerminate, Die, Disconnect
  <2>2. QED
    BY <2>1 DEF IInv, TypeInv, TypeOK
<1>3. given'[w] = given[w]
  <2>1. \/ given' = given
        \/ \E F : given' = [given EXCEPT ![u] = F]
    BY DEF KeyEntered, Buttons, TapMeet, TapStart, ShowPhoneNumber, Blocks, RunMatch, RunMeet,
       RunStart, RunValue, RunReview, Clocks, UpdateTimer, UpdateTalkTimer, Network, Commit,
       Listen, Receive, TopicReply, Lifecycle, Launch, DidEnterBackground, WillEnterForeground,
       WillTerminate, WithdrawConsent, Die, Disconnect, histVars
  <2>2. QED
    BY <2>1 DEF IInv, TypeInv, TypeOK
<1>4. QED
  BY <1>1, <1>2, <1>3 DEF Untouched, SameStand

LEMMA StandKeeps ==
    ASSUME NEW v, LeftBehind(v), SameStand(v)
    PROVE  LeftBehind(v)'
  BY DEF LeftBehind, SameStand, StandsBy

\* Every step of u leaves it standing by what it shows.
LEMMA LeftStep ==
    ASSUME IInv, Converges, NEW u \in Users, LeftBehind(u),
           \/ \E k \in Users : KeyEntered(u, k)
           \/ Buttons(u) \/ Blocks(u) \/ Clocks(u) \/ Network(u) \/ Lifecycle(u)
    PROVE  LeftBehind(u)'
<1>1. TypeInv /\ TypeOK
  BY DEF IInv, TypeInv
<1>2. CASE RunMeet(u)
  <2>1. /\ isObserving'[u] /\ isStarted'[u] = isStarted[u] /\ app' = app /\ Running(u)
        /\ given'[u] = given[u] \cup {"agreedToMeet"}
    BY <1>1, <1>2 DEF RunMeet, Next_is, TypeOK
  <2>2. \A f \in FlagName :
           cache'[u][u][f] = "true" => cache[u][u][f] = "true" \/ f = "agreedToMeet"
    BY <1>1, <1>2, OwnFlags
  <2>3. QED
    BY <2>1, <2>2 DEF LeftBehind, StandsBy, Running
<1>3. CASE RunStart(u)
  <2>1. /\ isStarted'[u] /\ isObserving'[u] = isObserving[u] /\ app' = app /\ Running(u)
        /\ given'[u] = given[u] \cup {"agreedToStart"}
    BY <1>1, <1>3 DEF RunStart, Next_is, TypeOK
  <2>2. \A f \in FlagName :
           cache'[u][u][f] = "true" => cache[u][u][f] = "true" \/ f = "agreedToStart"
    BY <1>1, <1>3, OwnFlags
  <2>3. QED
    BY <2>1, <2>2 DEF LeftBehind, StandsBy, Running
<1>4. CASE DidEnterBackground(u) \/ WillTerminate(u)
  <2>1. WithdrawConsent(u)
    BY <1>4 DEF DidEnterBackground, WillTerminate
  <2>2. QED
    BY <1>1, <2>1, OwnFlags DEF LeftBehind
<1>5. CASE ShowPhoneNumber(u) \/ Launch(u) \/ WillEnterForeground(u) \/ Die(u)
  <2>1. app'[u] \in {"foreground", "dead"}
    BY <1>1, <1>5 DEF ShowPhoneNumber, Launch, WillEnterForeground, Die, TypeOK
  <2>2. QED
    BY <2>1 DEF LeftBehind
<1>6. CASE Receive(u)
  <2>1. /\ inbox[u] # << >> /\ cache' = [cache EXCEPT ![u] = TreeAfterUpdate(u)]
        /\ UNCHANGED <<app, isObserving, isStarted, given>>
    BY <1>6 DEF Receive, ApplyUpdate, meetVars, histVars
  <2>2. u \notin DOMAIN Head(inbox[u])
    <3>1. inbox[u] \in Seq(Update) /\ 1 \in 1 .. Len(inbox[u]) /\ Head(inbox[u]) = inbox[u][1]
      BY <1>1, <2>1, TailElements DEF TypeOK, TreeTypeOK
    <3>2. 1 \notin About(u, u)
      BY DEF Converges
    <3>3. QED
      BY <3>1, <3>2 DEF About
  <2>3. cache'[u][u] = cache[u][u]
    BY <1>1, <2>1, <2>2 DEF TreeAfterUpdate, TypeOK, TreeTypeOK
  <2>4. SameStand(u)
    BY <2>1, <2>3 DEF SameStand
  <2>5. QED
    BY <2>4, StandKeeps
<1>7. CASE \/ \E k \in Users : KeyEntered(u, k)
           \/ TapMeet(u) \/ TapStart(u) \/ RunMatch(u) \/ RunValue(u) \/ RunReview(u)
           \/ Clocks(u) \/ TopicReply(u) \/ Commit(u) \/ Listen(u) \/ Disconnect(u)
  <2>1. SameStand(u)
    BY <1>7 DEF KeyEntered, TapMeet, TapStart, RunMatch, RunValue, RunReview, Clocks,
       UpdateTimer, UpdateTalkTimer, TopicReply, Commit, Listen, Disconnect, ServerCommits,
       ServerAnswersListen, DropConnection, treeVars, meetVars, histVars, SameStand
  <2>2. QED
    BY <2>1, StandKeeps
<1>8. QED
  BY <1>2, <1>3, <1>4, <1>5, <1>6, <1>7 DEF Buttons, Blocks, Network, Lifecycle

EverybodyStands == \A v \in Users : LeftBehind(v)

LEMMA EverybodyLeft ==
    IInv /\ Converges /\ EverybodyStands /\ [Next]_vars => EverybodyStands'
<1> SUFFICES ASSUME IInv, Converges, \A v \in Users : LeftBehind(v), [Next]_vars, NEW v \in Users
             PROVE  LeftBehind(v)'
  BY DEF EverybodyStands
<1>1. CASE UNCHANGED vars
  <2>1. SameStand(v)
    BY <1>1 DEF vars, treeVars, meetVars, histVars, SameStand
  <2>2. QED
    BY <2>1, StandKeeps
<1>2. CASE Next
  <2>1. PICK u \in Users :
           \/ \E k \in Users : KeyEntered(u, k)
           \/ Buttons(u) \/ Blocks(u) \/ Clocks(u) \/ Network(u) \/ Lifecycle(u)
    BY <1>2 DEF Next
  <2>2. CASE v = u
    BY <2>1, <2>2, LeftStep
  <2>3. CASE v # u
    BY <2>1, <2>3, OthersStand, StandKeeps
  <2>4. QED
    BY <2>2, <2>3
<1>3. QED
  BY <1>1, <1>2

\* The copy of another user is the own node, once everything has arrived.
LEMMA WithdrawalSeen ==
    Converges /\ EverybodyStands => WithdrawalArrives
<1> SUFFICES ASSUME Converges, \A w \in Users : LeftBehind(w),
                    NEW u \in Users, NEW v \in Users \ {u},
                    app[v] \in {"background", "terminating"}, outbox[v] = << >>,
                    listening[u], inbox[u] = << >>
             PROVE  \A f \in FlagName : cache[u][v][f] = "true" => f \in StandsBy(v)
  BY DEF WithdrawalArrives, EverybodyStands
<1>1. cache[v][v] = db[v]
  BY DEF Converges, SeesOwnWrites
<1>2. About(u, v) = {}
  BY DEF About
<1>3. cache[u][v] = db[v]
  BY <1>2 DEF Converges, FollowsServer
<1>4. QED
  BY <1>1, <1>3 DEF LeftBehind

\* When the writes of an exit have arrived, nobody sees a consent that was given
\* before it (AppDelegate.applicationDidEnterBackground, applicationWillTerminate).
THEOREM WithdrawalTheorem == Spec => []WithdrawalArrives
<1>1. Init => IInv /\ ProgressInv /\ EverybodyStands
  <2>1. Init => EverybodyStands
    BY DEF Init, EverybodyStands, LeftBehind
  <2>2. QED
    BY <2>1, TypeInit, SessionInit, ProgressInit DEF IInv
<1>2. IInv /\ ProgressInv /\ EverybodyStands /\ [Next]_vars
      => IInv' /\ ProgressInv' /\ EverybodyStands'
  BY ProgressStep, EverybodyLeft DEF ProgressInv
<1>3. ProgressInv /\ EverybodyStands => WithdrawalArrives
  BY WithdrawalSeen DEF ProgressInv
<1>4. QED
  BY <1>1, <1>2, <1>3, PTL DEF Spec

=============================================================================
