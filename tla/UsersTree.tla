----------------------------- MODULE UsersTree -----------------------------
(***************************************************************************)
(* The "Users" tree of the Firebase Realtime Database as the app uses it:  *)
(* the copy on the server, the copy every running device keeps, and the    *)
(* two channels between them.  The database client is a binary framework,  *)
(* so this module models its contract (FIRDatabaseReference.h) and not its *)
(* code: a write is visible on the writing device at once and travels to   *)
(* the server in order; the server forwards every commit to the devices    *)
(* that listen; a device that (re)connects first receives the whole tree.  *)
(*                                                                         *)
(* Only the three consent flags of Users/<uuid> are kept.  A device writes *)
(* flags of its own node only, so a queued write is represented by the     *)
(* node it leaves behind.                                                  *)
(***************************************************************************)
EXTENDS Naturals, Sequences

CONSTANT Users

VARIABLES
    db,         \* db[v]: the node Users/v on the server
    cache,      \* cache[u][v]: Users/v as device u sees it
    outbox,     \* outbox[u]: writes of u the server has not committed yet
    inbox,      \* inbox[u]: updates sent to u and not yet applied
    listening,  \* listening[u]: the server forwards commits to u
    loaded      \* loaded[u]: u has received the tree since it was launched

treeVars == <<db, cache, outbox, inbox, listening, loaded>>

\* A flag is absent until somebody writes it: "as? Bool" yields nil for it.
Flag == {"absent", "false", "true"}

Node == [agreedToMeet : Flag, agreedToStart : Flag, showPhoneNumber : Flag]

Tree == [Users -> Node]

\* An update carries the nodes of some other users.
Update == UNION {[S -> Node] : S \in SUBSET Users}

EmptyNode ==
    [agreedToMeet |-> "absent", agreedToStart |-> "absent", showPhoneNumber |-> "absent"]

TreeTypeOK ==
    /\ db \in Tree
    /\ cache \in [Users -> Tree]
    /\ outbox \in [Users -> Seq(Node)]
    /\ inbox \in [Users -> Seq(Update)]
    /\ listening \in [Users -> BOOLEAN]
    /\ loaded \in [Users -> BOOLEAN]

TreeInit ==
    /\ db = [v \in Users |-> EmptyNode]
    /\ cache = [u \in Users |-> [v \in Users |-> EmptyNode]]
    /\ outbox = [u \in Users |-> << >>]
    /\ inbox = [u \in Users |-> << >>]
    /\ listening = [u \in Users |-> FALSE]
    /\ loaded = [u \in Users |-> FALSE]

----------------------------------------------------------------------------

\* updateChildValues, called len(nodes) times by device u: the local copy
\* changes at once, the writes are queued for the server in order.
LocalWrite(u, nodes) ==
    /\ cache' = [cache EXCEPT ![u][u] = nodes[Len(nodes)]]
    /\ outbox' = [outbox EXCEPT ![u] = @ \o nodes]
    /\ UNCHANGED <<db, inbox, listening, loaded>>

\* The server commits the oldest write of u and forwards the node to every
\* other device that listens.
ServerCommits(u) ==
    /\ outbox[u] # << >>
    /\ db' = [db EXCEPT ![u] = Head(outbox[u])]
    /\ outbox' = [outbox EXCEPT ![u] = Tail(@)]
    /\ inbox' = [w \in Users |->
                    IF w # u /\ listening[w]
                    THEN Append(inbox[w], [v \in {u} |-> Head(outbox[u])])
                    ELSE inbox[w]]
    /\ UNCHANGED <<cache, listening, loaded>>

\* The server answers the listen request of u with the whole tree; u's own
\* node is left out, the client shows its own writes over the server's copy.
ServerAnswersListen(u) ==
    /\ ~listening[u]
    /\ listening' = [listening EXCEPT ![u] = TRUE]
    /\ inbox' = [inbox EXCEPT ![u] = Append(@, [v \in Users \ {u} |-> db[v]])]
    /\ UNCHANGED <<db, cache, outbox, loaded>>

\* The tree of u after it has applied the oldest update sent to it.
TreeAfterUpdate(u) ==
    [v \in Users |-> IF v \in DOMAIN Head(inbox[u]) THEN Head(inbox[u])[v] ELSE cache[u][v]]

\* Device u applies the oldest update.
ApplyUpdate(u) ==
    /\ inbox[u] # << >>
    /\ cache' = [cache EXCEPT ![u] = TreeAfterUpdate(u)]
    /\ inbox' = [inbox EXCEPT ![u] = Tail(@)]
    /\ loaded' = [loaded EXCEPT ![u] = TRUE]
    /\ UNCHANGED <<db, outbox, listening>>

\* The connection of u breaks: what the server had sent is lost, the queued
\* writes stay with the client, the listen request will be sent again.
DropConnection(u) ==
    /\ listening[u]
    /\ listening' = [listening EXCEPT ![u] = FALSE]
    /\ inbox' = [inbox EXCEPT ![u] = << >>]
    /\ UNCHANGED <<db, cache, outbox, loaded>>

\* The process of u ends.  Nothing is persisted on the device: queued writes
\* are lost, and u's own node is from now on what the server holds.
ForgetClient(u) ==
    /\ outbox' = [outbox EXCEPT ![u] = << >>]
    /\ inbox' = [inbox EXCEPT ![u] = << >>]
    /\ listening' = [listening EXCEPT ![u] = FALSE]
    /\ loaded' = [loaded EXCEPT ![u] = FALSE]
    /\ cache' = [cache EXCEPT ![u] = [v \in Users |-> IF v = u THEN db[u] ELSE EmptyNode]]
    /\ UNCHANGED db

----------------------------------------------------------------------------
(* What the contract amounts to.                                           *)

\* The updates on their way to u that carry the node of v.
About(u, v) == {i \in 1 .. Len(inbox[u]) : v \in DOMAIN inbox[u][i]}

\* A device sees its own last write; the server will have it in the end.
SeesOwnWrites(u) ==
    cache[u][u] = IF outbox[u] = << >> THEN db[u] ELSE outbox[u][Len(outbox[u])]

\* A device that listens will have every other node as the server has it: the
\* last update about it carries it, or none is needed.
FollowsServer(u) ==
    listening[u] => \A v \in Users \ {u} :
        \/ About(u, v) = {} /\ cache[u][v] = db[v]
        \/ \E i \in About(u, v) :
              inbox[u][i][v] = db[v] /\ \A j \in About(u, v) : j <= i

\* All copies of a node become the node its owner sees.
Converges ==
    \A u \in Users :
        /\ SeesOwnWrites(u)
        /\ FollowsServer(u)
        /\ About(u, u) = {}
        /\ ~listening[u] => inbox[u] = << >>

=============================================================================
