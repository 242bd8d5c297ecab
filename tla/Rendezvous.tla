----------------------------- MODULE Rendezvous -----------------------------
(***************************************************************************)
(* What a meeting of HeadsUp promises, without queues, snapshots or        *)
(* observers: three gates that a user passes one after the other, each of  *)
(* them only when the partner has given the consent it asks for.           *)
(*                                                                         *)
(*    open --- agreed -|- met --- begun -|- talking -|- informed           *)
(*                                                                         *)
(* Here a user looks at what the partner has done.  The application only   *)
(* sees copies of flags, and has to behave as if it looked.                *)
(***************************************************************************)
CONSTANTS Users, NoUser

VARIABLES
    partner,   \* partner[u]: the user u is matched with
    stage,     \* stage[u]: how far u has come with that partner
    agreed,    \* agreed[u]: the users u has ever agreed to meet
    begun,     \* begun[u]: the users u has ever wanted to start with
    shared     \* u has ever shared its phone number

vars == <<partner, stage, agreed, begun, shared>>

Stages == {"open", "agreed", "met", "begun", "talking", "informed"}

Init ==
    /\ partner = [u \in Users |-> NoUser]
    /\ stage = [u \in Users |-> "open"]
    /\ agreed = [u \in Users |-> {}]
    /\ begun = [u \in Users |-> {}]
    /\ shared = [u \in Users |-> FALSE]

\* Until it has agreed, a user may be matched and matched again.
Choose(u, v) ==
    /\ stage[u] = "open"
    /\ v # u
    /\ partner' = [partner EXCEPT ![u] = v]
    /\ UNCHANGED <<stage, agreed, begun, shared>>

\* u agrees to meet its partner, and they meet if the partner has agreed before.
Agree(u) ==
    /\ stage[u] = "open"
    /\ partner[u] # NoUser
    /\ agreed' = [agreed EXCEPT ![u] = @ \cup {partner[u]}]
    /\ \/ stage' = [stage EXCEPT ![u] = "agreed"]
       \/ agreed[partner[u]] # {} /\ stage' = [stage EXCEPT ![u] = "met"]
    /\ UNCHANGED <<partner, begun, shared>>

\* u learns that its partner has agreed.
Meet(u) ==
    /\ stage[u] = "agreed"
    /\ agreed[partner[u]] # {}
    /\ stage' = [stage EXCEPT ![u] = "met"]
    /\ UNCHANGED <<partner, agreed, begun, shared>>

\* u wants to start, and they talk if the partner has wanted to before.
Begin(u) ==
    /\ stage[u] = "met"
    /\ begun' = [begun EXCEPT ![u] = @ \cup {partner[u]}]
    /\ \/ stage' = [stage EXCEPT ![u] = "begun"]
       \/ begun[partner[u]] # {} /\ stage' = [stage EXCEPT ![u] = "talking"]
    /\ UNCHANGED <<partner, agreed, shared>>

\* u learns that its partner wants to start.
Talk(u) ==
    /\ stage[u] = "begun"
    /\ begun[partner[u]] # {}
    /\ stage' = [stage EXCEPT ![u] = "talking"]
    /\ UNCHANGED <<partner, agreed, begun, shared>>

\* After the talk a user may share its phone number,
Share(u) ==
    /\ stage[u] \in {"talking", "informed"}
    /\ shared' = [shared EXCEPT ![u] = TRUE]
    /\ UNCHANGED <<partner, stage, agreed, begun>>

\* and its partner is informed of it.
Inform(u) ==
    /\ stage[u] = "talking"
    /\ shared[partner[u]]
    /\ stage' = [stage EXCEPT ![u] = "informed"]
    /\ UNCHANGED <<partner, agreed, begun, shared>>

\* A user may leave at any moment and starts from the beginning.
Leave(u) ==
    /\ partner' = [partner EXCEPT ![u] = NoUser]
    /\ stage' = [stage EXCEPT ![u] = "open"]
    /\ UNCHANGED <<agreed, begun, shared>>

Next ==
    \E u \in Users :
        \/ \E v \in Users : Choose(u, v)
        \/ Agree(u)
        \/ Meet(u)
        \/ Begin(u)
        \/ Talk(u)
        \/ Share(u)
        \/ Inform(u)
        \/ Leave(u)

Spec == Init /\ [][Next]_vars

=============================================================================
