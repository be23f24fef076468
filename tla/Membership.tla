----------------------------- MODULE Membership -----------------------------
(***************************************************************************)
(* What the chat promises about private rooms, whatever its caches hold    *)
(* and however its handlers interleave: who may come to belong to a room,  *)
(* who may invite, who may write, and with which encryption flag.          *)
(*                                                                         *)
(* ChatRooms implements this specification with handlers that suspend      *)
(* between their statements and answer from caches that may be stale.      *)
(***************************************************************************)
CONSTANTS Users,    \* every user the database ever holds
          Rooms     \* every private room that is ever created

VARIABLES users,    \* the users not deleted
          members,  \* room -> its members
          joined,   \* room -> the users that ever were members
          offered,  \* room -> who ever invited whom
          was,      \* room -> the sizes it ever had: "pair" or "group"
          posted    \* room -> the is_encrypted flags of its user messages

vars == <<users, members, joined, offered, was, posted>>

Size(S) == IF \E a, b \in Users : a # b /\ S = {a, b} THEN "pair" ELSE "group"

Init ==
    /\ users = Users
    /\ members \in [Rooms -> SUBSET Users]
    /\ joined = members
    /\ offered = [r \in Rooms |-> {}]
    /\ was = [r \in Rooms |-> IF members[r] = {} THEN {} ELSE {Size(members[r])}]
    /\ posted = [r \in Rooms |-> {}]

(* A room starts with its creator and at least one other user. *)
Open(r, S) ==
    /\ joined[r] = {}
    /\ \E a, b \in S : a # b
    /\ S \subseteq users
    /\ members' = [members EXCEPT ![r] = S]
    /\ joined' = [joined EXCEPT ![r] = S]
    /\ was' = [was EXCEPT ![r] = {Size(S)}]
    /\ UNCHANGED <<users, offered, posted>>

(* Only somebody who belonged to the room invites, and never himself. *)
Offer(by, r, u) ==
    /\ by \in users \cap joined[r]
    /\ u \in users \ {by}
    /\ offered' = [offered EXCEPT ![r] = @ \cup {<<by, u>>}]
    /\ UNCHANGED <<users, members, joined, was, posted>>

(* Only an invited user enters a room that already exists. *)
Join(r, u) ==
    /\ u \in users
    /\ \E by \in Users : <<by, u>> \in offered[r]
    /\ members' = [members EXCEPT ![r] = @ \cup {u}]
    /\ joined' = [joined EXCEPT ![r] = @ \cup {u}]
    /\ was' = [was EXCEPT ![r] = @ \cup {Size(members[r] \cup {u})}]
    /\ UNCHANGED <<users, offered, posted>>

(* A user leaves his rooms only by being deleted, and never returns. *)
Leave(u) ==
    /\ u \in users
    /\ users' = users \ {u}
    /\ members' = [r \in Rooms |-> members[r] \ {u}]
    /\ was' = [r \in Rooms |-> IF u \in members[r]
                                 THEN was[r] \cup {Size(members[r] \ {u})}
                                 ELSE was[r]]
    /\ UNCHANGED <<joined, offered, posted>>

(* Only somebody who belonged to the room writes in it, encrypted only if  *)
(* the room was a pair at some time, in clear only if it was not.          *)
Post(u, r, enc) ==
    /\ u \in users \cap joined[r]
    /\ (IF enc THEN "pair" ELSE "group") \in was[r]
    /\ posted' = [posted EXCEPT ![r] = @ \cup {enc}]
    /\ UNCHANGED <<users, members, joined, offered, was>>

Next ==
    \/ \E r \in Rooms, S \in SUBSET Users : Open(r, S)
    \/ \E by, u \in Users, r \in Rooms : Offer(by, r, u)
    \/ \E r \in Rooms, u \in Users : Join(r, u)
    \/ \E u \in Users : Leave(u)
    \/ \E u \in Users, r \in Rooms, enc \in BOOLEAN : Post(u, r, enc)

Spec == Init /\ [][Next]_vars
=============================================================================
