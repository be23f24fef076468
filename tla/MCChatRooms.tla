---------------------------- MODULE MCChatRooms -----------------------------
(* Small instances of ChatRooms for TLC. *)
EXTENDS ChatRooms, TLC

CONSTANTS a, b, c, r1, r2

(* Room r1 is a pair of a and b when the server starts; r2, in the         *)
(* instances that have it, is created later.                               *)
PairRoom == [r \in Rooms |-> IF r = r1 THEN {a, b} ELSE {}]

Ask(k, u, r, g) == [kind |-> k, user |-> u, room |-> r, guests |-> g, bypass |-> FALSE]
Fresh(i) == [i EXCEPT !.bypass = TRUE]

(* The pair grows to three: a member invites, the guest accepts, also an   *)
(* invitation that is not his, and sockets are open meanwhile.             *)
GrowInputs == {Ask("invite", a, r1, {c}),
               Ask("accept", c, r1, {c}), Ask("accept", c, r1, {b}),
               Ask("ws", a, r1, {}), Ask("ws", c, r1, {})}

(* Rooms are created next to the pair, by forms good and bad, while their  *)
(* members look at them, with and without the caches, and at the general   *)
(* room.                                                                   *)
CreateInputs ==
    LET cached == {Ask("create", c, General, g) : g \in {{}, {a}, {a, b}}}
                  \cup {Ask("render", c, r, {}) : r \in {r1, r2, General}}
                  \cup {Ask("read", a, r, {}) : r \in {r1, r2}}
                  \cup {Ask("ws", c, r, {}) : r \in {r2, General}}
                  \cup {Ask("invite", a, r, {u}) : r \in {r2, General}, u \in {a, b, c}}
    IN cached \cup {Fresh(i) : i \in cached}

RequestSymmetry == Permutations(Requests)
=============================================================================
