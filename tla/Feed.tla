-------------------------------- MODULE Feed --------------------------------
(***************************************************************************)
(* What the pages of a chat promise, without requests, caches or sockets:  *)
(* a page opens with messages already stored; afterwards it adds messages  *)
(* of its room only, each once, in the order in which they were told, and  *)
(* only from those told since it joined. It may skip any.                  *)
(***************************************************************************)
EXTENDS Naturals, Sequences

CONSTANTS Readers, Rooms, Ids

VARIABLES
    issued,  \* ids of the messages stored so far
    told,    \* the events published, in order: <<room, id>> for a message
    page     \* reader -> its page: room, old messages, when it joined, news

Closed == [room |-> {}, old |-> {}, since |-> 0, new |-> << >>]
Event == (Rooms \X Ids) \cup {<< >>}

TypeOK ==
    /\ issued \subseteq Ids
    /\ told \in Seq(Event)
    /\ page \in [Readers -> [room : SUBSET Rooms, old : SUBSET Ids,
                             since : Nat, new : Seq(Nat)]]

Init ==
    /\ issued = {}
    /\ told = << >>
    /\ page = [r \in Readers |-> Closed]

Store(i) ==
    /\ i \notin issued
    /\ issued' = issued \cup {i}
    /\ UNCHANGED <<told, page>>

(* A stored message is told at most once; other events are << >>.          *)
Told(i) == \E k \in DOMAIN told : told[k] # << >> /\ told[k][2] = i
Tell(e) ==
    /\ e # << >> => e[2] \in issued /\ ~Told(e[2])
    /\ told' = Append(told, e)
    /\ UNCHANGED <<issued, page>>

Load(r, room, old) ==
    /\ page[r] = Closed
    /\ old \subseteq issued
    /\ page' = [page EXCEPT ![r] =
                  [room |-> {room}, old |-> old, since |-> 0, new |-> << >>]]
    /\ UNCHANGED <<issued, told>>

Join(r) ==
    /\ page[r].room # {}
    /\ page[r].new = << >>
    /\ page' = [page EXCEPT ![r].since = Len(told)]
    /\ UNCHANGED <<issued, told>>

Heard(r) == {page[r].new[k] : k \in DOMAIN page[r].new}
Hear(r, i) ==
    /\ i \in DOMAIN told
    /\ i > page[r].since
    /\ \A k \in Heard(r) : k < i
    /\ told[i] # << >> /\ told[i][1] \in page[r].room
    /\ page' = [page EXCEPT ![r].new = Append(@, i)]
    /\ UNCHANGED <<issued, told>>

Leave(R) ==
    /\ page' = [r \in Readers |-> IF r \in R THEN Closed ELSE page[r]]
    /\ UNCHANGED <<issued, told>>

Next ==
    \/ \E i \in Ids : Store(i)
    \/ \E e \in Event : Tell(e)
    \/ \E r \in Readers :
         \/ \E room \in Rooms, old \in SUBSET issued : Load(r, room, old)
         \/ Join(r)
         \/ \E i \in DOMAIN told : Hear(r, i)
    \/ \E R \in SUBSET Readers : Leave(R)

Spec == Init /\ [][Next]_<<issued, told, page>>
=============================================================================
