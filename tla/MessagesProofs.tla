--------------------------- MODULE MessagesProofs ---------------------------
(***************************************************************************)
(* Histories without holes, files that belong to their messages and reads  *)
(* that stay reads, proved for every number of users, rooms, requests and  *)
(* sockets, for every length of a history and every number of messages.    *)
(***************************************************************************)
EXTENDS Messages, FiniteSetTheorems, WellFoundedInduction, TLAPS

(* Ids grow with the rows and name one row each; this is what a history    *)
(* and a file need to stay true while rows come and go.                    *)
RowsOK ==
    /\ IsFiniteSet(rows)
    /\ \A m \in rows : m.id <= last
    /\ \A m, n \in rows : m.id = n.id => m = n

OneRoom == \A h \in Slots : \A p, q \in req[h].room : p = q

(* s shows messages of room r issued so far, Window of them at most; none  *)
(* of R in the room is missing between two of them, nor, while there is    *)
(* space, before one of them.                                              *)
Honest(s, r, R, n) ==
    /\ \A x \in s : x.id <= n /\ x.room = r
    /\ Cardinality(s) <= Window
    /\ Cardinality(s) < Window =>
         \A x \in s : \A m \in R : m.room = r /\ m.id < x.id => m \in s
    /\ \A x, y \in s : \A m \in R : m.room = r /\ x.id < m.id /\ m.id < y.id => m \in s
HistoryOK ==
    /\ \A r \in Rooms : \A s \in chat_messages_by_room[r] : Honest(s, r, rows, last)
    /\ \A h \in Slots : \A r \in req[h].room : \A s \in req[h].page : Honest(s, r, rows, last)

(* The author u of a message i is not contradicted by the rows R.          *)
Author(i, u, R, n) == i <= n /\ \A m \in R : m.id = i => m.by = u
FilesOK ==
    /\ \A i \in Ids : \A u \in chat_file[i] : Author(i, u, rows, last)
    /\ \A h \in Slots : At(h, "fill_file") =>
         \A n \in req[h].msg : Author(n.id, n.by, rows, last) /\ \A m \in rows : m.id = n.id => m = n

-----------------------------------------------------------------------------
LEMMA Least ==
    ASSUME NEW T, T \subseteq Nat, T # {}
    PROVE  \E x \in T : \A y \in T : x <= y
<1> DEFINE R == {ss \in Nat \X Nat : ss[1] < ss[2]}
<1>1. R = OpToRel(<, Nat)
  BY Zenon DEF OpToRel
<1>2. IsWellFoundedOn(R, Nat)
  BY <1>1, NatLessThanWellFounded, Zenon
<1>3. PICK x \in T : \A y \in T : ~ (<<y, x>> \in R)
  <2> HIDE DEF R
  <2> QED
    BY <1>2, WFMin, Zenon
<1>4. ASSUME NEW y \in T PROVE x <= y
  <2>1. <<y, x>> \in Nat \X Nat /\ <<y, x>>[1] = y /\ <<y, x>>[2] = x
    OBVIOUS
  <2>2. ~(y < x)
    BY <1>3, <2>1
  <2> QED
    BY <2>2
<1> QED
  BY <1>4

(* MAX(id) is an id of the set, and none is greater.                       *)
LEMMA LastIdIsMax ==
    ASSUME NEW S, S \subseteq Message
    PROVE  /\ \A m \in S : m.id <= LastId(S)
           /\ S # {} => \E m \in S : LastId(S) = m.id
           /\ S = {} => LastId(S) = 0
<1>1. CASE S = {}
  BY <1>1 DEF LastId
<1>2. CASE S # {}
  <2> DEFINE D == {m.id : m \in S}
  <2> DEFINE T == {MaxId - i : i \in D}
  <2>1. D \subseteq 1..MaxId /\ MaxId \in Nat
    BY BoundsAssumption DEF Message, Ids
  <2>2. T \subseteq Nat /\ T # {}
    BY <1>2, <2>1
  <2>3. PICK x \in T : \A y \in T : x <= y
    BY <2>2, Least
  <2>4. PICK i \in D : x = MaxId - i
    OBVIOUS
  <2>5. \A m \in S : m.id <= i
    <3>1. ASSUME NEW m \in S PROVE m.id <= i
      <4>1. m.id \in D /\ MaxId - m.id \in T
        OBVIOUS
      <4> QED
        BY <2>1, <2>3, <2>4, <4>1
    <3> QED
      BY <3>1
  <2>6. LastId(S) \in D /\ \A m \in S : m.id <= LastId(S)
    BY <1>2, <2>5 DEF LastId
  <2> QED
    BY <1>2, <2>6
<1> QED
  BY <1>1, <1>2

(* The newest messages of a set are closed upwards.                        *)
LEMMA NewestUpward ==
    ASSUME NEW S, S \subseteq Message, IsFiniteSet(S),
           NEW x \in Newest(S), NEW m \in S, x.id < m.id
    PROVE  m \in Newest(S)
<1> DEFINE A == {n \in S : n.id > m.id}
<1> DEFINE B == {n \in S : n.id > x.id}
<1>1. x \in S /\ Cardinality(B) < Window
  BY DEF Newest
<1>2. \A n \in S : n.id \in Nat
  BY DEF Message, Ids
<1>3. A \subseteq B /\ B \subseteq S
  BY <1>1, <1>2
<1>4. IsFiniteSet(B)
  BY <1>3, FS_Subset
<1>5. IsFiniteSet(A) /\ Cardinality(A) <= Cardinality(B)
  BY <1>3, <1>4, FS_Subset
<1>6. Cardinality(A) \in Nat /\ Cardinality(B) \in Nat /\ Window \in Nat
  BY <1>4, <1>5, FS_CardinalityType, BoundsAssumption
<1>7. Cardinality(A) < Window
  BY <1>1, <1>5, <1>6
<1> QED
  BY <1>7 DEF Newest

(* The newest messages are Window at most: all of them but the oldest are  *)
(* newer than the oldest.                                                  *)
LEMMA NewestFew ==
    ASSUME NEW S, S \subseteq Message, IsFiniteSet(S),
           \A m, n \in S : m.id = n.id => m = n
    PROVE  Cardinality(Newest(S)) <= Window
<1> DEFINE N == Newest(S)
           T == {m.id : m \in N}
<1>0. /\ N \subseteq S /\ IsFiniteSet(N) /\ Cardinality(N) \in Nat /\ Window \in Nat
      /\ \A m \in S : m.id \in Nat
  <2>1. N \subseteq S
    BY DEF Newest
  <2>2. IsFiniteSet(N)
    BY <2>1, FS_Subset
  <2> QED
    BY <2>1, <2>2, FS_CardinalityType, BoundsAssumption DEF Message, Ids
<1>1. CASE N = {}
  BY <1>0, <1>1, FS_EmptySet
<1>2. CASE N # {}
  <2>1. T \subseteq Nat /\ T # {}
    BY <1>0, <1>2
  <2>2. PICK x \in N : \A y \in N : x.id <= y.id
    <3>1. PICK i \in T : \A j \in T : i <= j
      BY <2>1, Least
    <3> QED
      BY <3>1
  <2> DEFINE B == {n \in S : n.id > x.id}
  <2>3. Cardinality(B) < Window
    BY DEF Newest
  <2>4. N \ {x} \subseteq B
    <3>1. ASSUME NEW y \in N \ {x} PROVE y.id > x.id
      <4>1. x.id <= y.id /\ x.id # y.id /\ x.id \in Nat /\ y.id \in Nat
        BY <1>0, <2>2
      <4> QED
        BY <4>1
    <3> QED
      BY <1>0, <3>1
  <2>5. IsFiniteSet(B) /\ Cardinality(B) \in Nat
    <3>1. IsFiniteSet(B)
      BY FS_Subset
    <3> QED
      BY <3>1, FS_CardinalityType
  <2> HIDE DEF N, B
  <2>6. Cardinality(N \ {x}) <= Cardinality(B)
    BY <2>4, <2>5, FS_Subset
  <2>7. Cardinality(N \ {x}) = Cardinality(N) - 1
    BY <1>0, <2>2, FS_RemoveElement
  <2>8. Cardinality(N) <= Window
    BY <1>0, <2>3, <2>5, <2>6, <2>7
  <2> QED
    BY <2>8 DEF N
<1> QED
  BY <1>1, <1>2

(* When they are fewer than Window, they are all.                          *)
LEMMA NewestAll ==
    ASSUME NEW S, S \subseteq Message, IsFiniteSet(S), Cardinality(Newest(S)) < Window
    PROVE  Newest(S) = S
<1> DEFINE N == Newest(S)
           D == S \ N
           T == {MaxId - m.id : m \in D}
<1>0. N \subseteq S /\ IsFiniteSet(N) /\ Window \in Nat /\ MaxId \in Nat
  <2>1. N \subseteq S
    BY DEF Newest
  <2> QED
    BY <2>1, FS_Subset, BoundsAssumption
<1>1. \A m \in S : m.id \in 1..MaxId
  BY DEF Message, Ids
<1>2. SUFFICES ASSUME D # {} PROVE FALSE
  BY <1>0
<1>3. T \subseteq Nat /\ T # {}
  BY <1>0, <1>1, <1>2
<1>4. PICK i \in T : \A j \in T : i <= j
  BY <1>3, Least
<1>5. PICK x \in D : i = MaxId - x.id
  OBVIOUS
<1>6. \A y \in D : y.id <= x.id
  <2>1. ASSUME NEW y \in D PROVE y.id <= x.id
    <3>1. MaxId - y.id \in T
      OBVIOUS
    <3>2. y.id \in 1..MaxId /\ x.id \in 1..MaxId
      BY <1>1
    <3> QED
      BY <1>0, <1>4, <1>5, <3>1, <3>2
  <2> QED
    BY <2>1
<1> DEFINE B == {n \in S : n.id > x.id}
<1>7. B \subseteq N
  <2>1. ASSUME NEW n \in B PROVE n \in N
    <3>1. n \in S /\ n.id > x.id /\ n.id \in Nat /\ x.id \in Nat
      BY <1>0, <1>1
    <3> QED
      BY <1>6, <3>1
  <2> QED
    BY <2>1
<1>8. ~(Cardinality(B) < Window)
  BY DEF Newest
<1> HIDE DEF N, B
<1>9. Cardinality(B) <= Cardinality(N) /\ Cardinality(B) \in Nat /\ Cardinality(N) \in Nat
  <2>1. IsFiniteSet(B) /\ Cardinality(B) <= Cardinality(N)
    BY <1>0, <1>7, FS_Subset
  <2> QED
    BY <1>0, <2>1, FS_CardinalityType
<1>10. Cardinality(N) < Window
  BY DEF N
<1> QED
  BY <1>0, <1>8, <1>9, <1>10

LEMMA NewestHonest ==
    ASSUME TypeOK, RowsOK, NEW r \in Rooms
    PROVE  Newest(InRoom(r)) \in SUBSET Message /\ Honest(Newest(InRoom(r)), r, rows, last)
<1>1. InRoom(r) \subseteq rows /\ rows \subseteq Message
  BY DEF InRoom, TypeOK
<1>2. IsFiniteSet(InRoom(r))
  BY <1>1, FS_Subset DEF RowsOK
<1>3. Newest(InRoom(r)) \subseteq rows
  BY <1>1 DEF Newest
<1>4. \A x \in Newest(InRoom(r)) : x.id <= last
  BY <1>3 DEF RowsOK
<1>5. ASSUME NEW x \in Newest(InRoom(r)), NEW m \in rows, m.room = r, x.id < m.id
      PROVE  m \in Newest(InRoom(r))
  <2>1. m \in InRoom(r)
    BY <1>5 DEF InRoom
  <2> QED
    BY <1>1, <1>2, <1>5, <2>1, NewestUpward
<1>6. \A x \in Newest(InRoom(r)) : x.room = r
  BY DEF Newest, InRoom
<1>7. Cardinality(Newest(InRoom(r))) <= Window
  BY <1>1, <1>2, NewestFew DEF RowsOK
<1>8. ASSUME Cardinality(Newest(InRoom(r))) < Window, NEW m \in rows, m.room = r
      PROVE  m \in Newest(InRoom(r))
  <2>1. InRoom(r) \subseteq Message
    BY <1>1
  <2>2. Newest(InRoom(r)) = InRoom(r)
    BY <1>2, <1>8, <2>1, NewestAll
  <2> QED
    BY <1>8, <2>2 DEF InRoom
<1> QED
  BY <1>1, <1>3, <1>4, <1>5, <1>6, <1>7, <1>8 DEF Honest

-----------------------------------------------------------------------------
(* A slot's next request.                                                  *)
Steps == {"idle"} \cup Viewing \cup Posting \cup Serving

LEMMA SetTyped ==
    ASSUME TypeOK, NEW h \in Slots, NEW q \in Request, req' = [req EXCEPT ![h] = q]
    PROVE  req' \in [Slots -> Request] /\ req'[h] = q /\ \A g \in Slots \ {h} : req'[g] = req[g]
BY DEF TypeOK

LEMMA FinishTyped ==
    ASSUME TypeOK, NEW h \in Slots, Finish(h)
    PROVE  /\ req' \in [Slots -> Request] /\ \A g \in Slots \ {h} : req'[g] = req[g]
           /\ req'[h].room = {} /\ req'[h].page = {} /\ req'[h].msg = {} /\ req'[h].at = "idle"
<1>1. Idle \in Request
  BY DEF Idle, Request
<1>2. Idle.room = {} /\ Idle.page = {} /\ Idle.msg = {} /\ Idle.at = "idle"
  BY DEF Idle
<1> QED
  BY <1>1, <1>2, SetTyped DEF Finish

LEMMA GoTyped ==
    ASSUME TypeOK, NEW h \in Slots, NEW s \in Steps, Go(h, s)
    PROVE  /\ req' \in [Slots -> Request] /\ \A g \in Slots \ {h} : req'[g] = req[g]
           /\ req'[h].room = req[h].room /\ req'[h].page = req[h].page
           /\ req'[h].msg = req[h].msg /\ req'[h].at = s
<1> DEFINE q == [req[h] EXCEPT !.at = s]
<1>1. req[h] \in Request
  BY DEF TypeOK
<1>2. q \in Request /\ q.room = req[h].room /\ q.page = req[h].page /\ q.msg = req[h].msg /\ q.at = s
  BY <1>1 DEF Request, Steps
<1>3. req' = [req EXCEPT ![h] = q]
  BY DEF Go
<1> HIDE DEF q
<1> QED
  BY <1>2, <1>3, SetTyped

LEMMA BeginTyped ==
    ASSUME TypeOK, NEW h \in Slots, NEW s \in Steps, NEW r \in Rooms, NEW ws \in BOOLEAN,
           Begin(h, s, r, ws)
    PROVE  /\ req' \in [Slots -> Request] /\ \A g \in Slots \ {h} : req'[g] = req[g]
           /\ req'[h].room = {r} /\ req'[h].page = {} /\ req'[h].msg = {} /\ req'[h].at = s
<1> DEFINE q == [Idle EXCEPT !.at = s, !.room = {r}, !.socket = ws]
<1>1. q \in Request /\ q.room = {r} /\ q.page = {} /\ q.msg = {} /\ q.at = s
  BY DEF Idle, Request, Steps
<1>2. req' = [req EXCEPT ![h] = q]
  BY DEF Begin
<1> HIDE DEF q
<1> QED
  BY <1>1, <1>2, SetTyped

SetPage(h, s, p) == req' = [req EXCEPT ![h].at = s, ![h].page = p]
LEMMA PageTyped ==
    ASSUME TypeOK, NEW h \in Slots, NEW s \in Steps, NEW p \in SUBSET SUBSET Message,
           SetPage(h, s, p)
    PROVE  /\ req' \in [Slots -> Request] /\ \A g \in Slots \ {h} : req'[g] = req[g]
           /\ req'[h].room = req[h].room /\ req'[h].page = p
           /\ req'[h].msg = req[h].msg /\ req'[h].at = s
<1> DEFINE q == [req[h] EXCEPT !.at = s, !.page = p]
<1>1. req[h] \in Request
  BY DEF TypeOK
<1>2. q \in Request /\ q.room = req[h].room /\ q.page = p /\ q.msg = req[h].msg /\ q.at = s
  BY <1>1 DEF Request, Steps
<1>3. req' = [req EXCEPT ![h] = q]
  BY DEF SetPage
<1> HIDE DEF q
<1> QED
  BY <1>2, <1>3, SetTyped

SetMsg(h, s, p) == req' = [req EXCEPT ![h].at = s, ![h].msg = p]
LEMMA MsgTyped ==
    ASSUME TypeOK, NEW h \in Slots, NEW s \in Steps, NEW p \in SUBSET Message,
           SetMsg(h, s, p)
    PROVE  /\ req' \in [Slots -> Request] /\ \A g \in Slots \ {h} : req'[g] = req[g]
           /\ req'[h].room = req[h].room /\ req'[h].page = req[h].page
           /\ req'[h].msg = p /\ req'[h].at = s
<1> DEFINE q == [req[h] EXCEPT !.at = s, !.msg = p]
<1>1. req[h] \in Request
  BY DEF TypeOK
<1>2. q \in Request /\ q.room = req[h].room /\ q.page = req[h].page /\ q.msg = p /\ q.at = s
  BY <1>1 DEF Request, Steps
<1>3. req' = [req EXCEPT ![h] = q]
  BY DEF SetMsg
<1> HIDE DEF q
<1> QED
  BY <1>2, <1>3, SetTyped

-----------------------------------------------------------------------------
(* What a step may do to the rows, and to one slot.                        *)
RowsStep ==
    \/ rows' \subseteq rows /\ last' = last
    \/ /\ last' = last + 1 /\ last' \in 0..MaxId
       /\ \E m \in Message : m.id = last + 1 /\ rows' = rows \cup {m}

Keeps(h) == req'[h].room = req[h].room /\ req'[h].page = req[h].page
SlotStep(h) ==
    \/ req'[h] = req[h]
    \/ /\ req'[h].at # "fill_file"
       /\ \/ Keeps(h)
          \/ /\ req'[h].page = {}
             /\ req'[h].room = {} \/ \E r \in Rooms : req'[h].room = {r}
          \/ /\ req'[h].room = req[h].room
             /\ \E r \in req[h].room : req'[h].page \in {chat_messages_by_room[r], {Newest(InRoom(r))}}
             /\ UNCHANGED tables
    \/ Keeps(h) /\ req'[h].msg \subseteq rows /\ UNCHANGED tables

LEMMA ByTyping ==
    ASSUME TypeOK, NEW h \in Slots
    PROVE  /\ req[h] \in Request /\ req[h].room \subseteq Rooms
           /\ req[h].page \in SUBSET SUBSET Message /\ req[h].msg \subseteq Message
           /\ req[h].counts \subseteq Counts /\ Caller[h] \in Users
BY CallerAssumption DEF TypeOK, Request, Slots

(* The types of the tables, of the caches and of the slots, each on its    *)
(* own.                                                                    *)
TablesTyped ==
    /\ users \subseteq Users /\ rows \subseteq Message /\ last \in 0..MaxId
    /\ last_read \in [Users -> [Rooms -> 0..last]]
CachesTyped ==
    /\ chat_messages_by_room \in [Rooms -> SUBSET SUBSET Message]
    /\ unread_counts \in [Users -> SUBSET Counts]
    /\ chat_file \in [Ids -> SUBSET Users]
Typed(n) == req' \in [Slots -> Request] /\ SlotStep(n) /\ \A g \in Slots \ {n} : req'[g] = req[g]

LEMMA Split == TypeOK <=> TablesTyped /\ CachesTyped /\ req \in [Slots -> Request]
BY DEF TypeOK, TablesTyped, CachesTyped

LEMMA BeginStep ==
    ASSUME TypeOK, NEW h \in Slots, NEW s \in Steps \ {"fill_file"}, NEW r \in Rooms,
           NEW ws \in BOOLEAN, Begin(h, s, r, ws)
    PROVE  Typed(h) /\ UNCHANGED <<tables, caches>>
<1>1. UNCHANGED <<tables, caches>>
  BY DEF Begin
<1>2. s \in Steps /\ s # "fill_file"
  OBVIOUS
<1>3. /\ req' \in [Slots -> Request] /\ \A g \in Slots \ {h} : req'[g] = req[g]
      /\ req'[h].room = {r} /\ req'[h].page = {} /\ req'[h].at = s
  BY <1>2, BeginTyped
<1>4. SlotStep(h)
  BY <1>2, <1>3, Zenon DEF SlotStep
<1> QED
  BY <1>1, <1>3, <1>4 DEF Typed

LEMMA FinishStep ==
    ASSUME TypeOK, NEW h \in Slots, Finish(h)
    PROVE  Typed(h)
BY FinishTyped DEF Typed, SlotStep

LEMMA GoStep ==
    ASSUME TypeOK, NEW h \in Slots, NEW s \in Steps \ {"fill_file"}, Go(h, s)
    PROVE  Typed(h)
BY GoTyped DEF Typed, SlotStep, Keeps

LEMMA InsertStep ==
    ASSUME TypeOK, RowsOK, NEW h \in Slots, Insert(h)
    PROVE  Typed(h) /\ RowsStep /\ TablesTyped' /\ UNCHANGED caches
<1>0. UNCHANGED <<users, last_read, caches>>
  BY DEF Insert
<1>1. CASE Finish(h) /\ UNCHANGED <<rows, last>>
  BY <1>0, <1>1, FinishStep, Split DEF RowsStep, TablesTyped
<1>2. CASE ~(Finish(h) /\ UNCHANGED <<rows, last>>)
  <2> DEFINE m(r) == [id |-> last + 1, room |-> r, by |-> Caller[h]]
  <2>1. PICK r \in req[h].room :
          /\ rows' = rows \cup {m(r)} /\ last' = last + 1 /\ last < MaxId
          /\ SetMsg(h, "stamp", {m(r)})
    BY <1>2 DEF Insert, SetMsg
  <2>2. last \in 0..MaxId /\ MaxId \in Nat
    BY BoundsAssumption DEF TypeOK
  <2>3. last' \in 0..MaxId /\ last + 1 \in Ids
    BY <2>1, <2>2 DEF Ids
  <2>4. m(r) \in Message /\ m(r).id = last + 1
    BY <2>3, ByTyping DEF Message
  <2> HIDE DEF m
  <2>5. Typed(h)
    <3>1. "stamp" \in Steps /\ {m(r)} \in SUBSET Message
      BY <2>4 DEF Steps, Posting
    <3> QED
      BY <2>1, <3>1, MsgTyped DEF Typed, SlotStep, Keeps
  <2>6. last_read' \in [Users -> [Rooms -> 0..last']]
    <3>1. last_read \in [Users -> [Rooms -> 0..last]] /\ 0..last \subseteq 0..last'
      BY <2>1, <2>2 DEF TypeOK
    <3>2. last_read \in [Users -> [Rooms -> 0..last']]
      BY <3>1
    <3> QED
      BY <1>0, <3>2
  <2> QED
    BY <1>0, <2>1, <2>3, <2>4, <2>5, <2>6 DEF RowsStep, TablesTyped, TypeOK
<1> QED
  BY <1>1, <1>2

LEMMA MarkStep ==
    ASSUME TypeOK, RowsOK, NEW h \in Slots, Mark(h)
    PROVE  Typed(h) /\ RowsStep /\ TablesTyped' /\ CachesTyped'
           /\ UNCHANGED <<chat_messages_by_room, chat_file>>
<1>0. UNCHANGED <<users, rows, last, chat_messages_by_room, chat_file>>
  BY DEF Mark
<1>1. Typed(h)
  BY GoStep DEF Mark, Steps, Viewing
<1>2. PICK r \in req[h].room :
        IF Caller[h] \in users
        THEN /\ last_read' = [last_read EXCEPT ![Caller[h]][r] = LastId(InRoom(r))]
             /\ unread_counts' = [unread_counts EXCEPT ![Caller[h]] = {}]
        ELSE UNCHANGED <<last_read, unread_counts>>
  BY DEF Mark
<1>3. LastId(InRoom(r)) \in 0..last
  <2>1. InRoom(r) \subseteq rows /\ rows \subseteq Message /\ last \in Nat
    BY DEF InRoom, TypeOK
  <2>2. \A m \in rows : m.id \in 0..last
    BY <2>1 DEF RowsOK, Message, Ids
  <2> QED
    BY <2>1, <2>2, LastIdIsMax
<1>4. r \in Rooms /\ Caller[h] \in Users
  BY ByTyping
<1>5. last_read' \in [Users -> [Rooms -> 0..last]]
  <2> DEFINE row == [last_read[Caller[h]] EXCEPT ![r] = LastId(InRoom(r))]
  <2>1. row \in [Rooms -> 0..last] /\ last_read \in [Users -> [Rooms -> 0..last]]
    BY <1>3, <1>4 DEF TypeOK
  <2>2. last_read' = last_read \/ last_read' = [last_read EXCEPT ![Caller[h]] = row]
    BY <1>2
  <2> HIDE DEF row
  <2> QED
    BY <1>4, <2>1, <2>2
<1>6. unread_counts' \in [Users -> SUBSET Counts]
  BY <1>2, <1>4 DEF TypeOK
<1> QED
  BY <1>0, <1>1, <1>5, <1>6, Split DEF RowsStep, TablesTyped, CachesTyped

(* Requests that only read the tables: what they read is typed.            *)
LEMMA UnreadTyped ==
    ASSUME TypeOK, RowsOK, NEW u \in Users
    PROVE  Unread(u) \in Counts
<1>1. ASSUME NEW r \in Rooms
      PROVE  Cardinality({m \in InRoom(r) : m.id > last_read[u][r]}) \in Nat
  <2>1. IsFiniteSet({m \in InRoom(r) : m.id > last_read[u][r]})
    BY FS_Subset DEF InRoom, RowsOK
  <2> QED
    BY <2>1, FS_CardinalityType
<1> QED
  BY <1>1 DEF Unread, Counts

LEMMA ReadingStep ==
    ASSUME TypeOK, RowsOK, NEW h \in Slots, NEW bypass \in BOOLEAN,
           \/ Stamp(h) \/ LookHistory(h, bypass) \/ SelectHistory(h) \/ LookCounts(h, bypass)
           \/ SelectCounts(h) \/ LookFile(h, bypass) \/ SelectFile(h) \/ Drop(h)
    PROVE  Typed(h) /\ UNCHANGED <<tables, caches>>
<1>0. UNCHANGED <<tables, caches>>
  BY DEF Stamp, LookHistory, SelectHistory, LookCounts, SelectCounts, LookFile, SelectFile, Drop
<1>1. CASE Finish(h)
  BY <1>0, <1>1, FinishStep
<1>2. CASE \E s \in Steps \ {"fill_file"} : Go(h, s)
  BY <1>0, <1>2, GoStep
<1> "announce" \in Steps /\ "select" \in Steps /\ "count" \in Steps /\ "select_file" \in Steps
  BY DEF Steps, Viewing, Posting, Serving
<1>3. CASE Stamp(h)
  BY <1>1, <1>2, <1>3 DEF Stamp
<1>4. CASE LookHistory(h, bypass)
  <2>1. CASE Go(h, "select")
    BY <1>2, <2>1
  <2>2. CASE ~Go(h, "select")
    <3>1. PICK r \in req[h].room :
            SetPage(h, "counts", chat_messages_by_room[r])
      BY <1>4, <2>2 DEF LookHistory, SetPage
    <3>2. chat_messages_by_room[r] \in SUBSET SUBSET Message /\ "counts" \in Steps
      BY ByTyping DEF TypeOK, Steps, Viewing
    <3>3. /\ req' \in [Slots -> Request] /\ \A g \in Slots \ {h} : req'[g] = req[g]
          /\ req'[h].room = req[h].room /\ req'[h].page = chat_messages_by_room[r]
          /\ req'[h].at # "fill_file"
      BY <3>1, <3>2, PageTyped
    <3>4. UNCHANGED tables
      BY <1>0
    <3> QED
      BY <1>0, <3>3, <3>4 DEF Typed, SlotStep
  <2> QED
    BY <2>1, <2>2
<1>5. CASE SelectHistory(h)
  <2>1. PICK r \in req[h].room :
          SetPage(h, "fill", {Newest(InRoom(r))})
    BY <1>5 DEF SelectHistory, SetPage
  <2>2. {Newest(InRoom(r))} \in SUBSET SUBSET Message /\ "fill" \in Steps
    BY ByTyping, NewestHonest DEF Steps, Viewing
  <2>3. /\ req' \in [Slots -> Request] /\ \A g \in Slots \ {h} : req'[g] = req[g]
        /\ req'[h].room = req[h].room /\ req'[h].page = {Newest(InRoom(r))}
        /\ req'[h].at # "fill_file"
    BY <2>1, <2>2, PageTyped
  <2>4. UNCHANGED tables
    BY <1>0
  <2> QED
    BY <1>0, <2>3, <2>4 DEF Typed, SlotStep
<1>6. CASE LookCounts(h, bypass) \/ LookFile(h, bypass)
  BY <1>1, <1>2, <1>6 DEF LookCounts, LookFile
<1>7. CASE SelectCounts(h)
  <2> DEFINE q == [req[h] EXCEPT !.at = "fill_counts", !.counts = {Unread(Caller[h])}]
  <2>1. {Unread(Caller[h])} \in SUBSET Counts /\ req[h] \in Request
    BY ByTyping, UnreadTyped
  <2>2. q \in Request /\ q.at = "fill_counts" /\ q.room = req[h].room /\ q.page = req[h].page
    BY <2>1 DEF Request, Viewing
  <2>3. req' = [req EXCEPT ![h] = q]
    BY <1>7 DEF SelectCounts
  <2> HIDE DEF q
  <2> QED
    BY <1>0, <2>2, <2>3, SetTyped DEF Typed, SlotStep, Keeps
<1>8. CASE SelectFile(h)
  <2>1. CASE Finish(h)
    BY <1>1, <2>1
  <2>2. CASE ~Finish(h)
    <3>1. PICK m \in req[h].msg :
            SetMsg(h, "fill_file", {n \in rows : n.id = m.id})
      BY <1>8, <2>2 DEF SelectFile, SetMsg
    <3>2. {n \in rows : n.id = m.id} \in SUBSET Message /\ "fill_file" \in Steps
      BY DEF TypeOK, Steps, Serving
    <3>3. /\ req' \in [Slots -> Request] /\ \A g \in Slots \ {h} : req'[g] = req[g]
          /\ Keeps(h) /\ req'[h].msg \subseteq rows
      BY <3>1, <3>2, MsgTyped DEF Keeps
    <3>4. UNCHANGED tables
      BY <1>0
    <3> QED
      BY <1>0, <3>3, <3>4 DEF Typed, SlotStep
  <2> QED
    BY <2>1, <2>2
<1>9. CASE Drop(h)
  BY <1>1, <1>9 DEF Drop
<1> QED
  BY <1>3, <1>4, <1>5, <1>6, <1>7, <1>8, <1>9

(* The steps that touch the caches only.                                   *)
LEMMA CacheStep ==
    ASSUME TypeOK, NEW h \in Slots, Announce(h) \/ FillHistory(h) \/ FillCounts(h) \/ FillFile(h)
    PROVE  Typed(h) /\ CachesTyped' /\ UNCHANGED tables
<1>0. UNCHANGED tables
  BY DEF Announce, FillHistory, FillCounts, FillFile
<1>1. Typed(h)
  BY FinishStep, GoStep DEF Announce, FillHistory, FillCounts, FillFile, Steps, Viewing
<1>2. CachesTyped'
  <2>1. CASE Announce(h)
    BY <2>1 DEF Announce, TypeOK, CachesTyped
  <2>2. CASE FillHistory(h)
    BY <2>2, ByTyping DEF FillHistory, TypeOK, CachesTyped
  <2>3. CASE FillCounts(h)
    BY <2>3, ByTyping DEF FillCounts, TypeOK, CachesTyped
  <2>4. CASE FillFile(h)
    <3>1. PICK m \in req[h].msg : chat_file' = [chat_file EXCEPT ![m.id] = {m.by}]
      BY <2>4 DEF FillFile
    <3>2. m.id \in Ids /\ m.by \in Users
      BY ByTyping DEF Message
    <3>3. chat_file' \in [Ids -> SUBSET Users]
      BY <3>1, <3>2 DEF TypeOK
    <3> QED
      BY <2>4, <3>3 DEF FillFile, TypeOK, CachesTyped
  <2> QED
    BY <2>1, <2>2, <2>3, <2>4
<1> QED
  BY <1>0, <1>1, <1>2

-----------------------------------------------------------------------------
LEMMA FindFileStep ==
    ASSUME TypeOK, NEW h \in Slots, NEW m \in rows, FindFile(h, m)
    PROVE  Typed(h) /\ UNCHANGED <<tables, caches>>
<1> DEFINE q == [Idle EXCEPT !.at = "file", !.msg = {m}]
<1>1. UNCHANGED <<tables, caches>> /\ req' = [req EXCEPT ![h] = q]
  BY DEF FindFile
<1>2. m \in Message
  BY DEF TypeOK
<1>3. q \in Request /\ q.at = "file" /\ q.room = {} /\ q.page = {}
  BY <1>2 DEF Idle, Request, Serving
<1> HIDE DEF q
<1> QED
  BY <1>1, <1>3, SetTyped DEF Typed, SlotStep

(* Every step, seen from the rows, the caches and the slots.               *)
LEMMA StepShape ==
    ASSUME TypeOK, RowsOK, [Next]_vars
    PROVE  /\ TypeOK' /\ RowsStep
           /\ \A h \in Slots : SlotStep(h) \/ (req'[h] = Idle)
           /\ \A r \in Rooms :
                \/ chat_messages_by_room'[r] \subseteq chat_messages_by_room[r]
                \/ \E h \in Slots : r \in req[h].room /\ chat_messages_by_room'[r] = req[h].page
           /\ \A i \in Ids :
                \/ chat_file'[i] \subseteq chat_file[i]
                \/ \E h \in Slots : /\ At(h, "fill_file")
                                   /\ \E m \in req[h].msg : m.id = i /\ chat_file'[i] = {m.by}
<1> DEFINE Hist == \A r \in Rooms :
      \/ chat_messages_by_room'[r] \subseteq chat_messages_by_room[r]
      \/ \E h \in Slots : r \in req[h].room /\ chat_messages_by_room'[r] = req[h].page
<1> DEFINE Files == \A i \in Ids :
      \/ chat_file'[i] \subseteq chat_file[i]
      \/ \E h \in Slots : /\ At(h, "fill_file")
                         /\ \E m \in req[h].msg : m.id = i /\ chat_file'[i] = {m.by}
<1> DEFINE Goal == /\ TablesTyped' /\ CachesTyped' /\ req' \in [Slots -> Request] /\ RowsStep
                   /\ \A h \in Slots : SlotStep(h) \/ (req'[h] = Idle)
                   /\ Hist /\ Files
<1>s. TablesTyped /\ CachesTyped /\ req \in [Slots -> Request]
  BY Split
<1>t. ASSUME NEW h \in Slots, Typed(h)
      PROVE  req' \in [Slots -> Request] /\ \A g \in Slots : SlotStep(g)
  BY <1>t DEF Typed, SlotStep
<1>u. ASSUME UNCHANGED tables PROVE TablesTyped' /\ RowsStep
  BY <1>s, <1>u DEF tables, TablesTyped, RowsStep
<1>v. ASSUME UNCHANGED caches PROVE CachesTyped' /\ Hist /\ Files
  BY <1>s, <1>v DEF caches, CachesTyped
<1>w. ASSUME UNCHANGED <<chat_messages_by_room, chat_file>> PROVE Hist /\ Files
  BY <1>w
<1>1. ASSUME UNCHANGED vars PROVE Goal
  <2>1. UNCHANGED tables /\ UNCHANGED caches /\ UNCHANGED req
    BY <1>1 DEF vars, tables, caches
  <2>2. \A h \in Slots : SlotStep(h)
    BY <2>1 DEF SlotStep
  <2> QED
    BY <1>s, <1>u, <1>v, <2>1, <2>2
<1>2. ASSUME NEW h \in Slots, NEW r \in Rooms, NEW ws \in BOOLEAN, View(h, r) \/ Post(h, r, ws)
      PROVE  Goal
  <2>1. Typed(h) /\ UNCHANGED <<tables, caches>>
    BY <1>2, BeginStep DEF View, Post, Steps, Viewing, Posting
  <2> QED
    BY <2>1, <1>t, <1>u, <1>v
<1>3. ASSUME NEW h \in Slots, NEW m \in rows, FindFile(h, m) PROVE Goal
  <2>1. Typed(h) /\ UNCHANGED <<tables, caches>>
    BY <1>3, FindFileStep
  <2> QED
    BY <2>1, <1>t, <1>u, <1>v
<1>4. ASSUME NEW h \in Slots, Insert(h) PROVE Goal
  <2>1. Typed(h) /\ RowsStep /\ TablesTyped' /\ UNCHANGED caches
    BY <1>4, InsertStep
  <2> QED
    BY <2>1, <1>t, <1>v
<1>5. ASSUME NEW h \in Slots, Mark(h) PROVE Goal
  <2>1. Typed(h) /\ RowsStep /\ TablesTyped' /\ CachesTyped'
        /\ UNCHANGED <<chat_messages_by_room, chat_file>>
    BY <1>5, MarkStep
  <2> QED
    BY <2>1, <1>t, <1>w
<1>6. ASSUME NEW h \in Slots, NEW bypass \in BOOLEAN,
             \/ Stamp(h) \/ LookHistory(h, bypass) \/ SelectHistory(h) \/ LookCounts(h, bypass)
             \/ SelectCounts(h) \/ LookFile(h, bypass) \/ SelectFile(h) \/ Drop(h)
      PROVE  Goal
  <2>1. Typed(h) /\ UNCHANGED <<tables, caches>>
    BY <1>6, ReadingStep
  <2> QED
    BY <2>1, <1>t, <1>u, <1>v
<1>7. ASSUME NEW h \in Slots, Announce(h) \/ FillHistory(h) \/ FillCounts(h) \/ FillFile(h)
      PROVE  Goal
  <2>1. Typed(h) /\ CachesTyped' /\ UNCHANGED tables
    BY <1>7, CacheStep
  <2>2. Hist
    <3>1. CASE FillCounts(h) \/ FillFile(h)
      BY <3>1 DEF FillCounts, FillFile
    <3>2. CASE Announce(h)
      BY <3>2 DEF Announce
    <3>3. CASE FillHistory(h)
      BY <3>3 DEF FillHistory
    <3> QED
      BY <1>7, <3>1, <3>2, <3>3
  <2>3. Files
    <3>1. CASE UNCHANGED chat_file
      BY <3>1
    <3>2. CASE FillFile(h)
      <4>1. PICK m \in req[h].msg : chat_file' = [chat_file EXCEPT ![m.id] = {m.by}]
        BY <3>2 DEF FillFile
      <4>2. \A i \in Ids : chat_file'[i] = IF i = m.id THEN {m.by} ELSE chat_file[i]
        BY <1>s, <4>1 DEF CachesTyped
      <4>3. At(h, "fill_file")
        BY <3>2 DEF FillFile
      <4> QED
        BY <4>2, <4>3
    <3> QED
      BY <1>7, <3>1, <3>2 DEF Announce, FillHistory, FillCounts
  <2> QED
    BY <2>1, <2>2, <2>3, <1>t, <1>u
<1>8. ASSUME NEW u \in Users, DeleteUser(u) PROVE Goal
  <2>1. UNCHANGED caches /\ UNCHANGED req /\ last' = last /\ rows' \subseteq rows /\ users' \subseteq users
    BY <1>8 DEF DeleteUser
  <2>2. last_read' \in [Users -> [Rooms -> 0..last]]
    <3>1. [r \in Rooms |-> 0] \in [Rooms -> 0..last]
      BY <1>s DEF TablesTyped
    <3> DEFINE zero == [r \in Rooms |-> 0]
    <3>2. last_read' = [last_read EXCEPT ![u] = zero]
      BY <1>8 DEF DeleteUser
    <3> HIDE DEF zero
    <3> QED
      BY <1>s, <3>1, <3>2 DEF TablesTyped, zero
  <2>3. TablesTyped' /\ RowsStep
    BY <1>s, <2>1, <2>2 DEF TablesTyped, RowsStep
  <2>4. \A h \in Slots : SlotStep(h)
    BY <2>1 DEF SlotStep
  <2> QED
    BY <1>s, <2>1, <2>3, <2>4, <1>v
<1>9a. ASSUME NEW u \in Users, ExpireCounts(u) PROVE Goal
  <2>1. UNCHANGED tables /\ UNCHANGED req
    BY <1>9a DEF ExpireCounts
  <2>2. CachesTyped' /\ Hist /\ Files
    BY <1>s, <1>9a DEF ExpireCounts, CachesTyped
  <2>3. \A h \in Slots : SlotStep(h)
    BY <2>1 DEF SlotStep
  <2> QED
    BY <1>s, <1>u, <2>1, <2>2, <2>3
<1>9b. ASSUME NEW r \in Rooms, ExpireHistory(r) PROVE Goal
  <2>1. UNCHANGED tables /\ UNCHANGED req
    BY <1>9b DEF ExpireHistory
  <2>2. CachesTyped' /\ Hist /\ Files
    BY <1>s, <1>9b DEF ExpireHistory, CachesTyped
  <2>3. \A h \in Slots : SlotStep(h)
    BY <2>1 DEF SlotStep
  <2> QED
    BY <1>s, <1>u, <2>1, <2>2, <2>3
<1>9c. ASSUME NEW i \in Ids, ExpireFile(i) PROVE Goal
  <2>1. UNCHANGED tables /\ UNCHANGED req
    BY <1>9c DEF ExpireFile
  <2>2. CachesTyped' /\ Hist /\ Files
    BY <1>s, <1>9c DEF ExpireFile, CachesTyped
  <2>3. \A h \in Slots : SlotStep(h)
    BY <2>1 DEF SlotStep
  <2> QED
    BY <1>s, <1>u, <2>1, <2>2, <2>3
<1>10. ASSUME Restart PROVE Goal
  <2>1. UNCHANGED tables /\ req' = [h \in Slots |-> Idle]
    BY <1>10 DEF Restart
  <2>2. Idle \in Request
    BY DEF Idle, Request
  <2>3. CachesTyped' /\ Hist /\ Files
    BY <1>10 DEF Restart, CachesTyped
  <2> QED
    BY <1>u, <2>1, <2>2, <2>3
<1>11. Goal
  <2>1. CASE Next
    <3>1. \A h \in Slots : Work(h) => Goal
      BY <1>4, <1>5, <1>6, <1>7 DEF Work, History, Count, File
    <3>2. \A h \in Slots : Drop(h) => Goal
      BY <1>6
    <3> QED
      BY <2>1, <1>2, <1>3, <1>8, <1>9a, <1>9b, <1>9c, <1>10, <3>1, <3>2 DEF Next
  <2> QED
    BY <1>1, <2>1
<1>12. TypeOK'
  BY <1>11 DEF TypeOK, TablesTyped, CachesTyped
<1> QED
  BY <1>11, <1>12

-----------------------------------------------------------------------------
LEMMA RowsStay ==
    ASSUME TypeOK, RowsOK, RowsStep
    PROVE  RowsOK'
<1>1. rows \subseteq Message /\ last \in Nat /\ \A m \in Message : m.id \in Nat
  BY DEF TypeOK, Message, Ids
<1>2. CASE rows' \subseteq rows /\ last' = last
  <2>1. IsFiniteSet(rows')
    BY <1>2, FS_Subset DEF RowsOK
  <2> QED
    BY <1>2, <2>1 DEF RowsOK
<1>3. CASE last' = last + 1 /\ \E m \in Message : m.id = last + 1 /\ rows' = rows \cup {m}
  <2>1. PICK m \in Message : m.id = last + 1 /\ rows' = rows \cup {m}
    BY <1>3
  <2>2. IsFiniteSet(rows')
    BY <2>1, FS_AddElement DEF RowsOK
  <2> QED
    BY <1>1, <1>3, <2>1, <2>2 DEF RowsOK
<1> QED
  BY <1>2, <1>3 DEF RowsStep

(* What a history shows, and whose a file is, outlives any step.           *)
LEMMA HonestStays ==
    ASSUME TypeOK, RowsStep, NEW s \in SUBSET Message, NEW r, Honest(s, r, rows, last)
    PROVE  Honest(s, r, rows', last')
<1>1. last \in Nat /\ \A x \in s : x.id \in Nat /\ x.id <= last /\ x.room = r
  BY DEF TypeOK, Honest, Message, Ids
<1>2. last' \in Nat /\ last <= last'
  BY <1>1 DEF RowsStep
<1>3. ASSUME NEW x \in s, NEW y \in s, NEW m \in rows', m.room = r, x.id < m.id, m.id < y.id
      PROVE  m \in s
  <2>1. m \in rows \/ m.id = last + 1
    BY DEF RowsStep
  <2> QED
    BY <1>1, <1>3, <2>1 DEF Honest
<1>4. \A x \in s : x.id <= last' /\ x.room = r
  BY <1>1, <1>2
<1>5. ASSUME Cardinality(s) < Window, NEW x \in s, NEW m \in rows', m.room = r, m.id < x.id
      PROVE  m \in s
  <2>1. m \in rows \/ m.id = last + 1
    BY DEF RowsStep
  <2> QED
    BY <1>1, <1>5, <2>1 DEF Honest
<1>6. Cardinality(s) <= Window
  BY DEF Honest
<1> QED
  BY <1>3, <1>4, <1>5, <1>6 DEF Honest

LEMMA AuthorStays ==
    ASSUME TypeOK, RowsStep, NEW i \in Ids, NEW u, Author(i, u, rows, last)
    PROVE  Author(i, u, rows', last')
<1>1. last \in Nat /\ i \in Nat /\ i <= last
  BY DEF TypeOK, Author, Ids
<1>2. last' \in Nat /\ last <= last'
  BY <1>1 DEF RowsStep
<1>3. \A m \in rows' : m \in rows \/ m.id = last + 1
  BY DEF RowsStep
<1> QED
  BY <1>1, <1>2, <1>3 DEF Author

LEMMA HistoryStays ==
    ASSUME TypeOK, RowsOK, OneRoom, HistoryOK, [Next]_vars
    PROVE  OneRoom' /\ HistoryOK'
<1>0. /\ TypeOK' /\ RowsStep
      /\ \A h \in Slots : SlotStep(h) \/ (req'[h] = Idle)
      /\ \A r \in Rooms :
           \/ chat_messages_by_room'[r] \subseteq chat_messages_by_room[r]
           \/ \E h \in Slots : r \in req[h].room /\ chat_messages_by_room'[r] = req[h].page
  BY StepShape
<1>1. Idle.room = {} /\ Idle.page = {}
  BY DEF Idle
<1>2. OneRoom'
  BY <1>0, <1>1 DEF SlotStep, Keeps, OneRoom
<1>3. ASSUME NEW r \in Rooms, NEW s \in chat_messages_by_room'[r]
      PROVE  Honest(s, r, rows', last')
  <2>1. s \in chat_messages_by_room[r] \/ \E h \in Slots : r \in req[h].room /\ s \in req[h].page
    BY <1>0, <1>3
  <2>2. s \in SUBSET Message /\ Honest(s, r, rows, last)
    BY <2>1, ByTyping DEF HistoryOK, TypeOK
  <2> QED
    BY <1>0, <2>2, HonestStays
<1>4. ASSUME NEW h \in Slots, NEW r \in req'[h].room, NEW s \in req'[h].page
      PROVE  Honest(s, r, rows', last')
  <2>1. CASE r \in req[h].room /\ s \in req[h].page
    <3>1. s \in SUBSET Message /\ Honest(s, r, rows, last)
      BY <2>1, ByTyping DEF HistoryOK
    <3> QED
      BY <1>0, <3>1, HonestStays
  <2>2. CASE ~(r \in req[h].room /\ s \in req[h].page)
    <3>1. PICK p \in req[h].room :
            /\ req'[h].room = req[h].room
            /\ req'[h].page \in {chat_messages_by_room[p], {Newest(InRoom(p))}}
            /\ UNCHANGED tables
      BY <1>0, <1>1, <1>4, <2>2 DEF SlotStep, Keeps
    <3>2. r = p /\ r \in Rooms
      BY <1>4, <3>1, ByTyping DEF OneRoom
    <3>3. s \in chat_messages_by_room[r] \/ s = Newest(InRoom(r))
      BY <1>4, <3>1, <3>2
    <3>4. s \in SUBSET Message /\ Honest(s, r, rows, last)
      BY <3>2, <3>3, NewestHonest DEF HistoryOK, TypeOK
    <3> QED
      BY <1>0, <3>4, HonestStays
  <2> QED
    BY <2>1, <2>2
<1> QED
  BY <1>2, <1>3, <1>4 DEF HistoryOK

LEMMA FilesStay ==
    ASSUME TypeOK, RowsOK, FilesOK, [Next]_vars
    PROVE  FilesOK'
<1>0. /\ TypeOK' /\ RowsStep
      /\ \A h \in Slots : SlotStep(h) \/ (req'[h] = Idle)
      /\ \A i \in Ids :
           \/ chat_file'[i] \subseteq chat_file[i]
           \/ \E h \in Slots : /\ At(h, "fill_file")
                              /\ \E m \in req[h].msg : m.id = i /\ chat_file'[i] = {m.by}
  BY StepShape
<1>1. Idle.at # "fill_file"
  BY DEF Idle
<1>2. ASSUME NEW i \in Ids, NEW u \in chat_file'[i] PROVE Author(i, u, rows', last')
  <2>1. Author(i, u, rows, last)
    BY <1>0, <1>2 DEF FilesOK
  <2> QED
    BY <1>0, <2>1, AuthorStays
<1>3. ASSUME NEW h \in Slots, req'[h].at = "fill_file", NEW n \in req'[h].msg
      PROVE  Author(n.id, n.by, rows', last') /\ \A m \in rows' : m.id = n.id => m = n
  <2>1. /\ n \in Message /\ Author(n.id, n.by, rows, last)
        /\ \A m \in rows : m.id = n.id => m = n
    <3>1. CASE req'[h] = req[h]
      BY <1>3, <3>1, ByTyping DEF FilesOK, At
    <3>2. CASE req'[h].msg \subseteq rows
      BY <1>3, <3>2 DEF RowsOK, Author, TypeOK
    <3> QED
      BY <1>0, <1>1, <1>3, <3>1, <3>2 DEF SlotStep
  <2>2. n.id \in Ids
    BY <2>1 DEF Message
  <2>3. Author(n.id, n.by, rows', last')
    BY <1>0, <2>1, <2>2, AuthorStays
  <2>4. ASSUME NEW m \in rows', m.id = n.id PROVE m = n
    <3>1. m \in rows \/ m.id = last + 1
      BY <1>0 DEF RowsStep
    <3>2. n.id <= last /\ last \in Nat /\ n.id \in Nat
      BY <2>1, <2>2 DEF Author, TypeOK, Ids
    <3> QED
      BY <2>1, <2>4, <3>1, <3>2
  <2> QED
    BY <2>3, <2>4
<1> QED
  BY <1>2, <1>3 DEF FilesOK, At

-----------------------------------------------------------------------------
Inv == TypeOK /\ RowsOK /\ OneRoom /\ HistoryOK /\ FilesOK

LEMMA InvInit == Init => Inv
<1> SUFFICES ASSUME Init PROVE Inv
  OBVIOUS
<1>1. Idle \in Request /\ Idle.room = {} /\ Idle.page = {} /\ Idle.at = "idle"
  BY DEF Idle, Request
<1>2. TypeOK
  BY <1>1, BoundsAssumption DEF Init, TypeOK
<1>3. RowsOK
  BY FS_EmptySet DEF Init, RowsOK
<1>4. OneRoom /\ HistoryOK /\ FilesOK
  BY <1>1 DEF Init, OneRoom, HistoryOK, FilesOK, At
<1> QED
  BY <1>2, <1>3, <1>4 DEF Inv

LEMMA InvStep == Inv /\ [Next]_vars => Inv'
<1> SUFFICES ASSUME Inv, [Next]_vars PROVE Inv'
  OBVIOUS
<1>1. TypeOK' /\ RowsStep
  BY StepShape DEF Inv
<1>2. RowsOK'
  BY <1>1, RowsStay DEF Inv
<1> QED
  BY <1>1, <1>2, HistoryStays, FilesStay DEF Inv

(* Rows, caches and requests satisfy the invariant in every state.         *)
THEOREM Invariance == Spec => []Inv
<1> QED
  BY InvInit, InvStep, PTL DEF Spec

(* Users, rows, read positions, caches and requests keep their types, and  *)
(* no read position is beyond the last id given out.                       *)
THEOREM MessageTyping == Spec => []TypeOK
<1>1. Inv => TypeOK
  BY DEF Inv
<1> QED
  BY <1>1, Invariance, PTL

(* No cached history and none on its way to a page has a hole: between two *)
(* messages it shows no message of the room that still exists is missing.  *)
THEOREM HistoryHasNoHoles == Spec => []NoHoles
<1>1. Inv => NoHoles
  <2> SUFFICES ASSUME Inv PROVE NoHoles
    OBVIOUS
  <2>1. ASSUME NEW s, NEW r, Honest(s, r, rows, last) PROVE GapFree(s, r)
    BY <2>1 DEF Honest, GapFree, InRoom
  <2> QED
    BY <2>1 DEF Inv, HistoryOK, NoHoles
<1> QED
  BY <1>1, Invariance, PTL

(* Every history, cached or on its way to a page, is of its room, has at   *)
(* most Window messages, and when it has fewer it leaves out none of the   *)
(* room's older messages that still exist.                                 *)
THEOREM HistoriesFit == Spec => []HistoryFits
<1>1. Inv => HistoryFits
  <2> SUFFICES ASSUME Inv PROVE HistoryFits
    OBVIOUS
  <2>1. ASSUME NEW s, NEW r, Honest(s, r, rows, last) PROVE FullOrWhole(s, r)
    BY <2>1 DEF Honest, FullOrWhole, InRoom
  <2> QED
    BY <2>1 DEF Inv, HistoryOK, HistoryFits
<1> QED
  BY <1>1, Invariance, PTL

(* The file cached for a message, or about to be, is the message's own,    *)
(* although users are deleted with their messages and entries live a day.  *)
THEOREM FilesFit == Spec => []FileIsItsMessage
<1>1. Inv => FileIsItsMessage
  <2> SUFFICES ASSUME Inv, NEW m \in rows
               PROVE  /\ chat_file[m.id] \subseteq {m.by}
                      /\ \A h \in Slots : At(h, "fill_file") =>
                           \A n \in req[h].msg : n.id = m.id => n = m
    BY DEF FileIsItsMessage
  <2>1. m.id \in Ids
    BY DEF Inv, TypeOK, Message
  <2> QED
    BY <2>1 DEF Inv, FilesOK, Author
<1> QED
  BY <1>1, Invariance, PTL

(* A message once read by a user stays read, through later pages,          *)
(* deletions of other users' messages and new ones.                        *)
THEOREM ReadsStay == Spec => ReadStaysRead
<1> DEFINE A == \A u \in users \cap users' : \A m \in rows \cap rows' : Read(u, m) => Read(u, m)'
<1>1. Inv /\ [Next]_vars => [A]_vars
  <2> SUFFICES ASSUME Inv, [Next]_vars, NEW u \in users \cap users', NEW m \in rows \cap rows',
                      m.id <= last_read[u][m.room]
               PROVE  m.id <= last_read'[u][m.room]
    BY DEF Read
  <2>0. /\ TypeOK /\ u \in Users /\ m \in Message /\ m.room \in Rooms
    BY DEF Inv, TypeOK, Message
  <2>1. CASE UNCHANGED last_read
    BY <2>1
  <2>2. ASSUME NEW h \in Slots, Mark(h) PROVE m.id <= last_read'[u][m.room]
    <3>1. PICK r \in req[h].room :
            \/ last_read' = [last_read EXCEPT ![Caller[h]][r] = LastId(InRoom(r))]
            \/ UNCHANGED last_read
      BY <2>2 DEF Mark
    <3>2. r \in Rooms /\ Caller[h] \in Users
      BY <2>0, ByTyping
    <3>3. \/ last_read'[u][m.room] = last_read[u][m.room]
          \/ m.room = r /\ last_read'[u][m.room] = LastId(InRoom(r))
      BY <2>0, <3>1, <3>2 DEF TypeOK
    <3>4. CASE m.room = r /\ last_read'[u][m.room] = LastId(InRoom(r))
      <4>1. m \in InRoom(r) /\ InRoom(r) \subseteq Message
        BY <2>0, <3>4 DEF InRoom, TypeOK
      <4> QED
        BY <3>4, <4>1, LastIdIsMax
    <3> QED
      BY <3>3, <3>4
  <2>3. ASSUME NEW v \in Users, DeleteUser(v) PROVE m.id <= last_read'[u][m.room]
    <3>1. u # v
      BY <2>3 DEF DeleteUser
    <3> QED
      BY <2>0, <2>3, <3>1 DEF DeleteUser, TypeOK
  <2> QED
    BY <2>1, <2>2, <2>3 DEF Next, Work, History, Count, File, vars, tables, caches, View, Post, Begin,
      FindFile, Insert, Stamp, Announce, LookHistory, SelectHistory, FillHistory, LookCounts,
      SelectCounts, FillCounts, LookFile, SelectFile, FillFile, Drop, ExpireHistory, ExpireCounts,
      ExpireFile, Restart
<1> QED
  BY <1>1, Invariance, PTL DEF Spec, ReadStaysRead
=============================================================================
