--------------------------- MODULE LiveRoomProofs ---------------------------
(***************************************************************************)
(* The order of a user's messages on every page, the refinement of the     *)
(* feed and of Messages by requests, caches, channel and sockets, and that *)
(* sockets skip only what the channel has dropped, proved for every number *)
(* of users, rooms, tabs, sockets and messages and for every capacity of   *)
(* the channel.                                                            *)
(***************************************************************************)
EXTENDS LiveRoom, MessagesProofs, SequenceTheorems

(* A page that is asked for has its request under way.                     *)
Asked == \A t \in Tabs : Is(t, "asked") => req[t].at \in Viewing /\ ~req[t].socket

(* A page goes through its stages; its news come from its own part of the  *)
(* log, in the log's order.                                                *)
TabOK(d, lg) ==
    /\ d.is = "closed" => d = Closed
    /\ d.is = "asked" => d.old = {}
    /\ d.is \in {"closed", "asked", "shown"} => d.new = << >> /\ d.since = 0
    /\ d.is # "closed" => \E r \in Rooms : d.room = {r}
    /\ \A j \in DOMAIN d.new : /\ d.since < d.new[j] /\ d.new[j] <= d.pos
                               /\ lg[d.new[j]].kind = "message"
    /\ \A i, j \in DOMAIN d.new : i < j => d.new[i] < d.new[j]
    /\ d.since <= d.pos /\ d.pos <= Len(lg)
TabsOK == \A t \in Tabs : TabOK(tab[t], log)

(* A slot between INSERT and publication holds the message it stored.      *)
Pend(h) == req[h].at \in {"stamp", "announce"}
Holds(m) ==
    \/ m \in rows
    \/ \E r \in Rooms : \E s \in chat_messages_by_room[r] : m \in s
    \/ \E h \in Slots : \E s \in req[h].page : m \in s
    \/ \E t \in Tabs : m \in tab[t].old
Known == {m \in Message : Holds(m)}
Written == {i \in DOMAIN log : log[i].kind = "message"}
Ordered ==
    /\ \A m \in Known : m.id <= last
    /\ \A i \in Written : log[i].msg.id <= last
    /\ \A h \in Slots : Pend(h) => \E m \in Message : req[h].msg = {m} /\ m.by = Caller[h]
    /\ \A h \in Slots : Pend(h) => \A m \in req[h].msg : m.id <= last

(* No message is told twice.                                               *)
Once ==
    /\ \A h \in Slots : Pend(h) => \A m \in req[h].msg : \A i \in Written : log[i].msg.id # m.id
    /\ \A g, h \in Slots : Pend(g) /\ Pend(h) /\ g # h =>
         \A m \in req[g].msg, n \in req[h].msg : m.id # n.id
    /\ \A i, j \in Written : log[i].msg.id = log[j].msg.id => i = j

(* With one slot for each user, what is about to be published is his last. *)
ByAuthor ==
    /\ \A h \in Slots : Pend(h) => \A m \in req[h].msg :
         /\ \A n \in Known : n.by = Caller[h] => n.id <= m.id
         /\ \A i \in Written : log[i].msg.by = Caller[h] => log[i].msg.id < m.id
    /\ \A i, j \in Written : i < j /\ log[i].msg.by = log[j].msg.by
                               => log[i].msg.id < log[j].msg.id
    /\ \A t \in Tabs : tab[t].is \in {"deaf", "live"} =>
         \A i \in Written : \A m \in tab[t].old :
           i > tab[t].since /\ m.by = log[i].msg.by => m.id <= log[i].msg.id

Types == TypeOK /\ log \in Seq(Event) /\ tab \in [Tabs -> Tab]
LiveInv ==
    /\ Types /\ RowsOK /\ Asked /\ TabsOK /\ Ordered /\ Once
    /\ OneSlotEach => ByAuthor

-----------------------------------------------------------------------------
(* What a step does to the slots.                                          *)
Frame(h) == \A g \in Slots \ {h} : req'[g] = req[g]
Still(h) == Pend(h)' => Pend(h) /\ req'[h].msg = req[h].msg
Calm == last' = last /\ rows' \subseteq rows /\ \A h \in Slots : Still(h)

LEMMA TabsAreSlots == Tabs \subseteq Slots
BY LiveAssumption DEF Tabs, Slots

LEMMA GoSocket ==
    ASSUME TypeOK, NEW h \in Slots, NEW s, Go(h, s)
    PROVE  req'[h].socket = req[h].socket
BY DEF TypeOK, Go, Request

LEMMA FinishCalm ==
    ASSUME TypeOK, NEW h \in Slots, Finish(h)
    PROVE  Frame(h) /\ Still(h) /\ req'[h] = Idle /\ ~Pend(h)'
<1>1. req'[h] = Idle /\ Frame(h)
  BY DEF TypeOK, Finish, Frame
<1>2. Idle.at = "idle"
  BY DEF Idle
<1> QED
  BY <1>1, <1>2 DEF Still, Pend

LEMMA BeginCalm ==
    ASSUME TypeOK, NEW h \in Slots, NEW s \in {"mark", "insert"}, NEW r \in Rooms,
           NEW ws \in BOOLEAN, Begin(h, s, r, ws)
    PROVE  /\ Frame(h) /\ Still(h) /\ req'[h].at = s /\ req'[h].socket = ws
           /\ UNCHANGED <<tables, caches>>
<1> DEFINE q == [Idle EXCEPT !.at = s, !.room = {r}, !.socket = ws]
<1>1. q.at = s /\ q.socket = ws
  BY DEF Idle
<1>2. req' = [req EXCEPT ![h] = q] /\ UNCHANGED <<tables, caches>>
  BY DEF Begin
<1> HIDE DEF q
<1>3. req'[h] = q /\ Frame(h)
  BY <1>2 DEF TypeOK, Frame
<1> QED
  BY <1>1, <1>2, <1>3 DEF Still, Pend

LEMMA GoCalm ==
    ASSUME TypeOK, NEW h \in Slots, NEW s \in Viewing, Go(h, s)
    PROVE  Frame(h) /\ Still(h) /\ req'[h].at \in Viewing /\ req'[h].socket = req[h].socket
<1>1. s \in Steps
  BY DEF Steps
<1>2. Frame(h) /\ req'[h].at = s
  BY <1>1, GoTyped DEF Frame
<1>3. s \notin {"stamp", "announce"}
  BY DEF Viewing
<1> QED
  BY <1>2, <1>3, GoSocket DEF Still, Pend

LEMMA PageCalm ==
    ASSUME TypeOK, NEW h \in Slots, NEW s \in Viewing, NEW p \in SUBSET SUBSET Message,
           SetPage(h, s, p)
    PROVE  Frame(h) /\ Still(h) /\ req'[h].at \in Viewing /\ req'[h].socket = req[h].socket
<1>1. s \in Steps
  BY DEF Steps
<1>2. Frame(h) /\ req'[h].at = s
  BY <1>1, PageTyped DEF Frame
<1>3. s \notin {"stamp", "announce"}
  BY DEF Viewing
<1>4. req'[h].socket = req[h].socket
  BY DEF TypeOK, SetPage, Request
<1> QED
  BY <1>2, <1>3, <1>4 DEF Still, Pend

LEMMA FrameCalm ==
    ASSUME NEW h \in Slots, Frame(h), Still(h)
    PROVE  \A g \in Slots : Still(g)
BY DEF Frame, Still, Pend

(* The request for the page.                                               *)
LEMMA ViewingCalm ==
    ASSUME TypeOK, RowsOK, NEW h \in Slots, Mark(h) \/ History(h)
    PROVE  /\ Frame(h) /\ Calm /\ req[h].at \in Viewing
           /\ req'[h].at \in Viewing /\ req'[h].socket = req[h].socket
<1> "history" \in Viewing /\ "select" \in Viewing /\ "fill" \in Viewing /\ "counts" \in Viewing
  BY DEF Viewing
<1>0. UNCHANGED <<rows, last>> /\ req[h].at \in Viewing
  BY DEF Mark, History, LookHistory, SelectHistory, FillHistory, tables, At, Viewing
<1>1. Frame(h) /\ Still(h) /\ req'[h].at \in Viewing /\ req'[h].socket = req[h].socket
  <2>1. CASE Mark(h) \/ FillHistory(h)
    BY <2>1, GoCalm DEF Mark, FillHistory
  <2>2. CASE SelectHistory(h)
    <3>1. PICK r \in req[h].room : SetPage(h, "fill", {Newest(InRoom(r))})
      BY <2>2 DEF SelectHistory, SetPage
    <3>2. {Newest(InRoom(r))} \in SUBSET SUBSET Message
      BY ByTyping, NewestHonest
    <3> QED
      BY <3>1, <3>2, PageCalm
  <2>3. ASSUME NEW bypass \in BOOLEAN, LookHistory(h, bypass)
        PROVE  Frame(h) /\ Still(h) /\ req'[h].at \in Viewing /\ req'[h].socket = req[h].socket
    <3>1. PICK r \in req[h].room :
            Go(h, "select") \/ SetPage(h, "counts", chat_messages_by_room[r])
      BY <2>3 DEF LookHistory, SetPage
    <3>2. chat_messages_by_room[r] \in SUBSET SUBSET Message
      BY ByTyping DEF TypeOK
    <3> QED
      BY <3>1, <3>2, PageCalm, GoCalm
  <2> QED
    BY <2>1, <2>2, <2>3 DEF History
<1> QED
  BY <1>0, <1>1, FrameCalm DEF Calm

LEMMA StampCalm ==
    ASSUME TypeOK, NEW h \in Slots, Stamp(h)
    PROVE  Frame(h) /\ Calm
<1>1. CASE Finish(h)
  BY <1>1, FinishCalm, FrameCalm DEF Stamp, Calm, tables
<1>2. CASE Go(h, "announce")
  <2>1. "announce" \in Steps
    BY DEF Steps, Posting
  <2>2. Frame(h) /\ req'[h].msg = req[h].msg
    BY <1>2, <2>1, GoTyped DEF Frame
  <2>3. Still(h)
    BY <2>2 DEF Still, Pend, Stamp, At
  <2> QED
    BY <2>2, <2>3, FrameCalm DEF Stamp, Calm, tables
<1> QED
  BY <1>1, <1>2 DEF Stamp

-----------------------------------------------------------------------------
(* Every step stores a message, publishes one, or is quiet: it may publish *)
(* another event, move one tab or close all.                               *)
Stored(h) ==
    /\ At(h, "insert") /\ Frame(h) /\ UNCHANGED live
    /\ last' = last + 1 /\ last' \in 0..MaxId
    /\ \E m \in Message : /\ m.id = last + 1 /\ m.by = Caller[h]
                          /\ rows' = rows \cup {m} /\ req'[h].msg = {m}
Spread(h) ==
    /\ At(h, "announce") /\ Frame(h) /\ ~Pend(h)' /\ Calm
    /\ \E m \in req[h].msg : Publish([kind |-> "message", msg |-> m])
    /\ tab' = tab
Moved(t, d) ==
    \/ d = Closed
    \/ Is(t, "closed") /\ \E r \in Rooms : d = [Closed EXCEPT !.is = "asked", !.room = {r}]
    \/ Is(t, "asked") /\ d = [tab[t] EXCEPT !.is = "shown", !.old = UNION req[t].page]
    \/ Is(t, "shown") /\ d = [tab[t] EXCEPT !.is = "deaf", !.since = Len(log), !.pos = Len(log)]
    \/ Is(t, "deaf") /\ d = [tab[t] EXCEPT !.is = "live"]
    \/ /\ tab[t].is \in {"deaf", "live"}
       /\ \E p \in tab[t].pos..Len(log) : d = [tab[t] EXCEPT !.pos = p]
    \/ /\ Is(t, "live") /\ tab[t].pos < Len(log) /\ Shown(t, log[tab[t].pos + 1])
       /\ d = [tab[t] EXCEPT !.pos = tab[t].pos + 1, !.new = Append(@, tab[t].pos + 1)]
TabMove(t) == \E d \in Tab : tab' = [tab EXCEPT ![t] = d] /\ Moved(t, d)
Other == \E e \in Event : e.kind # "message" /\ log' = Append(log, e)
Quiet ==
    /\ Calm
    /\ \/ tab' = tab /\ (log' = log \/ Other)
       \/ log' = log /\ ((\E t \in Tabs : TabMove(t)) \/ tab' = [t \in Tabs |-> Closed])
Shape == [Next]_vars /\ Asked' /\ (Quiet \/ \E h \in Slots : Stored(h) \/ Spread(h))

LEMMA AskedStays ==
    ASSUME Asked, NEW h \in Slots, Frame(h),
           \A t \in Tabs \ {h} : tab'[t] = tab[t],
           h \in Tabs => \/ tab'[h].is # "asked"
                         \/ req'[h].at \in Viewing /\ ~req'[h].socket
    PROVE  Asked'
BY TabsAreSlots DEF Asked, Frame, Is

LEMMA StoreShape ==
    ASSUME Types, RowsOK, Asked, NEW h \in Slots, Store(h)
    PROVE  Shape
<1>1. TypeOK /\ UNCHANGED live
  BY DEF Types, Store
<1>2. h \in Tabs => tab'[h].is # "asked"
  BY <1>1 DEF Asked, Is, Store, Insert, Stamp, At, Viewing, live
<1>3. Next
  BY DEF Next, Work, Store
<1>4. CASE Stamp(h)
  <2>1. Frame(h) /\ Calm
    BY <1>1, <1>4, StampCalm
  <2> QED
    BY <1>1, <1>2, <1>3, <2>1, AskedStays DEF Shape, Quiet, live
<1>5. CASE Insert(h)
  <2>1. CASE Finish(h) /\ UNCHANGED <<rows, last>>
    <3>1. Frame(h) /\ Calm
      BY <1>1, <2>1, FinishCalm, FrameCalm DEF Calm
    <3> QED
      BY <1>1, <1>2, <1>3, <3>1, AskedStays DEF Shape, Quiet, live
  <2>2. CASE ~(Finish(h) /\ UNCHANGED <<rows, last>>)
    <3> DEFINE m(r) == [id |-> last + 1, room |-> r, by |-> Caller[h]]
    <3>1. PICK r \in req[h].room :
            /\ rows' = rows \cup {m(r)} /\ last' = last + 1 /\ last < MaxId
            /\ SetMsg(h, "stamp", {m(r)})
      BY <1>5, <2>2 DEF Insert, SetMsg
    <3>2. last \in 0..MaxId /\ MaxId \in Nat
      BY <1>1, BoundsAssumption DEF TypeOK
    <3>3. last' \in 0..MaxId /\ last + 1 \in Ids
      BY <3>1, <3>2 DEF Ids
    <3>4. m(r) \in Message /\ m(r).id = last + 1 /\ m(r).by = Caller[h]
      BY <1>1, <3>3, ByTyping DEF Message
    <3> HIDE DEF m
    <3>5. "stamp" \in Steps /\ {m(r)} \in SUBSET Message
      BY <3>4 DEF Steps, Posting
    <3>6. Frame(h) /\ req'[h].msg = {m(r)}
      BY <1>1, <3>1, <3>5, MsgTyped DEF Frame
    <3>7. Stored(h)
      BY <1>1, <1>5, <3>1, <3>3, <3>4, <3>6 DEF Stored, Insert
    <3>8. Asked'
      BY <1>1, <1>2, <3>6, AskedStays DEF live
    <3> QED
      BY <1>3, <3>7, <3>8 DEF Shape
  <2> QED
    BY <2>1, <2>2
<1> QED
  BY <1>4, <1>5 DEF Store

LEMMA BroadcastShape ==
    ASSUME Types, Asked, NEW h \in Slots, Broadcast(h)
    PROVE  Shape
<1>1. TypeOK /\ Announce(h) /\ tab' = tab
  BY DEF Types, Broadcast
<1>2. h \in Tabs => tab'[h].is # "asked"
  BY <1>1 DEF Asked, Is, Announce, At, Viewing
<1>3. Next
  BY <1>1 DEF Next, Work
<1>4. Frame(h) /\ Still(h) /\ ~Pend(h)' /\ UNCHANGED <<rows, last>>
  BY <1>1, FinishCalm DEF Announce, tables
<1>5. Calm
  BY <1>4, FrameCalm DEF Calm
<1>6. Spread(h)
  BY <1>1, <1>4, <1>5 DEF Spread, Broadcast, Announce
<1>7. Asked'
  BY <1>1, <1>2, <1>4, AskedStays
<1> QED
  BY <1>3, <1>6, <1>7 DEF Shape

LEMMA PostShape ==
    ASSUME Types, Asked, NEW h \in Slots, NEW r \in Rooms, NEW ws \in BOOLEAN, Post(h, r, ws),
           h \in Tabs => ~Is(h, "asked"), UNCHANGED live
    PROVE  Shape
<1>1. TypeOK /\ Begin(h, "insert", r, ws)
  BY DEF Types, Post
<1>2. Frame(h) /\ Still(h) /\ UNCHANGED <<rows, last>>
  BY <1>1, BeginCalm DEF tables
<1>3. Calm
  BY <1>2, FrameCalm DEF Calm
<1>4. Asked'
  BY <1>2, AskedStays DEF live, Is
<1>5. Next
  BY DEF Next
<1> QED
  BY <1>3, <1>4, <1>5 DEF Shape, Quiet, live

LEMMA LoadShape ==
    ASSUME Types, RowsOK, Asked, NEW t \in Tabs, Load(t)
    PROVE  Shape
<1>1. TypeOK /\ t \in Slots /\ UNCHANGED live
  BY TabsAreSlots DEF Types, Load
<1>2. CASE Mark(t) \/ History(t)
  <2>1. Frame(t) /\ Calm /\ req'[t].at \in Viewing /\ req'[t].socket = req[t].socket
    BY <1>1, <1>2, ViewingCalm
  <2>2. Asked'
    BY <1>1, <2>1, AskedStays DEF live, Asked, Is
  <2>3. Next
    BY <1>1, <1>2 DEF Next, Work
  <2> QED
    BY <1>1, <2>1, <2>2, <2>3 DEF Shape, Quiet, live
<1>3. CASE Is(t, "closed") /\ Drop(t)
  <2>1. Frame(t) /\ Still(t) /\ UNCHANGED <<rows, last>>
    BY <1>1, <1>3, FinishCalm DEF Drop, tables
  <2>2. Calm
    BY <1>1, <2>1, FrameCalm DEF Calm
  <2>3. Asked'
    BY <1>1, <1>3, <2>1, AskedStays DEF live, Is
  <2>4. Next
    BY <1>1, <1>3 DEF Next
  <2> QED
    BY <1>1, <2>2, <2>3, <2>4 DEF Shape, Quiet, live
<1> QED
  BY <1>2, <1>3 DEF Load

(* One tab moves and no request but its own.                               *)
LEMMA MoveShape ==
    ASSUME Types, Asked, NEW t \in Tabs, NEW d \in Tab,
           tab' = [tab EXCEPT ![t] = d], Moved(t, d), log' = log,
           Frame(t), Still(t), UNCHANGED <<rows, last>>, [Next]_vars,
           d.is = "asked" => req'[t].at \in Viewing /\ ~req'[t].socket
    PROVE  Shape
<1>1. t \in Slots /\ TabMove(t) /\ Calm
  BY TabsAreSlots, FrameCalm DEF TabMove, Calm
<1>2. tab'[t] = d /\ \A u \in Tabs \ {t} : tab'[u] = tab[u]
  BY DEF Types
<1>3. Asked'
  BY <1>1, <1>2, AskedStays
<1> QED
  BY <1>1, <1>3 DEF Shape, Quiet

LEMMA AskShape ==
    ASSUME Types, Asked, TabsOK, NEW t \in Tabs, NEW r \in Rooms, Ask(t, r)
    PROVE  Shape
<1>1. TypeOK /\ t \in Slots /\ Begin(t, "mark", r, FALSE) /\ Is(t, "closed")
  BY TabsAreSlots DEF Types, Ask, View
<1>2. /\ Frame(t) /\ Still(t) /\ UNCHANGED <<rows, last>>
      /\ req'[t].at \in Viewing /\ ~req'[t].socket
  BY <1>1, BeginCalm DEF tables, Viewing
<1> DEFINE d == [Closed EXCEPT !.is = "asked", !.room = {r}]
<1>3. tab[t] = Closed
  BY <1>1 DEF TabsOK, TabOK, Is
<1>4. tab' = [tab EXCEPT ![t] = d] /\ log' = log
  BY <1>3 DEF Ask
<1>5. d \in Tab
  <2>1. Closed \in Tab /\ {r} \in SUBSET Rooms
    BY DEF Tab, Closed
  <2> QED
    BY <2>1 DEF Tab
<1>6. Moved(t, d)
  BY <1>1 DEF Moved
<1>7. Next
  BY <1>1 DEF Next, Ask
<1> HIDE DEF d
<1> QED
  BY <1>2, <1>4, <1>5, <1>6, <1>7, MoveShape

LEMMA RenderShape ==
    ASSUME Types, Asked, NEW t \in Tabs, Render(t)
    PROVE  Shape
<1>1. /\ TypeOK /\ t \in Slots /\ Is(t, "asked") /\ At(t, "counts") /\ Finish(t)
      /\ UNCHANGED <<tables, caches>> /\ log' = log
  BY TabsAreSlots DEF Types, Render
<1>2. Frame(t) /\ Still(t)
  BY <1>1, FinishCalm
<1> DEFINE d == [tab[t] EXCEPT !.is = "shown", !.old = UNION req[t].page]
<1>3. tab' = [tab EXCEPT ![t] = d]
  BY DEF Render
<1>4. d \in Tab /\ d.is = "shown"
  <2>1. UNION req[t].page \subseteq Message /\ tab[t] \in Tab
    BY <1>1, ByTyping DEF Types
  <2> QED
    BY <2>1 DEF Tab
<1>5. Moved(t, d)
  BY <1>1 DEF Moved
<1>6. Next
  <2>1. Drop(t)
    BY <1>1 DEF Drop, Asked, At
  <2> QED
    BY <1>1, <2>1 DEF Next
<1> HIDE DEF d
<1> QED
  BY <1>1, <1>2, <1>3, <1>4, <1>5, <1>6, MoveShape DEF tables

LEMMA LeaveShape ==
    ASSUME Types, Asked, NEW t \in Tabs, Leave(t)
    PROVE  Shape
<1>1. /\ TypeOK /\ t \in Slots /\ UNCHANGED <<tables, caches>> /\ log' = log
      /\ tab' = [tab EXCEPT ![t] = Closed]
  BY TabsAreSlots DEF Types, Leave
<1>2. Closed \in Tab /\ Moved(t, Closed) /\ Closed.is = "closed"
  BY DEF Closed, Tab, Moved
<1>3. CASE Is(t, "asked")
  <2>1. Finish(t)
    BY <1>3 DEF Leave
  <2>2. Frame(t) /\ Still(t)
    BY <1>1, <2>1, FinishCalm
  <2>3. Drop(t)
    BY <1>1, <1>3, <2>1 DEF Drop, Asked, At, Viewing
  <2>4. Next
    BY <1>1, <2>3 DEF Next
  <2> QED
    BY <1>1, <1>2, <2>2, <2>4, MoveShape DEF tables
<1>4. CASE ~Is(t, "asked")
  <2>1. UNCHANGED req
    BY <1>4 DEF Leave
  <2>2. Frame(t) /\ Still(t) /\ UNCHANGED vars
    BY <1>1, <2>1 DEF Frame, Still, Pend, vars, tables, caches
  <2> QED
    BY <1>1, <1>2, <2>2, MoveShape DEF tables
<1> QED
  BY <1>3, <1>4

(* The page and its socket, which leave the requests alone.                *)
LEMMA SocketShape ==
    ASSUME Types, Asked, NEW t \in Tabs, NEW d \in Tab, d.is # "asked",
           tab' = [tab EXCEPT ![t] = d], Moved(t, d), UNCHANGED <<vars, log>>
    PROVE  Shape
<1>1. Frame(t) /\ Still(t) /\ UNCHANGED <<rows, last>> /\ UNCHANGED vars
  BY DEF Frame, Still, Pend, vars
<1> QED
  BY <1>1, MoveShape

LEMMA PageShape ==
    ASSUME Types, Asked, TabsOK, NEW t \in Tabs,
           Connect(t) \/ Listen(t) \/ Receive(t) \/ Lag(t)
    PROVE  Shape
<1>0. UNCHANGED <<vars, log>> /\ tab[t] \in Tab /\ Len(log) \in Nat
  BY DEF Connect, Listen, Receive, Lag, Types
<1>1. tab[t].pos \in Nat /\ tab[t].since \in Nat /\ tab[t].new \in Seq(Nat)
  BY <1>0 DEF Tab
<1>2. CASE Connect(t)
  <2> DEFINE d == [tab[t] EXCEPT !.is = "deaf", !.since = Len(log), !.pos = Len(log)]
  <2>1. tab' = [tab EXCEPT ![t] = d] /\ Moved(t, d)
    BY <1>2 DEF Connect, Moved
  <2>2. d \in Tab /\ d.is # "asked"
    BY <1>0 DEF Tab
  <2> HIDE DEF d
  <2> QED
    BY <1>0, <2>1, <2>2, SocketShape
<1>3. CASE Listen(t)
  <2> DEFINE d == [tab[t] EXCEPT !.is = "live"]
  <2>1. tab' = [tab EXCEPT ![t] = d] /\ Moved(t, d)
    BY <1>3 DEF Listen, Moved
  <2>2. d \in Tab /\ d.is # "asked"
    BY <1>0 DEF Tab
  <2> HIDE DEF d
  <2> QED
    BY <1>0, <2>1, <2>2, SocketShape
<1>4. ASSUME NEW p \in tab[t].pos..Len(log), tab[t].is \in {"deaf", "live"},
             tab' = [tab EXCEPT ![t] = [tab[t] EXCEPT !.pos = p]]
      PROVE  Shape
  <2> DEFINE d == [tab[t] EXCEPT !.pos = p]
  <2>1. tab' = [tab EXCEPT ![t] = d] /\ Moved(t, d)
    BY <1>4 DEF Moved
  <2>2. d \in Tab /\ d.is # "asked"
    BY <1>0, <1>1, <1>4 DEF Tab
  <2> HIDE DEF d
  <2> QED
    BY <1>0, <2>1, <2>2, SocketShape
<1>5. CASE Lag(t)
  <2>1. Capacity \in Nat /\ Len(log) - Capacity \in tab[t].pos..Len(log)
    BY <1>0, <1>1, <1>5, LiveAssumption DEF Lag, Lagging
  <2>2. tab' = [tab EXCEPT ![t] = [tab[t] EXCEPT !.pos = Len(log) - Capacity]]
    BY <1>5 DEF Lag
  <2>3. tab[t].is \in {"deaf", "live"}
    BY <1>5 DEF Lag
  <2> QED
    BY <1>4, <2>1, <2>2, <2>3
<1>6. CASE Receive(t)
  <2> DEFINE next == tab[t].pos + 1
  <2>1. next \in tab[t].pos..Len(log) /\ tab[t].is \in {"deaf", "live"} /\ tab[t].pos < Len(log)
    BY <1>0, <1>1, <1>6 DEF Receive
  <2>2. CASE Is(t, "live") /\ Reloads(t, log[next])
    <3>1. tab' = [tab EXCEPT ![t] = Closed]
      BY <1>6, <2>2 DEF Receive
    <3>2. Closed \in Tab /\ Moved(t, Closed) /\ Closed.is # "asked"
      BY DEF Closed, Tab, Moved
    <3> QED
      BY <1>0, <3>1, <3>2, SocketShape
  <2>3. CASE ~(Is(t, "live") /\ Reloads(t, log[next])) /\ Is(t, "live") /\ Shown(t, log[next])
    <3> DEFINE d == [tab[t] EXCEPT !.pos = next, !.new = Append(@, next)]
    <3>1. tab' = [tab EXCEPT ![t] = d]
      BY <1>6, <2>3 DEF Receive
    <3>2. Moved(t, d)
      BY <2>1, <2>3 DEF Moved
    <3>3. Append(tab[t].new, next) \in Seq(Nat) /\ next \in Nat
      BY <1>1
    <3>4. d \in Tab /\ d.is # "asked"
      BY <1>0, <2>1, <3>3 DEF Tab
    <3> HIDE DEF d
    <3> QED
      BY <1>0, <3>1, <3>2, <3>4, SocketShape
  <2>4. CASE /\ ~(Is(t, "live") /\ Reloads(t, log[next]))
             /\ ~(Is(t, "live") /\ Shown(t, log[next]))
    <3>1. tab' = [tab EXCEPT ![t] = [tab[t] EXCEPT !.pos = next]]
      BY <1>6, <2>4 DEF Receive
    <3> QED
      BY <1>4, <2>1, <3>1
  <2> QED
    BY <2>2, <2>3, <2>4
<1> QED
  BY <1>2, <1>3, <1>5, <1>6

LEMMA OtherShape ==
    ASSUME Types, Asked, NEW e \in Event, e.kind # "message", Publish(e), UNCHANGED <<vars, tab>>
    PROVE  Shape
<1>1. Calm /\ UNCHANGED vars /\ tab' = tab
  BY DEF Calm, Still, Pend, vars
<1>2. Other
  BY DEF Other, Publish
<1>3. Asked'
  BY DEF Asked, Is, vars
<1> QED
  BY <1>1, <1>2, <1>3 DEF Shape, Quiet

LEMMA TablesShape ==
    ASSUME Types, Asked, UNCHANGED <<live, req, last>>, rows' \subseteq rows, [Next]_vars
    PROVE  Shape
<1>1. Calm
  BY DEF Calm, Still, Pend
<1>2. Asked'
  BY DEF Asked, Is, live
<1> QED
  BY <1>1, <1>2 DEF Shape, Quiet, live

LEMMA RebootShape ==
    ASSUME Types, Reboot
    PROVE  Shape
<1>1. Restart /\ tab' = [t \in Tabs |-> Closed] /\ log' = log
  BY DEF Reboot
<1>2. UNCHANGED tables /\ \A h \in Slots : req'[h] = Idle
  BY <1>1 DEF Restart
<1>3. Idle.at = "idle" /\ Closed.is = "closed"
  BY DEF Idle, Closed
<1>4. Calm
  BY <1>2, <1>3 DEF Calm, Still, Pend, tables
<1>5. Asked'
  BY <1>1, <1>3 DEF Asked, Is
<1>6. Next
  BY <1>1 DEF Next
<1> QED
  BY <1>1, <1>4, <1>5, <1>6 DEF Shape, Quiet

LEMMA LiveShape ==
    ASSUME Types, RowsOK, Asked, TabsOK, [LiveNext]_<<vars, live>>
    PROVE  Shape
<1>1. CASE UNCHANGED <<vars, live>>
  <2>1. UNCHANGED <<live, req, last>> /\ rows' \subseteq rows /\ [Next]_vars
    BY <1>1 DEF vars
  <2> QED
    BY <2>1, TablesShape
<1>2. ASSUME NEW h \in Slots, Store(h) \/ Broadcast(h) \/ \E r \in Rooms : SendElsewhere(h, r)
      PROVE  Shape
  <2>1. ASSUME NEW r \in Rooms, SendElsewhere(h, r) PROVE Shape
    BY <2>1, PostShape DEF SendElsewhere
  <2> QED
    BY <1>2, <2>1, StoreShape, BroadcastShape
<1>3. ASSUME NEW t \in Tabs, Send(t) PROVE Shape
  <2>1. PICK r \in tab[t].room : Post(t, r, TRUE)
    BY <1>3 DEF Send
  <2>2. r \in Rooms /\ t \in Slots
    BY TabsAreSlots DEF Types, Tab
  <2>3. Is(t, "live") /\ UNCHANGED live
    BY <1>3 DEF Send
  <2>4. ~Is(t, "asked")
    BY <2>3 DEF Is
  <2> QED
    BY <2>1, <2>2, <2>3, <2>4, PostShape
<1>4. ASSUME NEW t \in Tabs, NEW r \in Rooms, Notify(t, r) PROVE Shape
  <2>1. Is(t, "closed") /\ Post(t, r, FALSE) /\ UNCHANGED live /\ t \in Slots
    BY <1>4, TabsAreSlots DEF Notify
  <2>2. ~Is(t, "asked")
    BY <2>1 DEF Is
  <2> QED
    BY <2>1, <2>2, PostShape
<1>5. ASSUME NEW t \in Tabs, Typing(t) PROVE Shape
  <2>1. PICK r \in tab[t].room : Publish([kind |-> "typing", room |-> r])
    BY <1>5 DEF Typing
  <2>2. r \in Rooms
    BY DEF Types, Tab
  <2>3. [kind |-> "typing", room |-> r] \in Event
    BY <2>2 DEF Event
  <2>4. UNCHANGED <<vars, tab>>
    BY <1>5 DEF Typing
  <2> QED
    BY <2>1, <2>3, <2>4, OtherShape
<1>6. ASSUME NEW u \in Users, RoomChange(u) PROVE Shape
  <2>1. [kind |-> "room_change", target |-> u] \in Event
    BY DEF Event
  <2> QED
    BY <1>6, <2>1, OtherShape DEF RoomChange
<1>7. ASSUME NEW u \in Users, DeleteUser(u), UNCHANGED live PROVE Shape
  <2>1. rows' \subseteq rows /\ UNCHANGED <<req, last>>
    BY <1>7 DEF DeleteUser
  <2>2. Next
    BY <1>7 DEF Next
  <2> QED
    BY <1>7, <2>1, <2>2, TablesShape
<1>8. ASSUME NEW r \in Rooms, ExpireHistory(r), UNCHANGED live PROVE Shape
  <2>1. rows' \subseteq rows /\ UNCHANGED <<req, last>>
    BY <1>8 DEF ExpireHistory, tables
  <2>2. Next
    BY <1>8 DEF Next
  <2> QED
    BY <1>8, <2>1, <2>2, TablesShape
<1>9. ASSUME NEW t \in Tabs,
             \/ Load(t) \/ Render(t) \/ Leave(t) \/ Connect(t) \/ Listen(t)
             \/ Receive(t) \/ Lag(t) \/ \E r \in Rooms : Ask(t, r)
      PROVE  Shape
  BY <1>9, LoadShape, RenderShape, LeaveShape, PageShape, AskShape
<1> QED
  BY <1>1, <1>2, <1>3, <1>4, <1>5, <1>6, <1>7, <1>8, <1>9, RebootShape DEF LiveNext

-----------------------------------------------------------------------------
(* The tabs.                                                               *)
LEMMA LongerLog ==
    ASSUME NEW lg \in Seq(Event), NEW e \in Event, NEW d, TabOK(d, lg), d \in Tab
    PROVE  TabOK(d, Append(lg, e))
<1>1. Len(lg) \in Nat /\ d.new \in Seq(Nat) /\ d.since \in Nat /\ d.pos \in Nat
  BY DEF Tab
<1>2. Len(Append(lg, e)) = Len(lg) + 1
  OBVIOUS
<1>3. \A j \in DOMAIN d.new : Append(lg, e)[d.new[j]] = lg[d.new[j]]
  <2>1. ASSUME NEW j \in DOMAIN d.new PROVE d.new[j] \in 1..Len(lg)
    BY <1>1 DEF TabOK
  <2> QED
    BY <2>1
<1> QED
  BY <1>1, <1>2, <1>3 DEF TabOK

LEMMA ClosedOK == ASSUME Types PROVE Closed \in Tab /\ TabOK(Closed, log)
BY DEF Closed, Tab, TabOK, Types

LEMMA MovedOK ==
    ASSUME Types, TabsOK, NEW t \in Tabs, NEW d \in Tab, Moved(t, d)
    PROVE  TabOK(d, log)
<1>0. TabOK(tab[t], log) /\ tab[t] \in Tab /\ Len(log) \in Nat
  BY DEF TabsOK, Types
<1>1. tab[t].new \in Seq(Nat) /\ tab[t].since \in Nat /\ tab[t].pos \in Nat
  BY <1>0 DEF Tab
<1>2. CASE d = Closed
  BY <1>2, ClosedOK
<1>3. ASSUME NEW r \in Rooms, d = [Closed EXCEPT !.is = "asked", !.room = {r}]
      PROVE  TabOK(d, log)
  <2>1. /\ d.is = "asked" /\ d.room = {r} /\ d.old = {} /\ d.since = 0
        /\ d.new = << >> /\ d.pos = 0
    BY <1>3 DEF Closed
  <2> QED
    BY <1>0, <2>1 DEF TabOK
<1>4. CASE Is(t, "asked") /\ d = [tab[t] EXCEPT !.is = "shown", !.old = UNION req[t].page]
  <2>1. /\ d.is = "shown" /\ d.room = tab[t].room /\ d.since = tab[t].since
        /\ d.new = tab[t].new /\ d.pos = tab[t].pos
    BY <1>0, <1>4 DEF Tab
  <2> QED
    BY <1>0, <1>4, <2>1, Zenon DEF TabOK, Is
<1>5. CASE /\ Is(t, "shown")
           /\ d = [tab[t] EXCEPT !.is = "deaf", !.since = Len(log), !.pos = Len(log)]
  <2>1. /\ d.is = "deaf" /\ d.room = tab[t].room /\ d.since = Len(log)
        /\ d.new = << >> /\ d.pos = Len(log)
    BY <1>0, <1>5 DEF Tab, TabOK, Is
  <2>2. tab[t].is # "closed"
    BY <1>5 DEF Is
  <2> QED
    BY <1>0, <2>1, <2>2 DEF TabOK
<1>6. CASE Is(t, "deaf") /\ d = [tab[t] EXCEPT !.is = "live"]
  <2>1. /\ d.is = "live" /\ d.room = tab[t].room /\ d.since = tab[t].since
        /\ d.new = tab[t].new /\ d.pos = tab[t].pos
    BY <1>0, <1>6 DEF Tab
  <2> QED
    BY <1>0, <1>6, <2>1, Zenon DEF TabOK, Is
<1>7. ASSUME tab[t].is \in {"deaf", "live"}, NEW p \in tab[t].pos..Len(log),
             d = [tab[t] EXCEPT !.pos = p]
      PROVE  TabOK(d, log)
  <2>1. /\ d.is = tab[t].is /\ d.room = tab[t].room /\ d.since = tab[t].since
        /\ d.new = tab[t].new /\ d.pos = p
    BY <1>0, <1>7 DEF Tab
  <2>2. \A j \in DOMAIN d.new : d.new[j] \in Nat
    BY <1>1, <2>1
  <2> QED
    BY <1>0, <1>1, <1>7, <2>1, <2>2 DEF TabOK
<1>8. CASE /\ Is(t, "live") /\ tab[t].pos < Len(log) /\ Shown(t, log[tab[t].pos + 1])
           /\ d = [tab[t] EXCEPT !.pos = tab[t].pos + 1, !.new = Append(@, tab[t].pos + 1)]
  <2> DEFINE next == tab[t].pos + 1
  <2>1. /\ d.is = "live" /\ d.room = tab[t].room /\ d.since = tab[t].since
        /\ d.new = Append(tab[t].new, next) /\ d.pos = next
    BY <1>0, <1>8 DEF Tab, Is
  <2>2. tab[t].is # "closed" /\ log[next].kind = "message"
    BY <1>8 DEF Is, Shown
  <2>3. DOMAIN d.new = 1..(Len(tab[t].new) + 1) /\ Len(tab[t].new) \in Nat
    BY <1>1, <2>1
  <2>4. \A j \in DOMAIN d.new : \/ j \in DOMAIN tab[t].new /\ d.new[j] = tab[t].new[j]
                                \/ j = Len(tab[t].new) + 1 /\ d.new[j] = next
    BY <1>1, <2>1, <2>3
  <2>5. \A j \in DOMAIN tab[t].new : /\ j < Len(tab[t].new) + 1 /\ tab[t].new[j] \in Nat
                                     /\ tab[t].new[j] <= tab[t].pos
    BY <1>0, <1>1 DEF TabOK
  <2>a. next \in Nat /\ tab[t].pos < next /\ next <= Len(log) /\ tab[t].since <= tab[t].pos
    BY <1>0, <1>1, <1>8 DEF TabOK
  <2> HIDE DEF next
  <2>6. ASSUME NEW j \in DOMAIN d.new
        PROVE  d.since < d.new[j] /\ d.new[j] <= d.pos /\ log[d.new[j]].kind = "message"
    <3>1. CASE j \in DOMAIN tab[t].new /\ d.new[j] = tab[t].new[j]
      <4>1. /\ tab[t].since < tab[t].new[j] /\ tab[t].new[j] <= tab[t].pos
            /\ log[tab[t].new[j]].kind = "message" /\ tab[t].new[j] \in Nat
        BY <1>0, <2>5, <3>1 DEF TabOK
      <4> QED
        BY <1>1, <2>1, <2>a, <3>1, <4>1
    <3>2. CASE d.new[j] = next
      BY <1>1, <2>1, <2>2, <2>a, <3>2
    <3> QED
      BY <2>4, <3>1, <3>2
  <2>7. \A i, j \in DOMAIN d.new : i < j => d.new[i] < d.new[j]
    <3> SUFFICES ASSUME NEW i \in DOMAIN d.new, NEW j \in DOMAIN d.new, i < j
                 PROVE  d.new[i] < d.new[j]
      OBVIOUS
    <3>1. i \in Nat /\ j \in Nat /\ i \in DOMAIN tab[t].new /\ d.new[i] = tab[t].new[i]
      BY <1>1, <2>3, <2>4
    <3>2. CASE j \in DOMAIN tab[t].new /\ d.new[j] = tab[t].new[j]
      BY <1>0, <3>1, <3>2 DEF TabOK
    <3>3. CASE d.new[j] = next
      <4>1. tab[t].new[i] <= tab[t].pos /\ tab[t].new[i] \in Nat
        BY <2>5, <3>1
      <4> QED
        BY <1>1, <2>a, <3>1, <3>3, <4>1
    <3> QED
      BY <2>4, <3>2, <3>3
  <2>8. \E r \in Rooms : d.room = {r}
    BY <1>0, <2>1, <2>2 DEF TabOK
  <2>9. d.is # "closed" /\ d.is # "asked" /\ d.is # "shown"
    BY <2>1
  <2>10. d.since <= d.pos /\ d.pos <= Len(log)
    BY <1>1, <2>1, <2>a
  <2> QED
    BY <2>6, <2>7, <2>8, <2>9, <2>10 DEF TabOK
<1> QED
  BY <1>2, <1>3, <1>4, <1>5, <1>6, <1>7, <1>8 DEF Moved

(* The log grows at its end.                                               *)
LEMMA LogStep ==
    ASSUME Types, Shape
    PROVE  log' \in Seq(Event) /\ (log' = log \/ \E e \in Event : log' = Append(log, e))
<1>1. ASSUME NEW h \in Slots, Spread(h) PROVE \E e \in Event : log' = Append(log, e)
  <2>1. PICK m \in req[h].msg : log' = Append(log, [kind |-> "message", msg |-> m])
    BY <1>1 DEF Spread, Publish
  <2>2. m \in Message
    BY ByTyping DEF Types
  <2> QED
    BY <2>1, <2>2 DEF Event
<1>2. log' = log \/ \E e \in Event : log' = Append(log, e)
  BY <1>1 DEF Shape, Quiet, Stored, Other, live
<1> QED
  BY <1>2 DEF Types

LEMMA TabsStay ==
    ASSUME Types, TabsOK, Shape
    PROVE  tab' \in [Tabs -> Tab] /\ TabsOK'
<1>1. CASE tab' = tab
  <2>1. ASSUME NEW t \in Tabs PROVE TabOK(tab[t], log')
    <3>1. TabOK(tab[t], log) /\ tab[t] \in Tab /\ log \in Seq(Event)
      BY DEF TabsOK, Types
    <3> QED
      BY <3>1, LogStep, LongerLog
  <2> QED
    BY <1>1, <2>1 DEF TabsOK, Types
<1>2. ASSUME NEW t \in Tabs, TabMove(t), log' = log PROVE tab' \in [Tabs -> Tab] /\ TabsOK'
  <2>1. PICK d \in Tab : tab' = [tab EXCEPT ![t] = d] /\ Moved(t, d)
    BY <1>2 DEF TabMove
  <2>2. TabOK(d, log)
    BY <2>1, MovedOK
  <2>3. tab' \in [Tabs -> Tab] /\ tab'[t] = d /\ \A u \in Tabs \ {t} : tab'[u] = tab[u]
    BY <2>1 DEF Types
  <2> QED
    BY <1>2, <2>2, <2>3 DEF TabsOK
<1>3. CASE log' = log /\ tab' = [t \in Tabs |-> Closed]
  BY <1>3, ClosedOK DEF TabsOK
<1> QED
  BY <1>1, <1>2, <1>3 DEF Shape, Quiet, Stored, Spread, live

-----------------------------------------------------------------------------
(* A message that is not in the tables spreads by copies only.             *)
LEMMA OldPages ==
    ASSUME Types, Shape, NEW t \in Tabs
    PROVE  \A x \in tab'[t].old : x \in tab[t].old \/ \E s \in req[t].page : x \in s
<1>1. Closed.old = {} /\ tab[t] \in Tab
  BY DEF Closed, Types
<1>2. ASSUME NEW u \in Tabs, TabMove(u)
      PROVE  \A x \in tab'[t].old : x \in tab[t].old \/ \E s \in req[t].page : x \in s
  <2>1. PICK d \in Tab : tab' = [tab EXCEPT ![u] = d] /\ Moved(u, d)
    BY <1>2 DEF TabMove
  <2>2. CASE t = u
    <3>1. tab'[t] = d
      BY <2>1, <2>2 DEF Types
    <3>2. d.old = {} \/ d.old = tab[t].old \/ d.old = UNION req[t].page
      BY <1>1, <2>1, <2>2 DEF Moved, Tab, Closed
    <3> QED
      BY <3>1, <3>2
  <2>3. CASE t # u
    BY <2>1, <2>3 DEF Types
  <2> QED
    BY <2>2, <2>3
<1>3. tab' = tab \/ (\E u \in Tabs : TabMove(u)) \/ tab' = [u \in Tabs |-> Closed]
  BY DEF Shape, Quiet, Stored, Spread, live
<1> QED
  BY <1>1, <1>2, <1>3

LEMMA KnownStep ==
    ASSUME Types, RowsOK, Shape
    PROVE  \A x \in Known' : x \in Known \/ x \in rows'
<1>0. TypeOK
  BY DEF Types
<1>1. /\ \A h \in Slots : SlotStep(h) \/ (req'[h] = Idle)
      /\ \A r \in Rooms :
           \/ chat_messages_by_room'[r] \subseteq chat_messages_by_room[r]
           \/ \E h \in Slots : r \in req[h].room /\ chat_messages_by_room'[r] = req[h].page
  BY <1>0, StepShape DEF Shape
<1>2. \A h \in Slots : \A s \in req[h].page : \A x \in s : x \in Known
  BY <1>0, ByTyping DEF Known, Holds
<1>3. \A r \in Rooms : \A s \in chat_messages_by_room[r] : \A x \in s : x \in Known
  BY <1>0 DEF Known, Holds, TypeOK
<1>4. ASSUME NEW r \in Rooms, NEW s \in chat_messages_by_room'[r], NEW x \in s
      PROVE  x \in Known
  BY <1>1, <1>2, <1>3, <1>4
<1>5. ASSUME NEW h \in Slots, NEW s \in req'[h].page, NEW x \in s
      PROVE  x \in Known
  <2>1. Idle.page = {}
    BY DEF Idle
  <2>2. CASE s \in req[h].page
    BY <1>2, <1>5, <2>2
  <2>3. CASE s \notin req[h].page
    <3>1. \E r \in req[h].room : req'[h].page \in {chat_messages_by_room[r], {Newest(InRoom(r))}}
      BY <1>1, <1>5, <2>1, <2>3 DEF SlotStep, Keeps
    <3>2. PICK r \in Rooms : req'[h].page \in {chat_messages_by_room[r], {Newest(InRoom(r))}}
      BY <1>0, <3>1, ByTyping
    <3>3. s \in chat_messages_by_room[r] \/ s = Newest(InRoom(r))
      BY <1>5, <3>2
    <3>4. Newest(InRoom(r)) \subseteq rows
      BY DEF Newest, InRoom
    <3> QED
      BY <1>0, <1>3, <1>5, <3>3, <3>4 DEF Known, Holds, TypeOK
  <2> QED
    BY <2>2, <2>3
<1>6. ASSUME NEW t \in Tabs, NEW x \in tab'[t].old
      PROVE  x \in Known
  <2>1. x \in tab[t].old \/ \E s \in req[t].page : x \in s
    BY <1>6, OldPages
  <2> QED
    BY <1>2, <2>1, TabsAreSlots DEF Known, Holds, Types, Tab
<1>7. ASSUME NEW x \in Known'
      PROVE  \/ x \in rows'
             \/ \E r \in Rooms : \E s \in chat_messages_by_room'[r] : x \in s
             \/ \E h \in Slots : \E s \in req'[h].page : x \in s
             \/ \E t \in Tabs : x \in tab'[t].old
  BY <1>7 DEF Known, Holds
<1> QED
  BY <1>4, <1>5, <1>6, <1>7

(* What is written stays, and only a publication adds to it.               *)
LEMMA WrittenSame ==
    ASSUME Types, Quiet \/ \E h \in Slots : Stored(h)
    PROVE  Written' = Written /\ \A i \in Written : log'[i] = log[i]
<1>1. CASE log' = log
  BY <1>1 DEF Written
<1>2. CASE Other
  <2>1. PICK e \in Event : e.kind # "message" /\ log' = Append(log, e)
    BY <1>2 DEF Other
  <2>2. /\ log \in Seq(Event) /\ Len(log) \in Nat /\ DOMAIN log = 1..Len(log)
        /\ DOMAIN log' = 1..(Len(log) + 1)
        /\ log'[Len(log) + 1] = e /\ \A i \in DOMAIN log : log'[i] = log[i]
    BY <2>1 DEF Types
  <2>3. \A i \in DOMAIN log' : i \in DOMAIN log \/ i = Len(log) + 1
    BY <2>2
  <2>4. \A i \in DOMAIN log : i \in DOMAIN log'
    BY <2>2
  <2>5. ASSUME NEW i \in Written' PROVE i \in Written
    <3>1. i \in DOMAIN log' /\ log'[i].kind = "message"
      BY <2>5 DEF Written
    <3> QED
      BY <2>1, <2>2, <2>3, <3>1 DEF Written
  <2>6. ASSUME NEW i \in Written PROVE i \in Written' /\ log'[i] = log[i]
    BY <2>2, <2>4, <2>6 DEF Written
  <2> QED
    BY <2>5, <2>6
<1> QED
  BY <1>1, <1>2 DEF Quiet, Stored, live

LEMMA WrittenMore ==
    ASSUME Types, NEW h \in Slots, Spread(h)
    PROVE  /\ Len(log) \in Nat /\ \A i \in Written : log'[i] = log[i] /\ i \in 1..Len(log)
           /\ \E m \in req[h].msg : /\ Written' = Written \cup {Len(log) + 1}
                                    /\ log'[Len(log) + 1] = [kind |-> "message", msg |-> m]
<1>1. PICK m \in req[h].msg : log' = Append(log, [kind |-> "message", msg |-> m])
  BY DEF Spread, Publish
<1> DEFINE e == [kind |-> "message", msg |-> m]
<1>2. m \in Message
  BY ByTyping DEF Types
<1>3. e \in Event /\ e.kind = "message"
  BY <1>2 DEF Event
<1>4. log' = Append(log, e)
  BY <1>1
<1> HIDE DEF e
<1>5. /\ log \in Seq(Event) /\ Len(log) \in Nat /\ DOMAIN log = 1..Len(log)
      /\ DOMAIN log' = 1..(Len(log) + 1)
      /\ log'[Len(log) + 1] = e /\ \A i \in DOMAIN log : log'[i] = log[i]
  BY <1>3, <1>4 DEF Types
<1>6. ASSUME NEW i \in Written' PROVE i \in Written \cup {Len(log) + 1}
  <2>1. i \in DOMAIN log' /\ log'[i].kind = "message"
    BY <1>6 DEF Written
  <2>2. i \in DOMAIN log \/ i = Len(log) + 1
    BY <1>5, <2>1
  <2> QED
    BY <1>5, <2>1, <2>2 DEF Written
<1>7. ASSUME NEW i \in Written PROVE i \in Written' /\ log'[i] = log[i] /\ i \in 1..Len(log)
  <2>1. i \in DOMAIN log /\ log[i].kind = "message"
    BY <1>7 DEF Written
  <2>2. i \in DOMAIN log' /\ log'[i] = log[i]
    BY <1>5, <2>1
  <2> QED
    BY <1>5, <2>1, <2>2 DEF Written
<1>8. Len(log) + 1 \in Written'
  <2>1. Len(log) + 1 \in DOMAIN log'
    BY <1>5
  <2> QED
    BY <1>3, <1>5, <2>1 DEF Written
<1>9. Written' = Written \cup {Len(log) + 1}
  BY <1>6, <1>7, <1>8
<1> QED
  BY <1>5, <1>7, <1>9 DEF e

(* The event at a position of a message is its message.                    *)
LEMMA WrittenTyped == ASSUME Types PROVE \A i \in Written : log[i].msg \in Message
<1>1. ASSUME NEW i \in Written PROVE log[i].msg \in Message
  <2>1. log[i] \in Event /\ log[i].kind = "message"
    BY DEF Types, Written
  <2> QED
    BY <2>1 DEF Event
<1> QED
  BY <1>1

-----------------------------------------------------------------------------
(* The numbers and authors the three invariants compare.                   *)
LEMMA Numbers ==
    ASSUME Types, Ordered
    PROVE  /\ last \in Nat /\ \A m \in Message : m.id \in Nat /\ m.by \in Users
           /\ \A i \in Written : log[i].msg.id \in Nat
           /\ \A h \in Slots : req[h].msg \subseteq Message
           /\ \A h \in Slots : Pend(h) => \A m \in req[h].msg : m.by = Caller[h] /\ m.id \in Nat
<1>1. last \in Nat /\ \A m \in Message : m.id \in Nat /\ m.by \in Users
  BY DEF Types, TypeOK, Message, Ids
<1>2. \A h \in Slots : req[h].msg \subseteq Message
  BY ByTyping DEF Types
<1> QED
  BY <1>1, <1>2, WrittenTyped DEF Ordered

(* After an insertion: the new message is the last, and only its slot      *)
(* changed.                                                                *)
LEMMA StoredEffect ==
    ASSUME Types, RowsOK, Shape, NEW h \in Slots, Stored(h)
    PROVE  \E m \in Message :
             /\ m.id = last + 1 /\ m.by = Caller[h] /\ last' = last + 1
             /\ req'[h].msg = {m}
             /\ \A x \in Known' : x \in Known \/ x = m
             /\ \A g \in Slots : g # h => req'[g] = req[g]
             /\ Written' = Written /\ \A i \in Written : log'[i] = log[i]
<1>1. PICK m \in Message : /\ m.id = last + 1 /\ m.by = Caller[h]
                           /\ rows' = rows \cup {m} /\ req'[h].msg = {m}
  BY DEF Stored
<1>2. rows \subseteq Known
  BY DEF Known, Holds, Types, TypeOK
<1>3. \A x \in Known' : x \in Known \/ x = m
  BY <1>1, <1>2, KnownStep
<1>4. Written' = Written /\ \A i \in Written : log'[i] = log[i]
  BY WrittenSame
<1> QED
  BY <1>1, <1>3, <1>4 DEF Stored, Frame

LEMMA CalmEffect ==
    ASSUME Types, RowsOK, Shape, Calm
    PROVE  /\ \A x \in Known' : x \in Known
           /\ \A g \in Slots : Pend(g)' => Pend(g) /\ req'[g].msg = req[g].msg
           /\ last' = last
<1>1. rows \subseteq Known /\ rows' \subseteq rows
  BY DEF Known, Holds, Types, TypeOK, Calm
<1> QED
  BY <1>1, KnownStep DEF Calm, Still

LEMMA OrderedStays ==
    ASSUME Types, RowsOK, Ordered, Shape
    PROVE  Ordered'
<1>1. ASSUME NEW h \in Slots, Stored(h) PROVE Ordered'
  <2>1. PICK m \in Message :
          /\ m.id = last + 1 /\ m.by = Caller[h] /\ last' = last + 1
          /\ req'[h].msg = {m}
          /\ \A x \in Known' : x \in Known \/ x = m
          /\ \A g \in Slots : g # h => req'[g] = req[g]
          /\ Written' = Written /\ \A i \in Written : log'[i] = log[i]
    BY <1>1, StoredEffect
  <2>2. \A x \in Known' : x.id <= last'
    BY <2>1, Numbers DEF Ordered, Known
  <2>3. \A i \in Written' : log'[i].msg.id <= last'
    BY <2>1, Numbers DEF Ordered
  <2>4. ASSUME NEW g \in Slots, Pend(g)'
        PROVE  /\ \E n \in Message : req'[g].msg = {n} /\ n.by = Caller[g]
               /\ \A n \in req'[g].msg : n.id <= last'
    <3>1. CASE g = h
      BY <2>1, <3>1, Numbers
    <3>2. CASE g # h
      <4>1. req'[g] = req[g] /\ Pend(g)
        BY <2>1, <2>4, <3>2 DEF Pend
      <4>2. \A n \in req[g].msg : n.id <= last /\ n.id \in Nat
        BY <4>1, Numbers DEF Ordered
      <4> QED
        BY <2>1, <4>1, <4>2, Numbers DEF Ordered
    <3> QED
      BY <3>1, <3>2
  <2> QED
    BY <2>2, <2>3, <2>4 DEF Ordered
<1>2. ASSUME Calm, \A i \in Written' : log'[i].msg.id <= last PROVE Ordered'
  BY <1>2, CalmEffect DEF Ordered
<1>3. ASSUME Quiet PROVE Ordered'
  <2>1. Calm /\ Written' = Written /\ \A i \in Written : log'[i] = log[i]
    BY <1>3, WrittenSame DEF Quiet
  <2> QED
    BY <1>2, <2>1 DEF Ordered
<1>4. ASSUME NEW h \in Slots, Spread(h) PROVE Ordered'
  <2>1. /\ Len(log) \in Nat /\ \A i \in Written : log'[i] = log[i] /\ i \in 1..Len(log)
        /\ \E m \in req[h].msg : /\ Written' = Written \cup {Len(log) + 1}
                                 /\ log'[Len(log) + 1] = [kind |-> "message", msg |-> m]
    BY <1>4, WrittenMore
  <2>2. Calm /\ Pend(h)
    BY <1>4 DEF Spread, Pend, At
  <2>3. \A i \in Written' : log'[i].msg.id <= last
    BY <2>1, <2>2 DEF Ordered
  <2> QED
    BY <1>2, <2>2, <2>3
<1> QED
  BY <1>1, <1>3, <1>4 DEF Shape

LEMMA OnceStays ==
    ASSUME Types, RowsOK, Ordered, Once, Shape
    PROVE  Once'
<1>1. ASSUME NEW h \in Slots, Stored(h) PROVE Once'
  <2>1. PICK m \in Message :
          /\ m.id = last + 1 /\ m.by = Caller[h] /\ last' = last + 1
          /\ req'[h].msg = {m}
          /\ \A x \in Known' : x \in Known \/ x = m
          /\ \A g \in Slots : g # h => req'[g] = req[g]
          /\ Written' = Written /\ \A i \in Written : log'[i] = log[i]
    BY <1>1, StoredEffect
  <2>2. \A g \in Slots : g # h /\ Pend(g)' => Pend(g) /\ req'[g].msg = req[g].msg
    BY <2>1 DEF Pend
  <2>3. \A i \in Written : log[i].msg.id # m.id
    BY <2>1, Numbers DEF Ordered
  <2>4. \A g \in Slots : Pend(g) => \A n \in req[g].msg : n.id # m.id
    BY <2>1, Numbers DEF Ordered
  <2> QED
    BY <2>1, <2>2, <2>3, <2>4 DEF Once
<1>2. ASSUME Quiet PROVE Once'
  <2>1. Calm /\ Written' = Written /\ \A i \in Written : log'[i] = log[i]
    BY <1>2, WrittenSame DEF Quiet
  <2> QED
    BY <2>1, CalmEffect DEF Once
<1>3. ASSUME NEW h \in Slots, Spread(h) PROVE Once'
  <2>1. /\ Len(log) \in Nat /\ \A i \in Written : log'[i] = log[i] /\ i \in 1..Len(log)
        /\ \E m \in req[h].msg : /\ Written' = Written \cup {Len(log) + 1}
                                 /\ log'[Len(log) + 1] = [kind |-> "message", msg |-> m]
    BY <1>3, WrittenMore
  <2>2. Calm /\ Pend(h) /\ ~Pend(h)'
    BY <1>3 DEF Spread, Pend, At
  <2>3. \A g \in Slots : Pend(g)' => g # h /\ Pend(g) /\ req'[g].msg = req[g].msg
    BY <2>2, CalmEffect
  <2> QED
    BY <2>1, <2>2, <2>3 DEF Once
<1> QED
  BY <1>1, <1>2, <1>3 DEF Shape

LEMMA ByAuthorStays ==
    ASSUME Types, RowsOK, Ordered, TabsOK, OneSlotEach, ByAuthor, Shape
    PROVE  ByAuthor'
<1> DEFINE Mine(h) ==
      Pend(h) => \A m \in req[h].msg :
        /\ \A n \in Known : n.by = Caller[h] => n.id <= m.id
        /\ \A i \in Written : log[i].msg.by = Caller[h] => log[i].msg.id < m.id
<1> DEFINE InLog ==
      \A i, j \in Written : i < j /\ log[i].msg.by = log[j].msg.by
                              => log[i].msg.id < log[j].msg.id
<1> DEFINE After(t) ==
      tab[t].is \in {"deaf", "live"} =>
         \A i \in Written : \A m \in tab[t].old :
           i > tab[t].since /\ m.by = log[i].msg.by => m.id <= log[i].msg.id
<1>0. (\A h \in Slots : Mine(h)) /\ InLog /\ \A t \in Tabs : After(t)
  BY DEF ByAuthor
<1>c. \A g, h \in Slots : Caller[g] = Caller[h] => g = h
  BY DEF OneSlotEach
<1>1. ASSUME NEW h \in Slots, Stored(h) PROVE ByAuthor'
  <2>1. PICK m \in Message :
          /\ m.id = last + 1 /\ m.by = Caller[h] /\ last' = last + 1
          /\ req'[h].msg = {m}
          /\ \A x \in Known' : x \in Known \/ x = m
          /\ \A g \in Slots : g # h => req'[g] = req[g]
          /\ Written' = Written /\ \A i \in Written : log'[i] = log[i]
    BY <1>1, StoredEffect
  <2>2. ASSUME NEW g \in Slots PROVE Mine(g)'
    <3>1. CASE g = h
      <4>1. \A n \in Known' : n.id <= m.id
        BY <2>1, Numbers DEF Ordered, Known
      <4>2. \A i \in Written : log[i].msg.id < m.id
        BY <2>1, Numbers DEF Ordered
      <4> QED
        BY <2>1, <3>1, <4>1, <4>2
    <3>2. CASE g # h
      <4>1. req'[g] = req[g] /\ (Pend(g)' => Pend(g)) /\ Caller[g] # Caller[h]
        BY <1>c, <2>1, <3>2 DEF Pend
      <4> QED
        BY <1>0, <2>1, <4>1
    <3> QED
      BY <3>1, <3>2
  <2>3. InLog' /\ \A t \in Tabs : After(t)'
    BY <1>0, <1>1, <2>1 DEF Stored, live
  <2> QED
    BY <2>2, <2>3 DEF ByAuthor
<1>2. ASSUME Quiet PROVE ByAuthor'
  <2>1. Calm /\ Written' = Written /\ \A i \in Written : log'[i] = log[i]
    BY <1>2, WrittenSame DEF Quiet
  <2>2. ASSUME NEW h \in Slots PROVE Mine(h)'
    BY <1>0, <2>1, CalmEffect
  <2>3. InLog'
    BY <1>0, <2>1
  <2>4. ASSUME NEW t \in Tabs PROVE After(t)'
    <3>1. CASE tab'[t] = tab[t]
      BY <1>0, <2>1, <3>1
    <3>2. CASE tab'[t] = Closed
      BY <3>2 DEF Closed
    <3>3. ASSUME TabMove(t), log' = log PROVE After(t)'
      <4>1. PICK d \in Tab : tab' = [tab EXCEPT ![t] = d] /\ Moved(t, d)
        BY <3>3 DEF TabMove
      <4>2. tab'[t] = d /\ tab[t] \in Tab
        BY <4>1 DEF Types
      <4>3. \/ d.is \notin {"deaf", "live"}
            \/ d.since = Len(log)
            \/ tab[t].is \in {"deaf", "live"} /\ d.old = tab[t].old /\ d.since = tab[t].since
        <5>0. CASE d = Closed
          BY <5>0 DEF Closed
        <5>1. ASSUME NEW r \in Rooms, d = [Closed EXCEPT !.is = "asked", !.room = {r}]
              PROVE  d.is = "asked"
          BY <5>1 DEF Closed
        <5>2. CASE d = [tab[t] EXCEPT !.is = "shown", !.old = UNION req[t].page]
          BY <4>2, <5>2 DEF Tab
        <5>3. CASE d = [tab[t] EXCEPT !.is = "deaf", !.since = Len(log), !.pos = Len(log)]
          BY <4>2, <5>3 DEF Tab
        <5>4. CASE Is(t, "deaf") /\ d = [tab[t] EXCEPT !.is = "live"]
          BY <4>2, <5>4 DEF Tab, Is
        <5>5. ASSUME tab[t].is \in {"deaf", "live"}, NEW p, d = [tab[t] EXCEPT !.pos = p]
              PROVE  d.old = tab[t].old /\ d.since = tab[t].since
          BY <4>2, <5>5 DEF Tab
        <5>6. ASSUME Is(t, "live"), NEW p, NEW s, d = [tab[t] EXCEPT !.pos = p, !.new = s]
              PROVE  tab[t].is \in {"deaf", "live"} /\ d.old = tab[t].old /\ d.since = tab[t].since
          BY <4>2, <5>6 DEF Tab, Is
        <5> QED
          BY <4>1, <5>0, <5>1, <5>2, <5>3, <5>4, <5>5, <5>6 DEF Moved
      <4>4. \A i \in Written : i \in Nat /\ Len(log) \in Nat /\ i <= Len(log)
        BY DEF Written, Types
      <4> QED
        BY <1>0, <2>1, <4>2, <4>3, <4>4
    <3>4. ASSUME NEW u \in Tabs, TabMove(u), log' = log PROVE tab'[t] = tab[t] \/ u = t
      BY <3>4 DEF TabMove, Types
    <3> QED
      BY <1>2, <3>1, <3>2, <3>3, <3>4 DEF Quiet
  <2> QED
    BY <2>2, <2>3, <2>4 DEF ByAuthor
<1>3. ASSUME NEW h \in Slots, Spread(h) PROVE ByAuthor'
  <2>0. Len(log) \in Nat /\ \A i \in Written : log'[i] = log[i] /\ i \in 1..Len(log)
    BY <1>3, WrittenMore
  <2>1. PICK m \in req[h].msg : /\ Written' = Written \cup {Len(log) + 1}
                                /\ log'[Len(log) + 1].msg = m
    <3>1. PICK m \in req[h].msg : /\ Written' = Written \cup {Len(log) + 1}
                                  /\ log'[Len(log) + 1] = [kind |-> "message", msg |-> m]
      BY <1>3, WrittenMore
    <3>2. log'[Len(log) + 1].msg = m
      BY <3>1
    <3> QED
      BY <3>1, <3>2
  <2>2. Calm /\ Pend(h) /\ ~Pend(h)' /\ tab' = tab
    BY <1>3 DEF Spread, Pend, At
  <2>3. m.by = Caller[h]
    BY <2>2, Numbers
  <2>4. /\ \A x \in Known' : x \in Known
        /\ \A g \in Slots : Pend(g)' => Pend(g) /\ req'[g].msg = req[g].msg
    BY <2>2, CalmEffect
  <2>5. ASSUME NEW g \in Slots PROVE Mine(g)'
    <3>1. Pend(g)' => Pend(g) /\ Caller[g] # Caller[h] /\ req'[g].msg = req[g].msg
      BY <1>c, <2>2, <2>4
    <3> QED
      BY <1>0, <2>0, <2>1, <2>3, <2>4, <3>1
  <2>6. InLog'
    BY <1>0, <2>0, <2>1, <2>2, <2>3
  <2>7. ASSUME NEW t \in Tabs PROVE After(t)'
    <3>1. \A x \in tab[t].old : x \in Known
      BY DEF Known, Holds, Types, Tab
    <3> QED
      BY <1>0, <2>0, <2>1, <2>2, <2>3, <3>1
  <2> QED
    BY <2>5, <2>6, <2>7 DEF ByAuthor
<1> QED
  BY <1>1, <1>2, <1>3 DEF Shape

-----------------------------------------------------------------------------
LEMMA LiveInvInit == LiveInit => LiveInv
<1> SUFFICES ASSUME LiveInit PROVE LiveInv
  OBVIOUS
<1>0. Init /\ log = << >> /\ tab = [t \in Tabs |-> Closed]
  BY DEF LiveInit
<1>1. TypeOK /\ RowsOK
  BY <1>0, InvInit DEF Inv
<1>2. << >> \in Seq(Event) /\ Closed \in Tab /\ Len(<< >>) = 0
  BY DEF Closed, Tab
<1>3. Types
  BY <1>0, <1>1, <1>2 DEF Types
<1>4. TabsOK
  BY <1>0, <1>3, ClosedOK DEF TabsOK
<1>5. Asked
  BY <1>0 DEF Asked, Is, Closed
<1>6. \A h \in Slots : req[h] = Idle
  BY <1>0 DEF Init
<1>7. Idle.at = "idle" /\ Idle.page = {} /\ Closed.old = {} /\ Closed.is = "closed"
  BY DEF Idle, Closed
<1>8. \A h \in Slots : ~Pend(h)
  BY <1>6, <1>7 DEF Pend
<1>9. Written = {}
  BY <1>0 DEF Written
<1>10. Known = {}
  BY <1>0, <1>6, <1>7 DEF Known, Holds, Init
<1>11. \A t \in Tabs : tab[t].is = "closed"
  BY <1>0, <1>7
<1>12. Ordered /\ Once /\ ByAuthor
  BY <1>8, <1>9, <1>10, <1>11 DEF Ordered, Once, ByAuthor
<1> QED
  BY <1>1, <1>3, <1>4, <1>5, <1>12 DEF LiveInv

LEMMA LiveInvStep == LiveInv /\ [LiveNext]_<<vars, live>> => LiveInv' /\ Shape
<1> SUFFICES ASSUME LiveInv, [LiveNext]_<<vars, live>> PROVE LiveInv' /\ Shape
  OBVIOUS
<1>1. Types /\ RowsOK /\ Asked /\ TabsOK /\ Ordered /\ Once /\ (OneSlotEach => ByAuthor)
  BY DEF LiveInv
<1>2. Shape
  BY <1>1, LiveShape
<1>3. TypeOK' /\ RowsStep
  BY <1>1, <1>2, StepShape DEF Types, Shape
<1>4. RowsOK'
  BY <1>1, <1>3, RowsStay DEF Types
<1>5. tab' \in [Tabs -> Tab] /\ TabsOK' /\ log' \in Seq(Event)
  BY <1>1, <1>2, TabsStay, LogStep
<1>6. Ordered' /\ Once'
  BY <1>1, <1>2, OrderedStays, OnceStays
<1>7. OneSlotEach => ByAuthor'
  BY <1>1, <1>2, ByAuthorStays
<1>8. Asked'
  BY <1>2 DEF Shape
<1>9. OneSlotEach' = OneSlotEach
  BY DEF OneSlotEach
<1> QED
  BY <1>2, <1>3, <1>4, <1>5, <1>6, <1>7, <1>8, <1>9 DEF LiveInv, Types

(* Every state of requests, log and tabs satisfies the invariant.          *)
THEOREM LiveInvariance == LiveSpec => []LiveInv
<1>1. LiveInv /\ [LiveNext]_<<vars, live>> => LiveInv'
  BY LiveInvStep
<1> QED
  BY <1>1, LiveInvInit, PTL DEF LiveSpec

(* The log holds events and the tabs hold pages; no socket is before where *)
(* it subscribed or beyond the log.                                        *)
THEOREM LiveTyping == LiveSpec => []LiveTypeOK
<1>1. LiveInv => LiveTypeOK
  BY DEF LiveInv, Types, TabsOK, TabOK, LiveTypeOK
<1> QED
  BY <1>1, LiveInvariance, PTL

(* What a user sends through one socket stands on every page in the order  *)
(* in which it was stored, the history and the news taken together.        *)
THEOREM OrderOnEveryPage == LiveSpec => []SenderOrder
<1>1. LiveInv => SenderOrder
  <2> SUFFICES ASSUME LiveInv, OneSlotEach, NEW t \in Tabs, NEW j \in DOMAIN tab[t].new
               PROVE  LET news == tab[t].new IN
                      /\ \A m \in tab[t].old :
                           m.by = log[news[j]].msg.by => m.id <= log[news[j]].msg.id
                      /\ \A i \in DOMAIN news :
                           i < j /\ log[news[i]].msg.by = log[news[j]].msg.by
                             => log[news[i]].msg.id < log[news[j]].msg.id
    BY DEF SenderOrder
  <2> DEFINE news == tab[t].new
  <2>1. Types /\ TabOK(tab[t], log) /\ ByAuthor
    BY DEF LiveInv, TabsOK
  <2>2. tab[t] \in Tab /\ Len(log) \in Nat /\ DOMAIN log = 1..Len(log)
    BY <2>1 DEF Types
  <2>3. news \in Seq(Nat) /\ tab[t].since \in Nat /\ tab[t].pos \in Nat
    BY <2>2 DEF Tab
  <2>4. ASSUME NEW i \in DOMAIN news PROVE news[i] \in Written /\ news[i] > tab[t].since
    <3>1. news[i] \in Nat
      BY <2>3
    <3>2. /\ tab[t].since < news[i] /\ news[i] <= tab[t].pos /\ tab[t].pos <= Len(log)
          /\ log[news[i]].kind = "message"
      BY <2>1 DEF TabOK
    <3> QED
      BY <2>2, <2>3, <3>1, <3>2 DEF Written
  <2>5. tab[t].is \in {"deaf", "live"}
    <3>1. news # << >>
      BY <2>3
    <3>2. tab[t].is \notin {"closed", "asked", "shown"}
      BY <2>1, <3>1 DEF TabOK
    <3> QED
      BY <2>2, <3>2 DEF Tab
  <2>6. \A m \in tab[t].old : m.by = log[news[j]].msg.by => m.id <= log[news[j]].msg.id
    BY <2>1, <2>4, <2>5 DEF ByAuthor
  <2>7. \A i \in DOMAIN news : i < j => news[i] < news[j]
    BY <2>1 DEF TabOK
  <2>8. \A i \in DOMAIN news : i < j /\ log[news[i]].msg.by = log[news[j]].msg.by
                                 => log[news[i]].msg.id < log[news[j]].msg.id
    BY <2>1, <2>4, <2>7 DEF ByAuthor
  <2> QED
    BY <2>6, <2>8
<1> QED
  BY <1>1, LiveInvariance, PTL

-----------------------------------------------------------------------------
(* The refinement. An event of the log, as the feed sees it.               *)
Seen(e) == IF e.kind = "message" THEN <<e.msg.room, e.msg.id>> ELSE << >>

LEMMA SeenTyped == ASSUME NEW e \in Event PROVE Seen(e) \in F!Event
<1>1. CASE e.kind = "message"
  <2>1. e.msg \in Message
    BY <1>1 DEF Event
  <2>2. e.msg.room \in Rooms /\ e.msg.id \in Ids
    BY <2>1 DEF Message
  <2> QED
    BY <1>1, <2>2 DEF Seen, F!Event
<1>2. CASE e.kind # "message"
  BY <1>2 DEF Seen, F!Event
<1> QED
  BY <1>1, <1>2

LEMMA ToldTyped ==
    ASSUME Types
    PROVE  /\ Told \in Seq(F!Event) /\ Len(Told) = Len(log) /\ Len(log) \in Nat
           /\ DOMAIN Told = 1..Len(log) /\ DOMAIN log = 1..Len(log)
           /\ \A i \in 1..Len(log) : Told[i] = Seen(log[i])
<1>1. Len(log) \in Nat /\ DOMAIN log = 1..Len(log) /\ \A i \in 1..Len(log) : log[i] \in Event
  BY DEF Types
<1>2. Told = [i \in 1..Len(log) |-> Seen(log[i])]
  BY <1>1 DEF Told, Seen
<1>3. \A i \in 1..Len(log) : Seen(log[i]) \in F!Event
  BY <1>1, SeenTyped
<1> QED
  BY <1>1, <1>2, <1>3

LEMMA ToldMore ==
    ASSUME Types, NEW e \in Event, log' = Append(log, e)
    PROVE  Told' = Append(Told, Seen(e))
<1> DEFINE n == Len(log)
<1>1. /\ Told \in Seq(F!Event) /\ Len(Told) = n /\ n \in Nat
      /\ DOMAIN Told = 1..n /\ DOMAIN log = 1..n
      /\ \A i \in 1..n : Told[i] = Seen(log[i])
  BY ToldTyped
<1>2. /\ DOMAIN log' = 1..(n + 1) /\ log'[n + 1] = e
      /\ \A i \in 1..n : log'[i] = log[i]
  BY DEF Types
<1> HIDE DEF n
<1>3. Told' = [i \in 1..(n + 1) |-> Seen(log'[i])]
  BY <1>2 DEF Told, Seen
<1>4. Seen(e) \in F!Event
  BY SeenTyped
<1> DEFINE S == Append(Told, Seen(e))
<1>5. /\ S \in Seq(F!Event) /\ DOMAIN S = 1..(n + 1) /\ S[n + 1] = Seen(e)
      /\ \A i \in 1..n : S[i] = Told[i]
  BY <1>1, <1>4
<1>6. S = [i \in 1..(n + 1) |-> S[i]]
  <2>1. S \in Seq(F!Event) /\ DOMAIN S = 1..(n + 1)
    BY <1>5
  <2> HIDE DEF S
  <2>2. S \in [DOMAIN S -> F!Event]
    BY <2>1, LenProperties
  <2> QED
    BY <2>1, <2>2
<1>7. \A i \in 1..(n + 1) : S[i] = Seen(log'[i])
  <2>1. \A i \in 1..(n + 1) : i = n + 1 \/ i \in 1..n
    BY <1>1
  <2> QED
    BY <1>1, <1>2, <1>5, <2>1
<1> HIDE DEF S
<1>8. Told' = S
  BY <1>3, <1>6, <1>7, Zenon
<1> QED
  BY <1>8 DEF S

LEMMA PagesStep ==
    ASSUME Types, NEW t \in Tabs, NEW d, tab' = [tab EXCEPT ![t] = d]
    PROVE  Pages' = [Pages EXCEPT ![t] = PageOf(d)]
BY DEF Types, Pages, PageOf

feed == <<1..last, Told, Pages>>

LEMMA StoredFeed ==
    ASSUME Types, NEW h \in Slots, Stored(h)
    PROVE  F!Next
<1>1. last \in Nat /\ last' = last + 1 /\ last + 1 \in Ids
  BY DEF Types, TypeOK, Stored, Ids
<1>2. last + 1 \notin 1..last /\ 1..(last + 1) = (1..last) \cup {last + 1}
  BY <1>1
<1>3. UNCHANGED <<Told, Pages>>
  BY DEF Stored, live, Told, Pages
<1>4. F!Store(last + 1)
  BY <1>1, <1>2, <1>3 DEF F!Store
<1> QED
  BY <1>1, <1>4 DEF F!Next

LEMMA SpreadFeed ==
    ASSUME Types, Ordered, Once, NEW h \in Slots, Spread(h)
    PROVE  F!Next
<1>1. PICK m \in req[h].msg : log' = Append(log, [kind |-> "message", msg |-> m])
  BY DEF Spread, Publish
<1> DEFINE e == [kind |-> "message", msg |-> m]
<1>2. Pend(h) /\ m \in Message /\ m.id <= last /\ last \in Nat
  BY Numbers DEF Spread, At, Pend, Ordered
<1>3. e \in Event /\ Seen(e) = <<m.room, m.id>>
  BY <1>2 DEF Event, Seen
<1>4. Told' = Append(Told, <<m.room, m.id>>)
  <2> HIDE DEF e
  <2>1. Told' = Append(Told, Seen(e))
    BY <1>1, <1>3, ToldMore DEF e
  <2> QED
    BY <1>3, <2>1
<1>5. m.room \in Rooms /\ m.id \in Ids /\ m.id \in 1..last
  BY <1>2 DEF Message, Ids
<1>6. ~F!Told(m.id)
  <2> SUFFICES ASSUME NEW k \in DOMAIN Told, Told[k] # << >>, Told[k][2] = m.id
               PROVE  FALSE
    BY DEF F!Told
  <2>1. k \in DOMAIN log /\ Told[k] = Seen(log[k])
    BY ToldTyped
  <2>2. k \in Written /\ Told[k] = <<log[k].msg.room, log[k].msg.id>>
    BY <2>1 DEF Seen, Written
  <2> QED
    BY <1>2, <2>2 DEF Once
<1>7. UNCHANGED <<1..last, Pages>>
  BY DEF Spread, Calm, Pages
<1>8. <<m.room, m.id>> \in F!Event /\ <<m.room, m.id>>[2] = m.id
  BY <1>5 DEF F!Event
<1>9. F!Tell(<<m.room, m.id>>)
  BY <1>4, <1>5, <1>6, <1>7, <1>8 DEF F!Tell
<1> QED
  BY <1>8, <1>9 DEF F!Next

LEMMA OtherFeed ==
    ASSUME Types, Other, UNCHANGED <<last, tab>>
    PROVE  F!Next
<1>1. PICK e \in Event : e.kind # "message" /\ log' = Append(log, e)
  BY DEF Other
<1>2. Seen(e) = << >>
  BY <1>1 DEF Seen
<1>3. Told' = Append(Told, << >>)
  BY <1>1, <1>2, ToldMore
<1>4. F!Tell(<< >>)
  BY <1>3 DEF F!Tell, Pages
<1> QED
  BY <1>4 DEF F!Next, F!Event

LEMMA ClosedPage == PageOf(Closed) = F!Closed
BY DEF PageOf, Closed, F!Closed

LEMMA OpenPage ==
    ASSUME NEW p, p.is \notin {"closed", "asked"}, NEW X, {m.id : m \in p.old} = X
    PROVE  PageOf(p) = [room |-> p.room, old |-> X, since |-> p.since, new |-> p.new]
BY DEF PageOf

LEMMA LeaveFeed ==
    ASSUME Types, UNCHANGED <<last, log>>,
           (\E t \in Tabs : tab' = [tab EXCEPT ![t] = Closed]) \/ tab' = [t \in Tabs |-> Closed]
    PROVE  F!Next
<1>0. UNCHANGED <<1..last, Told>> /\ Pages = [u \in Tabs |-> PageOf(tab[u])]
  BY DEF Told, Pages
<1>1. ASSUME NEW R \in SUBSET Tabs,
             \A u \in Tabs : tab'[u] = IF u \in R THEN Closed ELSE tab[u]
      PROVE  F!Next
  <2>1. Pages' = [u \in Tabs |-> PageOf(tab'[u])]
    BY DEF Pages
  <2>2. \A u \in Tabs : PageOf(tab'[u]) = IF u \in R THEN F!Closed ELSE Pages[u]
    BY <1>0, <1>1, ClosedPage
  <2>3. Pages' = [u \in Tabs |-> IF u \in R THEN F!Closed ELSE Pages[u]]
    BY <2>1, <2>2
  <2>4. F!Leave(R)
    BY <1>0, <2>3 DEF F!Leave
  <2> QED
    BY <2>4 DEF F!Next
<1>2. ASSUME NEW t \in Tabs, tab' = [tab EXCEPT ![t] = Closed] PROVE F!Next
  <2>1. {t} \in SUBSET Tabs /\ \A u \in Tabs : tab'[u] = IF u \in {t} THEN Closed ELSE tab[u]
    BY <1>2 DEF Types
  <2> QED
    BY <1>1, <2>1
<1>3. ASSUME tab' = [t \in Tabs |-> Closed] PROVE F!Next
  <2>1. Tabs \in SUBSET Tabs /\ \A u \in Tabs : tab'[u] = IF u \in Tabs THEN Closed ELSE tab[u]
    BY <1>3
  <2> QED
    BY <1>1, <2>1
<1> QED
  BY <1>2, <1>3

LEMMA LoadFeed ==
    ASSUME Types, TabsOK, Ordered, UNCHANGED <<last, log>>, NEW t \in Tabs, Is(t, "asked"),
           tab' = [tab EXCEPT ![t] = [tab[t] EXCEPT !.is = "shown", !.old = UNION req[t].page]]
    PROVE  F!Next
<1> DEFINE d == [tab[t] EXCEPT !.is = "shown", !.old = UNION req[t].page]
<1> DEFINE ids == {m.id : m \in UNION req[t].page}
<1>1. TabOK(tab[t], log) /\ tab[t] \in Tab
  BY DEF TabsOK, Types
<1>2. PICK r \in Rooms : tab[t].room = {r}
  BY <1>1 DEF TabOK, Is
<1>3. tab[t].old = {} /\ tab[t].new = << >> /\ tab[t].since = 0 /\ tab[t].is = "asked"
  BY <1>1 DEF TabOK, Is
<1>4. Pages[t] = F!Closed
  BY <1>3 DEF Pages, PageOf, F!Closed
<1>5. ids \in SUBSET (1..last)
  <2>1. ASSUME NEW s \in req[t].page, NEW m \in s PROVE m.id \in 1..last
    <3>1. t \in Slots /\ m \in Message
      BY TabsAreSlots, ByTyping DEF Types
    <3>2. m.id <= last
      BY <3>1 DEF Ordered, Known, Holds
    <3> QED
      BY <3>1, <3>2 DEF Message, Ids, Types, TypeOK
  <2> QED
    BY <2>1
<1>6. PageOf(d) = [room |-> {r}, old |-> ids, since |-> 0, new |-> << >>]
  <2>1. /\ d.is = "shown" /\ d.room = {r} /\ d.old = UNION req[t].page
        /\ d.since = 0 /\ d.new = << >>
    BY <1>1, <1>2, <1>3 DEF Tab
  <2> HIDE DEF d
  <2>2. {m.id : m \in d.old} = ids
    BY <2>1
  <2> HIDE DEF ids
  <2>3. PageOf(d) = [room |-> d.room, old |-> ids, since |-> d.since, new |-> d.new]
    BY <2>1, <2>2, OpenPage
  <2> QED
    BY <2>1, <2>3
<1> HIDE DEF d, ids
<1>7. Pages' = [Pages EXCEPT ![t] =
                   [room |-> {r}, old |-> ids, since |-> 0, new |-> << >>]]
  BY <1>6, PagesStep DEF d
<1>8. UNCHANGED <<1..last, Told>>
  BY DEF Told
<1>9. F!Load(t, r, ids)
  BY <1>4, <1>5, <1>7, <1>8 DEF F!Load
<1> QED
  BY <1>5, <1>9 DEF F!Next

LEMMA JoinFeed ==
    ASSUME Types, TabsOK, UNCHANGED <<last, log>>, NEW t \in Tabs, Is(t, "shown"),
           tab' = [tab EXCEPT ![t] = [tab[t] EXCEPT !.is = "deaf", !.since = Len(log),
                                                    !.pos = Len(log)]]
    PROVE  F!Next
<1> DEFINE d == [tab[t] EXCEPT !.is = "deaf", !.since = Len(log), !.pos = Len(log)]
<1>1. TabOK(tab[t], log) /\ tab[t] \in Tab
  BY DEF TabsOK, Types
<1>2. tab[t].is = "shown" /\ tab[t].room # {} /\ tab[t].new = << >>
  BY <1>1 DEF TabOK, Is
<1>3. /\ d.is = "deaf" /\ d.room = tab[t].room /\ d.old = tab[t].old
      /\ d.since = Len(log) /\ d.new = tab[t].new
  BY <1>1 DEF Tab
<1> HIDE DEF d
<1>4. PageOf(d) = [PageOf(tab[t]) EXCEPT !.since = Len(log)]
  <2> DEFINE X == {m.id : m \in tab[t].old}
  <2>1. {m.id : m \in d.old} = X
    BY <1>3
  <2> HIDE DEF X
  <2>2. PageOf(d) = [room |-> d.room, old |-> X, since |-> d.since, new |-> d.new]
    BY <1>3, <2>1, OpenPage
  <2>3. PageOf(tab[t]) = [room |-> tab[t].room, old |-> X,
                          since |-> tab[t].since, new |-> tab[t].new]
    BY <1>2, OpenPage DEF X
  <2> QED
    BY <1>3, <2>2, <2>3
<1>5. Pages[t] = PageOf(tab[t]) /\ Pages[t].room # {} /\ Pages[t].new = << >>
  BY <1>2 DEF Pages, PageOf
<1>6. Pages' = [Pages EXCEPT ![t] = PageOf(d)]
  BY PagesStep DEF d
<1>7. Len(Told) = Len(log)
  BY ToldTyped
<1>8. Pages' = [Pages EXCEPT ![t].since = Len(Told)]
  BY <1>4, <1>5, <1>6, <1>7
<1>9. UNCHANGED <<1..last, Told>>
  BY DEF Told
<1>10. F!Join(t)
  BY <1>5, <1>8, <1>9 DEF F!Join
<1> QED
  BY <1>10 DEF F!Next

LEMMA HearFeed ==
    ASSUME Types, TabsOK, UNCHANGED <<last, log>>, NEW t \in Tabs, Is(t, "live"),
           tab[t].pos < Len(log), Shown(t, log[tab[t].pos + 1]),
           tab' = [tab EXCEPT ![t] = [tab[t] EXCEPT !.pos = tab[t].pos + 1,
                                                    !.new = Append(@, tab[t].pos + 1)]]
    PROVE  F!Next
<1> DEFINE next == tab[t].pos + 1
<1> DEFINE d == [tab[t] EXCEPT !.pos = next, !.new = Append(@, next)]
<1>1. TabOK(tab[t], log) /\ tab[t] \in Tab /\ Len(log) \in Nat
  BY DEF TabsOK, Types
<1>2. tab[t].pos \in Nat /\ tab[t].since \in Nat /\ tab[t].new \in Seq(Nat)
  BY <1>1 DEF Tab
<1>3. /\ d.is = "live" /\ d.room = tab[t].room /\ d.old = tab[t].old
      /\ d.since = tab[t].since /\ d.new = Append(tab[t].new, next)
  BY <1>1 DEF Tab, Is
<1>4. next \in 1..Len(log) /\ tab[t].since < next /\ next \in Nat
  BY <1>1, <1>2 DEF TabOK
<1>5. \A j \in DOMAIN tab[t].new : tab[t].new[j] < next
  <2> SUFFICES ASSUME NEW j \in DOMAIN tab[t].new PROVE tab[t].new[j] < next
    OBVIOUS
  <2>1. tab[t].new[j] \in Nat /\ tab[t].new[j] <= tab[t].pos
    BY <1>1, <1>2 DEF TabOK
  <2> QED
    BY <1>2, <2>1
<1>6. log[next].kind = "message" /\ log[next].msg.room \in tab[t].room
  BY DEF Shown
<1>7. Pages' = [Pages EXCEPT ![t] = PageOf(d)]
  BY PagesStep
<1> HIDE DEF d, next
<1>8. PageOf(d) = [PageOf(tab[t]) EXCEPT !.new = Append(tab[t].new, next)]
  <2> DEFINE X == {m.id : m \in tab[t].old}
  <2>1. {m.id : m \in d.old} = X
    BY <1>3
  <2> HIDE DEF X
  <2>2. PageOf(d) = [room |-> d.room, old |-> X, since |-> d.since, new |-> d.new]
    BY <1>3, <2>1, OpenPage
  <2>3. PageOf(tab[t]) = [room |-> tab[t].room, old |-> X,
                          since |-> tab[t].since, new |-> tab[t].new]
    BY OpenPage DEF X, Is
  <2> DEFINE more == Append(tab[t].new, next)
  <2>4. PageOf(d) = [room |-> tab[t].room, old |-> X, since |-> tab[t].since, new |-> more]
    BY <1>3, <2>2
  <2> HIDE DEF more
  <2>5. PageOf(d) = [PageOf(tab[t]) EXCEPT !.new = more]
    BY <2>3, <2>4
  <2> QED
    BY <2>5 DEF more
<1>9. /\ Pages[t] = PageOf(tab[t]) /\ Pages[t].room = tab[t].room
      /\ Pages[t].since = tab[t].since /\ Pages[t].new = tab[t].new
  BY DEF Pages, PageOf, Is
<1>10. Pages' = [Pages EXCEPT ![t].new = Append(@, next)]
  BY <1>7, <1>8, <1>9
<1>11. next \in DOMAIN Told /\ Told[next] = <<log[next].msg.room, log[next].msg.id>>
  BY <1>4, <1>6, ToldTyped DEF Seen
<1>12. UNCHANGED <<1..last, Told>>
  BY DEF Told
<1>13. \A k \in F!Heard(t) : k < next
  BY <1>5, <1>9 DEF F!Heard
<1>14. Told[next] # << >> /\ Told[next][1] \in Pages[t].room /\ next > Pages[t].since
  BY <1>2, <1>4, <1>6, <1>9, <1>11
<1>15. F!Hear(t, next)
  BY <1>10, <1>11, <1>12, <1>13, <1>14 DEF F!Hear
<1> QED
  BY <1>11, <1>15 DEF F!Next

LEMMA SilentFeed ==
    ASSUME Types, TabsOK, UNCHANGED <<last, log>>, NEW t \in Tabs, NEW d,
           tab' = [tab EXCEPT ![t] = d], PageOf(d) = PageOf(tab[t])
    PROVE  UNCHANGED feed
<1>1. Pages' = [Pages EXCEPT ![t] = PageOf(tab[t])]
  BY PagesStep
<1>2. Pages' = Pages
  BY <1>1 DEF Pages
<1> QED
  BY <1>2 DEF feed, Told

LEMMA MovedFeed ==
    ASSUME Types, TabsOK, Ordered, UNCHANGED <<last, log>>, NEW t \in Tabs, TabMove(t)
    PROVE  F!Next \/ UNCHANGED feed
<1>1. PICK d \in Tab : tab' = [tab EXCEPT ![t] = d] /\ Moved(t, d)
  BY DEF TabMove
<1>2. tab[t] \in Tab /\ TabOK(tab[t], log)
  BY DEF Types, TabsOK
<1>3. CASE d = Closed
  BY <1>1, <1>3, LeaveFeed
<1>4. ASSUME Is(t, "closed"), NEW r \in Rooms, d = [Closed EXCEPT !.is = "asked", !.room = {r}]
      PROVE  UNCHANGED feed
  <2>1. tab[t] = Closed
    BY <1>2, <1>4 DEF TabOK, Is
  <2>2. d.is = "asked" /\ d.old = {} /\ d.since = 0 /\ d.new = << >>
    BY <1>4 DEF Closed
  <2>3. PageOf(d) = F!Closed
    BY <2>2 DEF PageOf, F!Closed
  <2> QED
    BY <1>1, <2>1, <2>3, ClosedPage, SilentFeed
<1>5. CASE Is(t, "asked") /\ d = [tab[t] EXCEPT !.is = "shown", !.old = UNION req[t].page]
  BY <1>1, <1>5, LoadFeed
<1>6. CASE /\ Is(t, "shown")
           /\ d = [tab[t] EXCEPT !.is = "deaf", !.since = Len(log), !.pos = Len(log)]
  BY <1>1, <1>6, JoinFeed
<1>7. ASSUME tab[t].is \in {"deaf", "live"}, d.is \in {"deaf", "live"}, d.room = tab[t].room,
             d.old = tab[t].old, d.since = tab[t].since, d.new = tab[t].new
      PROVE  UNCHANGED feed
  <2> DEFINE X == {m.id : m \in tab[t].old}
  <2>1. {m.id : m \in d.old} = X
    BY <1>7
  <2> HIDE DEF X
  <2>2. PageOf(d) = [room |-> d.room, old |-> X, since |-> d.since, new |-> d.new]
    BY <1>7, <2>1, OpenPage
  <2>3. PageOf(tab[t]) = [room |-> tab[t].room, old |-> X,
                          since |-> tab[t].since, new |-> tab[t].new]
    BY <1>7, OpenPage DEF X
  <2>4. PageOf(d) = PageOf(tab[t])
    BY <1>7, <2>2, <2>3
  <2> QED
    BY <1>1, <2>4, SilentFeed
<1>8. CASE Is(t, "deaf") /\ d = [tab[t] EXCEPT !.is = "live"]
  <2>1. /\ d.is = "live" /\ d.room = tab[t].room /\ d.old = tab[t].old
        /\ d.since = tab[t].since /\ d.new = tab[t].new
    BY <1>2, <1>8 DEF Tab
  <2> QED
    BY <1>7, <1>8, <2>1 DEF Is
<1>9. ASSUME tab[t].is \in {"deaf", "live"}, NEW p, d = [tab[t] EXCEPT !.pos = p]
      PROVE  UNCHANGED feed
  <2>1. /\ d.is = tab[t].is /\ d.room = tab[t].room /\ d.old = tab[t].old
        /\ d.since = tab[t].since /\ d.new = tab[t].new
    BY <1>2, <1>9 DEF Tab
  <2> QED
    BY <1>7, <1>9, <2>1
<1>10. CASE /\ Is(t, "live") /\ tab[t].pos < Len(log) /\ Shown(t, log[tab[t].pos + 1])
            /\ d = [tab[t] EXCEPT !.pos = tab[t].pos + 1, !.new = Append(@, tab[t].pos + 1)]
  BY <1>1, <1>10, HearFeed
<1> QED
  BY <1>1, <1>3, <1>4, <1>5, <1>6, <1>8, <1>9, <1>10 DEF Moved

(* Requests, caches, channel, sockets and tabs implement the feed: no page *)
(* ever adds a message twice, out of the order of publication, of another  *)
(* room or from before it joined, and none is published before it is       *)
(* stored.                                                                 *)
THEOREM FeedImplemented == LiveSpec => ImplementsFeed
<1>1. LiveInit => F!Init
  <2> SUFFICES ASSUME LiveInit PROVE F!Init
    OBVIOUS
  <2>1. Types
    BY LiveInvInit DEF LiveInv
  <2>2. log = << >> /\ last = 0 /\ tab = [t \in Tabs |-> Closed]
    BY DEF LiveInit, Init
  <2>3. 1..last = {}
    BY <2>2
  <2>4. Told = << >>
    BY <2>1, <2>2, ToldTyped
  <2>5. Pages = [t \in Tabs |-> F!Closed]
    BY <2>2, ClosedPage DEF Pages
  <2> QED
    BY <2>3, <2>4, <2>5 DEF F!Init
<1>2. LiveInv /\ [LiveNext]_<<vars, live>> => [F!Next]_feed
  <2> SUFFICES ASSUME LiveInv, [LiveNext]_<<vars, live>> PROVE F!Next \/ UNCHANGED feed
    OBVIOUS
  <2>1. Shape /\ Types /\ TabsOK /\ Ordered /\ Once
    BY LiveInvStep DEF LiveInv
  <2>2. ASSUME NEW h \in Slots, Stored(h) \/ Spread(h) PROVE F!Next
    BY <2>1, <2>2, StoredFeed, SpreadFeed
  <2>3. ASSUME Quiet PROVE F!Next \/ UNCHANGED feed
    <3>1. last' = last
      BY <2>3 DEF Quiet, Calm
    <3>2. CASE tab' = tab /\ log' = log
      BY <3>1, <3>2 DEF feed, Told, Pages
    <3>3. CASE tab' = tab /\ Other
      BY <2>1, <3>1, <3>3, OtherFeed
    <3>4. ASSUME log' = log, NEW t \in Tabs, TabMove(t) PROVE F!Next \/ UNCHANGED feed
      BY <2>1, <3>1, <3>4, MovedFeed
    <3>5. CASE log' = log /\ tab' = [t \in Tabs |-> Closed]
      BY <2>1, <3>1, <3>5, LeaveFeed
    <3> QED
      BY <2>3, <3>2, <3>3, <3>4, <3>5 DEF Quiet
  <2> QED
    BY <2>1, <2>2, <2>3 DEF Shape
<1> QED
  BY <1>1, <1>2, LiveInvariance, PTL DEF LiveSpec, ImplementsFeed, F!Spec, feed

(* No message comes to a page twice, although sockets lag and catch up and *)
(* sockets of many users publish at once. (It may stand in the history as  *)
(* well: one stored before the history was read and told after the page    *)
(* joined is on the page twice.)                                           *)
NewsOnce ==
    \A t \in Tabs : LET news == tab[t].new IN
      \A i, j \in DOMAIN news : log[news[i]].msg = log[news[j]].msg => i = j
THEOREM EachNewsOnce == LiveSpec => []NewsOnce
<1>1. LiveInv => NewsOnce
  <2> SUFFICES ASSUME LiveInv, NEW t \in Tabs
               PROVE  LET news == tab[t].new IN
                      \A i, j \in DOMAIN news : log[news[i]].msg = log[news[j]].msg => i = j
    BY DEF NewsOnce
  <2> DEFINE news == tab[t].new
  <2>1. Types /\ TabOK(tab[t], log) /\ Once
    BY DEF LiveInv, TabsOK
  <2>2. /\ tab[t] \in Tab /\ Len(log) \in Nat /\ DOMAIN log = 1..Len(log)
        /\ news \in Seq(Nat) /\ tab[t].since \in Nat /\ tab[t].pos \in Nat
    BY <2>1 DEF Types, Tab
  <2>3. \A i \in DOMAIN news : news[i] \in Written /\ news[i] \in Nat
    BY <2>1, <2>2 DEF TabOK, Written
  <2>4. ASSUME NEW i \in DOMAIN news, NEW j \in DOMAIN news, i < j PROVE news[i] # news[j]
    BY <2>1, <2>2, <2>3, <2>4 DEF TabOK
  <2>5. \A i \in DOMAIN news : i \in Nat
    BY <2>2
  <2>6. ASSUME NEW i \in DOMAIN news, NEW j \in DOMAIN news, log[news[i]].msg = log[news[j]].msg
        PROVE  i = j
    <3>1. news[i] = news[j]
      BY <2>1, <2>3, <2>6 DEF Once
    <3> QED
      BY <2>4, <2>5, <3>1
  <2> QED
    BY <2>6
<1> QED
  BY <1>1, LiveInvariance, PTL

-----------------------------------------------------------------------------
(* The composition does nothing to the server that Messages does not: the  *)
(* rows, caches and requests below a live room are Messages' own.          *)
THEOREM MessagesImplemented == LiveSpec => ImplementsMessages
<1>1. LiveInit => Init
  BY DEF LiveInit
<1>2. LiveInv /\ [LiveNext]_<<vars, live>> => [Next]_vars
  BY LiveInvStep DEF Shape
<1> QED
  BY <1>1, <1>2, LiveInvariance, PTL DEF LiveSpec, ImplementsMessages, Spec

(* What is proved of Messages holds with pages and sockets around it: the  *)
(* history a page opens with has no holes and fits, files are their        *)
(* messages', and what was read stays read.                                *)
THEOREM LiveRoomKeeps ==
    LiveSpec => []NoHoles /\ []HistoryFits /\ []FileIsItsMessage /\ ReadStaysRead
BY MessagesImplemented, HistoryHasNoHoles, HistoriesFit, FilesFit, ReadsStay, PTL
   DEF ImplementsMessages

-----------------------------------------------------------------------------
(* What the socket of a listening page does with the messages it goes past.*)
Passes(t) ==
    \A i \in DOMAIN log :
      Waiting(t, i) /\ Is(t, "live")' /\ i <= tab'[t].pos => On(t, i)' \/ Dropped(i)

LEMMA StandsStill ==
    ASSUME Types, NEW t \in Tabs, tab'[t] = tab[t] \/ ~Is(t, "live") \/ ~Is(t, "live")'
    PROVE  Passes(t)
<1>1. tab[t].pos \in Nat /\ \A i \in DOMAIN log : i \in Nat
  BY DEF Types, Tab
<1> QED
  BY <1>1 DEF Passes, Waiting

LEMMA ReceivePasses ==
    ASSUME Types, NEW t \in Tabs, Receive(t)
    PROVE  Passes(t)
<1> DEFINE next == tab[t].pos + 1
           p == [tab[t] EXCEPT !.pos = next]
           q == [tab[t] EXCEPT !.pos = next, !.new = Append(tab[t].new, next)]
<1>1. /\ tab[t] \in Tab /\ tab[t].pos \in Nat /\ next \in Nat /\ tab[t].new \in Seq(Nat)
      /\ log' = log
  BY DEF Types, Tab, Receive
<1>2. /\ p.pos = next /\ q.pos = next /\ q.new = Append(tab[t].new, next)
  BY <1>1 DEF Tab
<1>3. tab'[t] = IF Is(t, "live") /\ Reloads(t, log[next]) THEN Closed
                ELSE IF Is(t, "live") /\ Shown(t, log[next]) THEN q ELSE p
  BY DEF Receive, Types
<1> HIDE DEF p, q
<1> SUFFICES ASSUME NEW i \in DOMAIN log, Waiting(t, i), Is(t, "live")', i <= tab'[t].pos
             PROVE  On(t, i)'
  BY DEF Passes
<1>4. tab'[t] # Closed
  BY DEF Is, Closed
<1>5. tab'[t].pos = next
  BY <1>2, <1>3, <1>4
<1>6. i = next /\ Shown(t, log[i]) /\ Is(t, "live")
  BY <1>1, <1>5 DEF Waiting, Types
<1>7. tab'[t] = q
  BY <1>3, <1>4, <1>6
<1>8. /\ Len(tab[t].new) + 1 \in DOMAIN tab'[t].new
      /\ tab'[t].new[Len(tab[t].new) + 1] = next
  BY <1>1, <1>2, <1>7
<1> QED
  BY <1>6, <1>8 DEF On

LEMMA LagPasses ==
    ASSUME Types, NEW t \in Tabs, Lag(t)
    PROVE  Passes(t)
<1>1. tab'[t].pos = Len(log) - Capacity
  BY DEF Types, Tab, Lag
<1> SUFFICES ASSUME NEW i \in DOMAIN log, i <= tab'[t].pos
             PROVE  Dropped(i)
  BY DEF Passes
<1>2. i \in Nat /\ Len(log) \in Nat /\ Capacity \in Nat
  BY LiveAssumption DEF Types
<1> QED
  BY <1>1, <1>2 DEF Dropped

(* A listening socket goes past a message for its room only by putting it  *)
(* on the page, or when the channel has dropped it: with the fairness of   *)
(* its loop, every message is heard or the socket has lagged.              *)
THEOREM NothingSkipped == LiveSpec => SkipsOnlyDropped
<1>1. LiveInv /\ [LiveNext]_<<vars, live>> => [\A t \in Tabs : Passes(t)]_<<vars, live>>
  <2> SUFFICES ASSUME LiveInv, [LiveNext]_<<vars, live>>, NEW t \in Tabs PROVE Passes(t)
    OBVIOUS
  <2>0. Types
    BY DEF LiveInv
  <2>1. CASE UNCHANGED tab
    BY <2>0, <2>1, StandsStill
  <2>2. ASSUME NEW s \in Tabs,
               \/ \E r \in Rooms : Ask(s, r)
               \/ Render(s) \/ Leave(s) \/ Connect(s) \/ Listen(s) \/ Receive(s) \/ Lag(s)
        PROVE  Passes(t)
    <3>1. CASE s # t
      <4>1. tab'[t] = tab[t]
        BY <2>0, <2>2, <3>1 DEF Types, Ask, Render, Leave, Connect, Listen, Receive, Lag
      <4> QED
        BY <2>0, <4>1, StandsStill
    <3>2. CASE s = t /\ (Receive(t) \/ Lag(t))
      BY <2>0, <3>2, ReceivePasses, LagPasses
    <3>3. CASE s = t /\ (Render(t) \/ Connect(t) \/ Listen(t) \/ \E r \in Rooms : Ask(t, r))
      <4>1. ~Is(t, "live")
        BY <3>3 DEF Ask, Render, Connect, Listen, Is
      <4> QED
        BY <2>0, <4>1, StandsStill
    <3>4. CASE s = t /\ Leave(t)
      <4>1. ~Is(t, "live")'
        BY <2>0, <3>4 DEF Types, Leave, Closed, Is
      <4> QED
        BY <2>0, <4>1, StandsStill
    <3> QED
      BY <2>2, <3>1, <3>2, <3>3, <3>4
  <2>3. CASE Reboot
    <3>1. ~Is(t, "live")'
      BY <2>3 DEF Reboot, Closed, Is
    <3> QED
      BY <2>0, <3>1, StandsStill
  <2> QED
    BY <2>1, <2>2, <2>3 DEF LiveNext, Store, Broadcast, SendElsewhere, Load, Send, Typing, Notify,
      RoomChange, live
<1> QED
  BY <1>1, LiveInvariance, PTL DEF LiveSpec, SkipsOnlyDropped, Passes
=============================================================================
