--------------------------- MODULE ChatRoomsProofs ---------------------------
(***************************************************************************)
(* Theorems about ChatRooms, for every set of users, rooms and requests.   *)
(***************************************************************************)
EXTENDS ChatRooms, TLAPS

(* How far a handler has come says what it already knows of its request:   *)
(* the arguments of the later steps are of the right kind.                 *)
Shape(q) ==
    /\ q.at \notin {"idle", "done"} => q.user \in Users
    /\ q.kind \in {"invite", "accept"} => \E u \in Users : q.guests = {u}
    /\ q.kind = "accept" => q.room \in Rooms
    /\ q.at \in {"row", "commit"} => q.kind = "accept"
    /\ q.at = "commit" => q.guests = {q.user}
    /\ q.at = "mark" => q.kind = "render"
    /\ q.at = "create" => q.view = {} /\ q.parts = {} /\ q.user \notin q.guests
    /\ q.at \in {"guest", "check", "insert", "notice"} => q.kind = "invite" /\ q.room \in Rooms
    /\ q.at \in {"parts", "select_parts", "fill_parts"} =>
         q.kind = "render" \/ (q.kind = "invite" /\ q.room \in Rooms)
    /\ q.at \in {"parts", "select_parts", "fill_parts", "check", "insert", "notice"} =>
         (q.kind = "invite" => q.user \notin q.guests)
    /\ q.at \in {"inval", "notify", "sent"} => q.room \in Rooms

TypeInv == TypeOK /\ \A t \in Requests : Shape(req[t])

(* TypeInv by its three parts. *)
DbTyped ==
    /\ users \subseteq Users
    /\ members \in [Rooms -> SUBSET Users]
    /\ invites \in [Rooms -> [Users -> Invite]]
    /\ joined \in [Rooms -> SUBSET Users]
    /\ offered \in [Rooms -> SUBSET (Users \X Users)]
    /\ was \in [Rooms -> SUBSET {"pair", "group"}]
    /\ posted \in [Rooms -> SUBSET BOOLEAN]
CacheTyped ==
    /\ accessible_rooms \in [Users -> SUBSET [Rooms -> Views]]
    /\ accessible_room \in [Users -> [Rooms -> SUBSET Views]]
    /\ room_participants \in [Rooms -> SUBSET SUBSET Users]
    /\ pending_invites \in [Users -> SUBSET SUBSET Rooms]
Requested == req \in [Requests -> Request] /\ \A t \in Requests : Shape(req[t])

LEMMA TypeParts == /\ TypeInv <=> DbTyped /\ CacheTyped /\ Requested
                   /\ TypeInv' <=> DbTyped' /\ CacheTyped' /\ Requested'
  BY DEF TypeInv, TypeOK, DbTyped, CacheTyped, Requested

LEMMA ReqTyped == ASSUME TypeInv, NEW t \in Requests PROVE req[t] \in Request /\ Shape(req[t])
  BY DEF TypeInv, TypeOK

LEMMA InitTypeInv == Init => TypeInv
  <1> SUFFICES ASSUME Init PROVE TypeInv
    OBVIOUS
  <1>1. TypeOK
    BY NamesAssumption, InitMembersAssumption DEF Init, TypeOK, EmptyCaches, Blank, Request,
       Invite, NoInvite, Statuses, Views, Steps, Kinds, Size
  <1>2. \A t \in Requests : Shape(req[t])
    BY DEF Init, Shape, Blank
  <1> QED
    BY <1>1, <1>2 DEF TypeInv

(* The ways a handler goes on keep its request typed and shaped. *)
LEMMA UpdateShape ==
  ASSUME TypeInv, NEW t \in Requests, NEW q \in Request, Shape(q),
         req' = [req EXCEPT ![t] = q]
  PROVE  Requested'
  <1>1. req' \in [Requests -> Request]
    BY DEF TypeInv, TypeOK
  <1>2. ASSUME NEW x \in Requests PROVE Shape(req'[x])
    <2>1. CASE x = t
      BY <2>1 DEF TypeInv, TypeOK
    <2>2. CASE x # t
      <3>1. req'[x] = req[x]
        BY <2>2 DEF TypeInv, TypeOK
      <3> QED
        BY <3>1 DEF TypeInv
    <2> QED
      BY <2>1, <2>2
  <1> QED
    BY <1>1, <1>2 DEF Requested

LEMMA GoShape ==
  ASSUME TypeInv, NEW t \in Requests, NEW s \in Steps, Go(t, s),
         Shape([req[t] EXCEPT !.at = s])
  PROVE  Requested'
  <1>1. req[t] \in Request
    BY DEF TypeInv, TypeOK
  <1>2. [req[t] EXCEPT !.at = s] \in Request
    BY <1>1 DEF Request
  <1> QED
    BY <1>2, UpdateShape DEF Go

LEMMA FinishShape ==
  ASSUME TypeInv, NEW t \in Requests, Finish(t)
  PROVE  Requested'
  <1>1. Blank("done") \in Request /\ Shape(Blank("done"))
    BY NamesAssumption DEF Blank, Request, Shape, Steps, Views, Kinds
  <1> QED
    BY <1>1, UpdateShape DEF Finish

LEMMA RenderShape ==
  ASSUME TypeInv, NEW t \in Requests, NEW r \in Rooms \cup {General}, RenderPage(t, r),
         req[t].user \in Users
  PROVE  Requested'
  <1> DEFINE q == [Blank("room") EXCEPT !.kind = "render", !.user = req[t].user,
                                        !.room = r, !.bypass = req[t].bypass]
  <1>1. q \in Request /\ Shape(q)
    BY DEF TypeInv, TypeOK, Blank, Request, Shape, Steps, Views, Kinds
  <1> QED
    BY <1>1, UpdateShape DEF RenderPage

(* GotRoom is reached with an answer for the room that was asked for. *)
LEMMA GotRoomShape ==
  ASSUME TypeInv, NEW t \in Requests, NEW v \in Views, GotRoom(t, v),
         req[t].at \in {"room", "fill_room"},
         req[t].room = General => v = "general"
  PROVE  Requested'
  <1> DEFINE q == [req[t] EXCEPT !.view = {v},
                             !.rows = [r \in Rooms |-> "none"],
                             !.at = CASE req[t].kind = "invite" -> "guest"
                                         [] req[t].kind = "render" -> "mark"
                                         [] req[t].kind = "ws" -> "open"
                                         [] OTHER -> "serve"]
  <1>0. req[t] \in Request /\ Shape(req[t]) /\ req[t].user \in Users
    BY DEF TypeInv, TypeOK, Shape
  <1>1. CASE Finish(t)
    BY <1>1, FinishShape
  <1>2. CASE RenderPage(t, General)
    BY <1>0, <1>2, RenderShape
  <1>3. CASE v # "none" /\ ~(v = "general" /\ req[t].kind = "invite") /\ req' = [req EXCEPT ![t] = q]
    <2>1. q \in Request
      BY <1>0 DEF Request, Steps, Views
    <2>2. Shape(q)
      BY <1>0, <1>3 DEF Request, Shape
    <2> QED
      BY <2>1, <2>2, <1>3, UpdateShape
  <1> QED
    BY <1>1, <1>2, <1>3 DEF GotRoom

LEMMA GotRoomsShape ==
  ASSUME TypeInv, NEW t \in Requests, NEW rows \in [Rooms -> Views], GotRooms(t, rows),
         req[t].at \in {"rooms", "fill_rooms"}
  PROVE  Requested'
  <1> DEFINE q == [req[t] EXCEPT !.rows = rows, !.at = "fill_room"]
  <1>0. req[t] \in Request /\ Shape(req[t])
    BY ReqTyped
  <1>1. CASE Finish(t)
    BY <1>1, FinishShape
  <1>2. CASE req' = [req EXCEPT ![t] = q]
    <2>1. q \in Request
      BY <1>0 DEF Request, Steps
    <2>2. Shape(q)
      BY <1>0 DEF Request, Shape
    <2> QED
      BY <2>1, <2>2, <1>2, UpdateShape
  <1> QED
    BY <1>1, <1>2 DEF GotRooms

LEMMA GotPartsShape ==
  ASSUME TypeInv, NEW t \in Requests, NEW p \in SUBSET Users, GotParts(t, p),
         req[t].at \in {"parts", "fill_parts"}
  PROVE  Requested'
  <1> DEFINE q1 == [req[t] EXCEPT !.parts = {}, !.at = "pending"]
             q2 == [req[t] EXCEPT !.parts = p, !.at = "check"]
  <1>0. req[t] \in Request /\ Shape(req[t])
    BY ReqTyped
  <1>1. CASE req' = [req EXCEPT ![t] = q1]
    <2>1. q1 \in Request
      BY <1>0 DEF Request, Steps
    <2>2. Shape(q1)
      BY <1>0 DEF Request, Shape
    <2> QED
      BY <2>1, <2>2, <1>1, UpdateShape
  <1>2. CASE RenderPage(t, req[t].room)
    <2>1. req[t].room \in Rooms \cup {General} /\ req[t].user \in Users
      BY <1>0 DEF Request, Shape
    <2> QED
      BY <1>2, <2>1, RenderShape
  <1>3. CASE req[t].kind = "invite" /\ req' = [req EXCEPT ![t] = q2]
    <2>1. q2 \in Request
      BY <1>0 DEF Request, Steps
    <2>2. Shape(q2)
      BY <1>0, <1>3 DEF Request, Shape
    <2> QED
      BY <2>1, <2>2, <1>3, UpdateShape
  <1> QED
    BY <1>1, <1>2, <1>3 DEF GotParts

LEMMA SizeTyped == \A S : Size(S) \in {"pair", "group"}
  BY DEF Size

(* Steps that only move the request on, leaving database and caches. *)
LEMMA ReqStepTypeInv ==
  ASSUME TypeInv, Requested', UNCHANGED <<dbVars, cacheVars>>
  PROVE  TypeInv'
  BY TypeParts DEF DbTyped, CacheTyped, dbVars, cacheVars

LEMMA CacheStepTypeInv ==
  ASSUME TypeInv, Requested', CacheTyped', UNCHANGED dbVars
  PROVE  TypeInv'
  BY TypeParts DEF DbTyped, dbVars

LEMMA DbStepTypeInv ==
  ASSUME TypeInv, Requested', DbTyped', UNCHANGED cacheVars
  PROVE  TypeInv'
  BY TypeParts DEF CacheTyped, cacheVars

LEMMA HandlerTypeInv == ASSUME TypeInv, NEW t \in Requests, Handler(t) PROVE TypeInv'
  <1> DEFINE q == req[t]
  <1>0. DbTyped /\ CacheTyped /\ Requested /\ q \in Request /\ Shape(q)
    BY TypeParts, ReqTyped
  <1>1. CASE Start(t)
    <2>1. PICK i \in Inputs :
            req' = [req EXCEPT ![t] = [Blank(FirstStep(i.kind)) EXCEPT
                   !.kind = i.kind, !.user = i.user, !.room = i.room,
                   !.guests = i.guests, !.bypass = i.bypass]]
      BY <1>1 DEF Start
    <2> DEFINE q1 == [Blank(FirstStep(i.kind)) EXCEPT
                   !.kind = i.kind, !.user = i.user, !.room = i.room,
                   !.guests = i.guests, !.bypass = i.bypass]
    <2>2. i \in Input /\ WellFormed(i)
      BY BoundsAssumption
    <2>3. q1 \in Request
      BY <2>2 DEF Input, Blank, FirstStep, Request, Steps, Views, Kinds
    <2>4. Shape(q1)
      BY <2>2 DEF Input, WellFormed, Blank, FirstStep, Shape, Kinds
    <2>5. Requested'
      BY <2>1, <2>3, <2>4, UpdateShape
    <2> QED
      BY <1>1, <2>5, ReqStepTypeInv DEF Start
  <1>2. CASE LookRoom(t)
    <2>1. PICK entry \in IF q.room = General THEN {{}, {"general"}}
                         ELSE {accessible_room[q.user][q.room]} :
            IF q.bypass \/ entry = {} THEN Go(t, "rooms") ELSE \E v \in entry : GotRoom(t, v)
      BY <1>2 DEF LookRoom
    <2>2. q.at = "room" /\ q.user \in Users
      BY <1>0, <1>2 DEF LookRoom, At, Shape
    <2>3. entry \subseteq Views /\ (q.room = General => entry \subseteq {"general"})
      <3>1. CASE q.room = General
        BY <2>1, <3>1 DEF Views
      <3>2. CASE q.room # General
        BY <1>0, <2>1, <2>2, <3>2 DEF CacheTyped, Request
      <3> QED
        BY <3>1, <3>2
    <2>4. ASSUME Go(t, "rooms") PROVE Requested'
      <3>1. Shape([q EXCEPT !.at = "rooms"])
        BY <1>0, <2>2 DEF Shape, Request
      <3> QED
        BY <2>4, <3>1, GoShape DEF Steps
    <2>5. ASSUME \E v \in entry : GotRoom(t, v) PROVE Requested'
      <3>1. PICK v \in entry : GotRoom(t, v)
        BY <2>5
      <3>2. v \in Views /\ (q.room = General => v = "general")
        BY <2>3
      <3> QED
        BY <2>2, <3>1, <3>2, GotRoomShape
    <2>6. Requested'
      BY <2>1, <2>4, <2>5
    <2> QED
      BY <1>2, <2>6, ReqStepTypeInv DEF LookRoom
  <1>3. CASE LookRooms(t)
    <2>1. q.at = "rooms" /\ q.user \in Users
      BY <1>0, <1>3 DEF LookRooms, At, Shape
    <2>2. ASSUME Go(t, "select_rooms") PROVE Requested'
      <3>1. Shape([q EXCEPT !.at = "select_rooms"])
        BY <1>0, <2>1 DEF Shape, Request
      <3> QED
        BY <2>2, <3>1, GoShape DEF Steps
    <2>3. ASSUME \E rows \in accessible_rooms[q.user] : GotRooms(t, rows) PROVE Requested'
      <3>1. accessible_rooms[q.user] \subseteq [Rooms -> Views]
        BY <1>0, <2>1 DEF CacheTyped
      <3>2. PICK rows \in accessible_rooms[q.user] : GotRooms(t, rows)
        BY <2>3
      <3> QED
        BY <2>1, <3>1, <3>2, GotRoomsShape
    <2>4. Requested'
      BY <1>3, <2>2, <2>3 DEF LookRooms
    <2> QED
      BY <1>3, <2>4, ReqStepTypeInv DEF LookRooms
  <1>4. CASE SelectRooms(t)
    <2> DEFINE q1 == [q EXCEPT !.rows = RowsOf(q.user), !.at = "fill_rooms"]
    <2>1. RowsOf(q.user) \in [Rooms -> Views]
      BY SizeTyped DEF RowsOf, Views
    <2>2. q1 \in Request
      BY <1>0, <2>1 DEF Request, Steps
    <2>3. Shape(q1)
      BY <1>0, <1>4 DEF SelectRooms, At, Shape, Request
    <2>4. Requested'
      BY <1>4, <2>2, <2>3, UpdateShape DEF SelectRooms
    <2> QED
      BY <1>4, <2>4, ReqStepTypeInv DEF SelectRooms
  <1>5. CASE FillRooms(t)
    <2>1. q.at = "fill_rooms" /\ q.user \in Users /\ q.rows \in [Rooms -> Views]
      BY <1>0, <1>5 DEF FillRooms, At, Shape, Request
    <2>2. Requested'
      BY <1>5, <2>1, GotRoomsShape DEF FillRooms
    <2>3. CacheTyped'
      BY <1>0, <1>5, <2>1 DEF FillRooms, CacheTyped
    <2> QED
      BY <1>5, <2>2, <2>3, CacheStepTypeInv DEF FillRooms
  <1>6. CASE FillRoom(t)
    <2>1. q.at = "fill_room" /\ q.user \in Users /\ q.rows \in [Rooms -> Views]
      BY <1>0, <1>6 DEF FillRoom, At, Shape, Request
    <2>2. CASE q.room = General /\ GotRoom(t, "general") /\ UNCHANGED accessible_room
      <3>1. Requested'
        BY <2>1, <2>2, GotRoomShape DEF Views
      <3>2. CacheTyped'
        BY <1>0, <1>6, <2>2 DEF FillRoom, CacheTyped
      <3> QED
        BY <1>6, <3>1, <3>2, CacheStepTypeInv DEF FillRoom
    <2>3. CASE /\ q.room \in Rooms
               /\ accessible_room' = [accessible_room EXCEPT ![q.user][q.room] = {q.rows[q.room]}]
               /\ GotRoom(t, q.rows[q.room])
      <3>1. Requested'
        BY <2>1, <2>3, GotRoomShape, NamesAssumption
      <3>2. CacheTyped'
        BY <1>0, <1>6, <2>1, <2>3 DEF FillRoom, CacheTyped
      <3> QED
        BY <1>6, <3>1, <3>2, CacheStepTypeInv DEF FillRoom
    <2> QED
      BY <1>6, <2>2, <2>3 DEF FillRoom
  <1>7. CASE LookParts(t)
    <2>1. PICK entry \in IF q.room = General THEN {{}, {{}}} ELSE {room_participants[q.room]} :
            IF q.bypass \/ entry = {} THEN Go(t, "select_parts") ELSE \E p \in entry : GotParts(t, p)
      BY <1>7 DEF LookParts
    <2>2. q.at = "parts"
      BY <1>7 DEF LookParts, At
    <2>3. entry \subseteq SUBSET Users
      BY <1>0, <2>1 DEF CacheTyped, Request
    <2>4. ASSUME Go(t, "select_parts") PROVE Requested'
      <3>1. Shape([q EXCEPT !.at = "select_parts"])
        BY <1>0, <2>2 DEF Shape, Request
      <3> QED
        BY <2>4, <3>1, GoShape DEF Steps
    <2>5. ASSUME \E p \in entry : GotParts(t, p) PROVE Requested'
      <3>1. PICK p \in entry : GotParts(t, p)
        BY <2>5
      <3> QED
        BY <2>2, <2>3, <3>1, GotPartsShape
    <2>6. Requested'
      BY <2>1, <2>4, <2>5
    <2> QED
      BY <1>7, <2>6, ReqStepTypeInv DEF LookParts
  <1>8. CASE SelectParts(t)
    <2> DEFINE q1 == [q EXCEPT !.parts = MembersOf(q.room), !.at = "fill_parts"]
    <2>1. MembersOf(q.room) \in SUBSET Users
      BY <1>0 DEF MembersOf, DbTyped, Request
    <2>2. q1 \in Request
      BY <1>0, <2>1 DEF Request, Steps
    <2>3. Shape(q1)
      BY <1>0, <1>8 DEF SelectParts, At, Shape, Request
    <2>4. Requested'
      BY <1>8, <2>2, <2>3, UpdateShape DEF SelectParts
    <2> QED
      BY <1>8, <2>4, ReqStepTypeInv DEF SelectParts
  <1>9. CASE FillParts(t)
    <2>1. q.at = "fill_parts" /\ q.parts \in SUBSET Users
      BY <1>0, <1>9 DEF FillParts, At, Request
    <2>2. Requested'
      BY <1>9, <2>1, GotPartsShape DEF FillParts
    <2>3. CacheTyped'
      BY <1>0, <1>9, <2>1 DEF FillParts, CacheTyped
    <2> QED
      BY <1>9, <2>2, <2>3, CacheStepTypeInv DEF FillParts
  <1>10. CASE Guest(t)
    <2>1. q.at = "guest" /\ q.user \in Users /\ q.room \in Rooms
      BY <1>0, <1>10 DEF Guest, At, Shape
    <2>2. ASSUME q.guests # {q.user}, Go(t, "parts") PROVE Requested'
      <3>1. Shape([q EXCEPT !.at = "parts"])
        BY <1>0, <2>1, <2>2 DEF Shape, Request
      <3> QED
        BY <2>2, <3>1, GoShape DEF Steps
    <2>3. Requested'
      BY <1>10, <2>1, <2>2, FinishShape, RenderShape DEF Guest
    <2> QED
      BY <1>10, <2>3, ReqStepTypeInv DEF Guest
  <1>11. CASE Check(t)
    <2>1. q.at = "check" /\ q.user \in Users /\ q.room \in Rooms
      BY <1>0, <1>11 DEF Check, At, Shape
    <2>2. ASSUME Go(t, "insert") PROVE Requested'
      <3>1. Shape([q EXCEPT !.at = "insert"])
        BY <1>0, <2>1 DEF Shape, Request
      <3> QED
        BY <2>2, <3>1, GoShape DEF Steps
    <2>3. Requested'
      BY <1>11, <2>1, <2>2, FinishShape, RenderShape DEF Check
    <2> QED
      BY <1>11, <2>3, ReqStepTypeInv DEF Check
  <1>12. CASE Insert(t)
    <2>1. q.at = "insert" /\ q.user \in Users /\ q.room \in Rooms /\ q.guests \subseteq Users
      BY <1>0, <1>12 DEF Insert, At, Shape, Request
    <2>2. PICK g \in q.guests :
            IF {q.user, g} \subseteq users /\ invites[q.room][g].status = "none"
              THEN /\ invites' = [invites EXCEPT ![q.room][g] = [by |-> q.user, status |-> "pending"]]
                   /\ offered' = [offered EXCEPT ![q.room] = @ \cup {<<q.user, g>>}]
                   /\ Go(t, "notice")
              ELSE Finish(t) /\ UNCHANGED <<invites, offered>>
      BY <1>12 DEF Insert
    <2>3. ASSUME Go(t, "notice") PROVE Requested'
      <3>1. Shape([q EXCEPT !.at = "notice"])
        BY <1>0, <2>1 DEF Shape, Request
      <3> QED
        BY <2>3, <3>1, GoShape DEF Steps
    <2>4. Requested'
      BY <2>2, <2>3, FinishShape
    <2>5. offered' \in [Rooms -> SUBSET (Users \X Users)]
      BY <1>0, <2>1, <2>2 DEF DbTyped
    <2>6. invites' \in [Rooms -> [Users -> Invite]]
      <3> DEFINE row == [by |-> q.user, status |-> "pending"]
      <3>1. row \in Invite
        BY <2>1 DEF Invite, Statuses
      <3>2. [invites EXCEPT ![q.room][g] = row] \in [Rooms -> [Users -> Invite]]
        BY <1>0, <2>1, <3>1 DEF DbTyped
      <3> QED
        BY <1>0, <2>2, <3>2 DEF DbTyped
    <2>7. DbTyped'
      BY <1>0, <1>12, <2>5, <2>6 DEF DbTyped, Insert
    <2> QED
      BY <1>12, <2>4, <2>7, DbStepTypeInv DEF Insert
  <1>13. CASE Notice(t)
    <2>1. Requested'
      BY <1>13, FinishShape DEF Notice
    <2>2. CacheTyped'
      BY <1>0, <1>13 DEF Notice, CacheTyped
    <2> QED
      BY <1>13, <2>1, <2>2, CacheStepTypeInv DEF Notice
  <1>14. CASE FindInvite(t)
    <2>1. q.at = "row" /\ q.user \in Users /\ q.room \in Rooms /\ q.guests \subseteq Users
      BY <1>0, <1>14 DEF FindInvite, At, Shape, Request
    <2>2. PICK g \in q.guests :
            IF g = q.user /\ invites[q.room][g].status = "pending"
              THEN req' = [req EXCEPT ![t].by = invites[q.room][g].by, ![t].at = "commit"]
              ELSE Finish(t)
      BY <1>14 DEF FindInvite
    <2> DEFINE q1 == [q EXCEPT !.by = invites[q.room][g].by, !.at = "commit"]
    <2>3. ASSUME g = q.user, req' = [req EXCEPT ![t] = q1] PROVE Requested'
      <3>1. invites[q.room][g].by \in Users \cup {NoUser}
        BY <1>0, <2>1 DEF DbTyped, Invite
      <3>2. q1 \in Request
        BY <1>0, <3>1 DEF Request, Steps
      <3>3. Shape(q1)
        BY <1>0, <2>1, <2>3 DEF Shape, Request
      <3> QED
        BY <2>3, <3>2, <3>3, UpdateShape
    <2>4. Requested'
      BY <2>2, <2>3, FinishShape
    <2> QED
      BY <1>14, <2>4, ReqStepTypeInv DEF FindInvite
  <1>15. CASE Commit(t)
    <2>1. q.at = "commit" /\ q.user \in Users /\ q.room \in Rooms
      BY <1>0, <1>15 DEF Commit, At, Shape
    <2>2. ASSUME Go(t, "inval") PROVE Requested'
      <3>1. Shape([q EXCEPT !.at = "inval"])
        BY <1>0, <2>1 DEF Shape, Request
      <3> QED
        BY <2>2, <3>1, GoShape DEF Steps
    <2>3. Requested'
      BY <1>15, <2>2, FinishShape DEF Commit
    <2>4. DbTyped'
      <3>1. CASE q.user \in users
        <4>0. AddMembers(q.room, {q.user})
          BY <1>15, <3>1 DEF Commit
        <4>1. members' \in [Rooms -> SUBSET Users] /\ joined' \in [Rooms -> SUBSET Users]
              /\ was' \in [Rooms -> SUBSET {"pair", "group"}]
          BY <1>0, <2>1, <4>0, SizeTyped DEF AddMembers, DbTyped
        <4>2. invites' \in [Rooms -> [Users -> Invite]]
          <5> DEFINE row == [invites[q.room][q.user] EXCEPT !.status = "accepted"]
          <5>x. invites[q.room][q.user] \in Invite
            BY <1>0, <2>1 DEF DbTyped
          <5>0. row \in Invite
            BY <5>x DEF Invite, Statuses
          <5>1. [invites EXCEPT ![q.room][q.user] = row] \in [Rooms -> [Users -> Invite]]
            BY <1>0, <2>1, <5>0 DEF DbTyped
          <5> QED
            BY <1>0, <1>15, <3>1, <5>1 DEF Commit, DbTyped
        <4> QED
          BY <1>0, <1>15, <4>1, <4>2 DEF Commit, DbTyped
      <3>2. CASE q.user \notin users
        BY <1>0, <1>15, <3>2 DEF Commit, DbTyped
      <3> QED
        BY <3>1, <3>2
    <2> QED
      BY <1>15, <2>3, <2>4, DbStepTypeInv DEF Commit
  <1>16. CASE Create(t)
    <2>1. q.at = "create" /\ q.user \in Users /\ q.guests \subseteq Users
      BY <1>0, <1>16 DEF Create, At, Shape, Request
    <2>2. CASE (Finish(t) \/ RenderPage(t, General)) /\ UNCHANGED <<members, joined, was>>
      <3>1. Requested'
        BY <2>1, <2>2, FinishShape, RenderShape
      <3>2. DbTyped'
        BY <1>0, <1>16, <2>2 DEF Create, DbTyped
      <3> QED
        BY <1>16, <3>1, <3>2, DbStepTypeInv DEF Create
    <2>3. CASE \E r \in Rooms :
                 /\ joined[r] = {}
                 /\ AddMembers(r, q.guests \cup {q.user})
                 /\ req' = [req EXCEPT ![t].room = r, ![t].at = "inval"]
      <3>1. PICK r \in Rooms :
              /\ AddMembers(r, q.guests \cup {q.user})
              /\ req' = [req EXCEPT ![t].room = r, ![t].at = "inval"]
        BY <2>3
      <3> DEFINE q1 == [q EXCEPT !.room = r, !.at = "inval"]
      <3>2. q1 \in Request
        BY <1>0 DEF Request, Steps
      <3>3. Shape(q1)
        BY <1>0, <2>1 DEF Shape, Request
      <3>4. Requested'
        BY <3>1, <3>2, <3>3, UpdateShape
      <3>5. members' \in [Rooms -> SUBSET Users] /\ joined' \in [Rooms -> SUBSET Users]
            /\ was' \in [Rooms -> SUBSET {"pair", "group"}]
        BY <1>0, <2>1, <3>1, SizeTyped DEF AddMembers, DbTyped
      <3>6. DbTyped'
        BY <1>0, <1>16, <3>5 DEF Create, DbTyped
      <3> QED
        BY <1>16, <3>4, <3>6, DbStepTypeInv DEF Create
    <2> QED
      BY <1>16, <2>2, <2>3 DEF Create
  <1>17. CASE Inval(t)
    <2>1. q.at = "inval" /\ q.user \in Users /\ q.room \in Rooms
      BY <1>0, <1>17 DEF Inval, At, Shape
    <2>2. Shape([q EXCEPT !.at = "notify"])
      BY <1>0, <2>1 DEF Shape, Request
    <2>3. Requested'
      BY <1>17, <2>2, GoShape DEF Inval, Steps
    <2>4. CacheTyped'
      BY <1>0, <1>17, <2>1 DEF Inval, CacheTyped
    <2> QED
      BY <1>17, <2>3, <2>4, CacheStepTypeInv DEF Inval
  <1>18. CASE Notify(t)
    <2>1. Requested'
      BY <1>18, FinishShape DEF Notify
    <2>2. CacheTyped'
      BY <1>0, <1>18 DEF Notify, CacheTyped
    <2> QED
      BY <1>18, <2>1, <2>2, CacheStepTypeInv DEF Notify
  <1>19. CASE Mark(t)
    <2>1. Shape([q EXCEPT !.at = "parts"])
      BY <1>0, <1>19 DEF Shape, Request, Mark, At
    <2>2. Requested'
      BY <1>19, <2>1, GoShape DEF Mark, Steps
    <2>3. CacheTyped'
      BY <1>0, <1>19 DEF Mark, CacheTyped
    <2> QED
      BY <1>19, <2>2, <2>3, CacheStepTypeInv DEF Mark
  <1>20. CASE LookPending(t)
    <2>1. Shape([q EXCEPT !.at = "select_pending"]) /\ Shape([q EXCEPT !.at = "rooms"])
      BY <1>0, <1>20 DEF Shape, Request, LookPending, At
    <2>2. Go(t, "select_pending") \/ Go(t, "rooms")
      BY <1>20 DEF LookPending
    <2>3. Requested'
      BY <2>1, <2>2, GoShape DEF Steps
    <2> QED
      BY <1>20, <2>3, ReqStepTypeInv DEF LookPending
  <1>21. CASE SelectPending(t)
    <2> DEFINE q1 == [q EXCEPT !.pend = {r \in Rooms : invites[r][q.user].status = "pending"},
                               !.at = "fill_pending"]
    <2>1. q1 \in Request
      BY <1>0 DEF Request, Steps
    <2>2. Shape(q1)
      BY <1>0, <1>21 DEF Shape, Request, SelectPending, At
    <2>3. Requested'
      BY <1>21, <2>1, <2>2, UpdateShape DEF SelectPending
    <2> QED
      BY <1>21, <2>3, ReqStepTypeInv DEF SelectPending
  <1>22. CASE FillPending(t)
    <2> DEFINE q1 == [q EXCEPT !.pend = {}, !.at = "rooms"]
    <2>1. q1 \in Request
      BY <1>0 DEF Request, Steps
    <2>2. Shape(q1)
      BY <1>0, <1>22 DEF Shape, Request, FillPending, At
    <2>3. Requested'
      BY <1>22, <2>1, <2>2, UpdateShape DEF FillPending
    <2>4. CacheTyped'
      <3>1. q.pend \in SUBSET Rooms
        BY <1>0 DEF Request
      <3>2. /\ pending_invites' = [pending_invites EXCEPT ![q.user] = {q.pend}]
            /\ UNCHANGED <<accessible_rooms, accessible_room, room_participants>>
        BY <1>22 DEF FillPending
      <3>3. pending_invites' \in [Users -> SUBSET SUBSET Rooms]
        BY <1>0, <3>1, <3>2 DEF CacheTyped
      <3> QED
        BY <1>0, <3>2, <3>3 DEF CacheTyped
    <2> QED
      BY <1>22, <2>3, <2>4, CacheStepTypeInv DEF FillPending
  <1>23. CASE Serve(t) \/ Close(t) \/ Drop(t)
    <2>1. Requested'
      BY <1>23, FinishShape DEF Serve, Close, Drop
    <2> QED
      BY <1>23, <2>1, ReqStepTypeInv DEF Serve, Close, Drop
  <1>24. CASE Send(t)
    <2>1. Shape([q EXCEPT !.at = "sent"])
      BY <1>0, <1>24 DEF Shape, Request, Send, At
    <2>2. Requested'
      BY <1>24, <2>1, GoShape DEF Send, Steps
    <2>3. posted' \in [Rooms -> SUBSET BOOLEAN]
      BY <1>0, <1>24 DEF Send, DbTyped
    <2>4. DbTyped'
      BY <1>0, <1>24, <2>3 DEF Send, DbTyped
    <2> QED
      BY <1>24, <2>2, <2>4, DbStepTypeInv DEF Send
  <1>25. CASE Sent(t)
    <2>1. Shape([q EXCEPT !.at = "open"])
      BY <1>0, <1>25 DEF Shape, Request, Sent, At
    <2>2. Requested'
      BY <1>25, <2>1, GoShape DEF Sent, Steps
    <2>3. CacheTyped'
      BY <1>0, <1>25 DEF Sent, CacheTyped
    <2> QED
      BY <1>25, <2>2, <2>3, CacheStepTypeInv DEF Sent
  <1> QED
    BY <1>1, <1>2, <1>3, <1>4, <1>5, <1>6, <1>7, <1>8, <1>9, <1>10, <1>11, <1>12, <1>13,
       <1>14, <1>15, <1>16, <1>17, <1>18, <1>19, <1>20, <1>21, <1>22, <1>23, <1>24, <1>25
       DEF Handler

LEMMA EnvironmentTypeInv == ASSUME TypeInv, Environment PROVE TypeInv'
  <1>0. DbTyped /\ CacheTyped /\ Requested
    BY TypeParts
  <1>1. ASSUME NEW u \in Users, Delete(u) PROVE TypeInv'
    <2>1. NoInvite \in Invite
      BY DEF NoInvite, Invite, Statuses
    <2>2. invites' \in [Rooms -> [Users -> Invite]]
      BY <1>0, <1>1, <2>1 DEF Delete, DbTyped
    <2>3. members' \in [Rooms -> SUBSET Users] /\ was' \in [Rooms -> SUBSET {"pair", "group"}]
      BY <1>0, <1>1, SizeTyped DEF Delete, DbTyped
    <2>4. DbTyped'
      BY <1>0, <1>1, <2>2, <2>3 DEF Delete, DbTyped
    <2>5. Requested'
      BY <1>0, <1>1 DEF Delete, Requested
    <2> QED
      BY <1>1, <2>4, <2>5, DbStepTypeInv DEF Delete
  <1>2. ASSUME NEW u \in Users, ExpireRooms(u) \/ ExpirePending(u) PROVE TypeInv'
    <2>1. CacheTyped' /\ Requested'
      BY <1>0, <1>2 DEF ExpireRooms, ExpirePending, CacheTyped, Requested
    <2> QED
      BY <1>2, <2>1, CacheStepTypeInv DEF ExpireRooms, ExpirePending
  <1>3. ASSUME NEW u \in Users, NEW r \in Rooms, ExpireRoom(u, r) PROVE TypeInv'
    <2>1. CacheTyped' /\ Requested'
      BY <1>0, <1>3 DEF ExpireRoom, CacheTyped, Requested
    <2> QED
      BY <1>3, <2>1, CacheStepTypeInv DEF ExpireRoom
  <1>4. ASSUME NEW r \in Rooms, ExpireParts(r) PROVE TypeInv'
    <2>1. CacheTyped' /\ Requested'
      BY <1>0, <1>4 DEF ExpireParts, CacheTyped, Requested
    <2> QED
      BY <1>4, <2>1, CacheStepTypeInv DEF ExpireParts
  <1>5. CASE Restart
    <2>1. Blank("done") \in Request /\ Shape(Blank("done"))
      BY NamesAssumption DEF Blank, Request, Shape, Steps, Views, Kinds
    <2>2. Requested'
      BY <1>0, <1>5, <2>1 DEF Restart, Requested
    <2>3. CacheTyped'
      BY <1>5 DEF Restart, CacheTyped
    <2> QED
      BY <1>5, <2>2, <2>3, CacheStepTypeInv DEF Restart
  <1> QED
    BY <1>1, <1>2, <1>3, <1>4, <1>5 DEF Environment

LEMMA NextTypeInv == TypeInv /\ [Next]_vars => TypeInv'
  <1> SUFFICES ASSUME TypeInv, [Next]_vars PROVE TypeInv'
    OBVIOUS
  <1>1. CASE UNCHANGED vars
    BY <1>1, TypeParts DEF vars, dbVars, cacheVars, DbTyped, CacheTyped, Requested
  <1>2. CASE Next
    BY <1>2, HandlerTypeInv, EnvironmentTypeInv DEF Next
  <1> QED
    BY <1>1, <1>2

(* Every variable keeps its type, whatever the handlers do. *)
THEOREM Typing == Spec => []TypeOK
  <1>1. TypeInv => TypeOK
    BY DEF TypeInv
  <1> QED
    BY <1>1, InitTypeInv, NextTypeInv, PTL DEF Spec

-----------------------------------------------------------------------------
(* Every answer about a room that a cache or a handler holds was true at   *)
(* some time: j, o and w are the histories joined, offered and was.        *)
Seen(u, r, v, j, w) == v = "none" \/ (u \in j[r] /\ v \in w[r])

Invited(u, offers) == \E by \in Users : <<by, u>> \in offers

ReqHonest(q, j, o, w) ==
    /\ \A r \in Rooms : Seen(q.user, r, q.rows[r], j, w)
    /\ q.room \in Rooms =>
         /\ \A v \in q.view : v # "none" /\ Seen(q.user, q.room, v, j, w)
         /\ q.parts \subseteq j[q.room]
    /\ q.at = "insert" => q.user \in j[q.room]
    /\ q.at = "commit" => Invited(q.user, o[q.room])
    /\ q.at \in {"open", "sent"} => \E v \in Views : q.view = {v}

CacheHonest ==
    /\ \A u \in Users, r \in Rooms :
         /\ \A rows \in accessible_rooms[u] : Seen(u, r, rows[r], joined, was)
         /\ \A v \in accessible_room[u][r] : Seen(u, r, v, joined, was)
    /\ \A r \in Rooms : \A p \in room_participants[r] : p \subseteq joined[r]

DbHonest ==
    /\ \A r \in Rooms : members[r] \subseteq joined[r] /\ members[r] \subseteq users
    /\ \A r \in Rooms : joined[r] = {} => was[r] = {}
    /\ \A r \in Rooms : members[r] # {} => Size(members[r]) \in was[r]
    /\ \A r \in Rooms, u \in Users : invites[r][u].status # "none" => Invited(u, offered[r])
    /\ AcceptedIsMember
    /\ FlagFitsRoom

ReqsHonest == \A t \in Requests : ReqHonest(req[t], joined, offered, was)

Honest == DbHonest /\ CacheHonest /\ ReqsHonest

LEMMA InitHonest == Init => Honest
  <1> SUFFICES ASSUME Init PROVE Honest
    OBVIOUS
  <1>1. DbHonest
    BY InitMembersAssumption DEF Init, DbHonest, AcceptedIsMember, FlagFitsRoom, NoInvite
  <1>2. CacheHonest
    BY DEF Init, EmptyCaches, CacheHonest
  <1>3. ReqsHonest
    BY NamesAssumption DEF Init, ReqsHonest, ReqHonest, Blank, Seen
  <1> QED
    BY <1>1, <1>2, <1>3 DEF Honest

(* What was true at some time stays so. *)
Grow == \A r \in Rooms : /\ joined[r] \subseteq joined'[r]
                         /\ offered[r] \subseteq offered'[r]
                         /\ was[r] \subseteq was'[r]

LEMMA ReqKept ==
  ASSUME TypeInv, Grow, NEW t \in Requests, ReqHonest(req[t], joined, offered, was)
  PROVE  ReqHonest(req[t], joined', offered', was')
  <1>1. Shape(req[t])
    BY ReqTyped
  <1>2. \A r \in Rooms : Invited(req[t].user, offered[r]) => Invited(req[t].user, offered'[r])
    BY DEF Grow, Invited
  <1> QED
    BY <1>1, <1>2 DEF ReqHonest, Seen, Grow, Shape

LEMMA CacheKept ==
  ASSUME CacheHonest, Grow, UNCHANGED cacheVars
  PROVE  CacheHonest'
  BY DEF CacheHonest, Grow, Seen, cacheVars

(* The handlers that did not move keep what they hold. *)
LEMMA ReqsKept ==
  ASSUME TypeInv, Honest, Grow, NEW t \in Requests, NEW q, req' = [req EXCEPT ![t] = q],
         ReqHonest(q, joined', offered', was')
  PROVE  ReqsHonest'
  <1> SUFFICES ASSUME NEW x \in Requests PROVE ReqHonest(req'[x], joined', offered', was')
    BY DEF ReqsHonest
  <1>1. CASE x = t
    BY <1>1 DEF TypeInv, TypeOK
  <1>2. CASE x # t
    <2>1. req'[x] = req[x]
      BY <1>2 DEF TypeInv, TypeOK
    <2> QED
      BY <2>1, ReqKept DEF Honest, ReqsHonest
  <1> QED
    BY <1>1, <1>2

LEMMA FinishHonest ==
  ASSUME TypeInv, Honest, Grow, NEW t \in Requests, Finish(t)
  PROVE  ReqsHonest'
  <1>1. ReqHonest(Blank("done"), joined', offered', was')
    BY NamesAssumption DEF Blank, ReqHonest, Seen
  <1> QED
    BY <1>1, ReqsKept DEF Finish

LEMMA RenderHonest ==
  ASSUME TypeInv, Honest, Grow, NEW t \in Requests, NEW r, RenderPage(t, r)
  PROVE  ReqsHonest'
  <1> DEFINE q == [Blank("room") EXCEPT !.kind = "render", !.user = req[t].user,
                                        !.room = r, !.bypass = req[t].bypass]
  <1>1. ReqHonest(q, joined', offered', was')
    BY DEF Blank, ReqHonest, Seen
  <1> QED
    BY <1>1, ReqsKept DEF RenderPage

(* Moving on is honest unless the next step has something to show for it. *)
LEMMA GoHonest ==
  ASSUME TypeInv, Honest, Grow, NEW t \in Requests, NEW s \in Steps, Go(t, s),
         s = "insert" => req[t].user \in joined'[req[t].room],
         s = "commit" => Invited(req[t].user, offered'[req[t].room]),
         s \in {"open", "sent"} => \E v \in Views : req[t].view = {v}
  PROVE  ReqsHonest'
  <1>1. ReqHonest(req[t], joined', offered', was')
    BY ReqKept DEF Honest, ReqsHonest
  <1>2. ReqHonest([req[t] EXCEPT !.at = s], joined', offered', was')
    <2>1. req[t] \in Request
      BY ReqTyped
    <2> QED
      BY <1>1, <2>1 DEF ReqHonest, Request
  <1> QED
    BY <1>2, ReqsKept DEF Go

LEMMA GotRoomHonest ==
  ASSUME TypeInv, Honest, Grow, NEW t \in Requests, NEW v \in Views, GotRoom(t, v),
         req[t].room \in Rooms => Seen(req[t].user, req[t].room, v, joined', was')
  PROVE  ReqsHonest'
  <1> DEFINE q == [req[t] EXCEPT !.view = {v},
                             !.rows = [r \in Rooms |-> "none"],
                             !.at = CASE req[t].kind = "invite" -> "guest"
                                         [] req[t].kind = "render" -> "mark"
                                         [] req[t].kind = "ws" -> "open"
                                         [] OTHER -> "serve"]
  <1>1. CASE v # "none" /\ req' = [req EXCEPT ![t] = q]
    <2>1. req[t] \in Request
      BY ReqTyped
    <2>2. ReqHonest(req[t], joined', offered', was')
      BY ReqKept DEF Honest, ReqsHonest
    <2>3. ReqHonest(q, joined', offered', was')
      BY <1>1, <2>1, <2>2 DEF ReqHonest, Request, Seen
    <2> QED
      BY <1>1, <2>3, ReqsKept
  <1> QED
    BY <1>1, FinishHonest, RenderHonest DEF GotRoom

LEMMA GotRoomsHonest ==
  ASSUME TypeInv, Honest, Grow, NEW t \in Requests, NEW rows \in [Rooms -> Views],
         GotRooms(t, rows),
         \A r \in Rooms : Seen(req[t].user, r, rows[r], joined', was')
  PROVE  ReqsHonest'
  <1> DEFINE q == [req[t] EXCEPT !.rows = rows, !.at = "fill_room"]
  <1>1. CASE req' = [req EXCEPT ![t] = q]
    <2>1. req[t] \in Request
      BY ReqTyped
    <2>2. ReqHonest(req[t], joined', offered', was')
      BY ReqKept DEF Honest, ReqsHonest
    <2>3. ReqHonest(q, joined', offered', was')
      BY <2>1, <2>2 DEF ReqHonest, Request
    <2> QED
      BY <1>1, <2>3, ReqsKept
  <1> QED
    BY <1>1, FinishHonest DEF GotRooms

LEMMA GotPartsHonest ==
  ASSUME TypeInv, Honest, Grow, NEW t \in Requests, NEW p, GotParts(t, p),
         req[t].room \in Rooms => p \subseteq joined'[req[t].room]
  PROVE  ReqsHonest'
  <1> DEFINE q1 == [req[t] EXCEPT !.parts = {}, !.at = "pending"]
             q2 == [req[t] EXCEPT !.parts = p, !.at = "check"]
  <1>1. req[t] \in Request
    BY ReqTyped
  <1>2. ReqHonest(req[t], joined', offered', was')
    BY ReqKept DEF Honest, ReqsHonest
  <1>3. CASE req' = [req EXCEPT ![t] = q1]
    <2>1. ReqHonest(q1, joined', offered', was')
      BY <1>1, <1>2 DEF ReqHonest, Request
    <2> QED
      BY <1>3, <2>1, ReqsKept
  <1>4. CASE req' = [req EXCEPT ![t] = q2]
    <2>1. ReqHonest(q2, joined', offered', was')
      BY <1>1, <1>2 DEF ReqHonest, Request
    <2> QED
      BY <1>4, <2>1, ReqsKept
  <1> QED
    BY <1>3, <1>4, RenderHonest DEF GotParts

LEMMA DbKept == ASSUME Honest, UNCHANGED dbVars PROVE Grow /\ DbHonest'
  <1>1. Grow
    BY DEF dbVars, Grow
  <1>2. DbHonest'
    BY DEF Honest, dbVars, DbHonest, AcceptedIsMember, FlagFitsRoom
  <1> QED
    BY <1>1, <1>2

LEMMA HistoryKept == UNCHANGED dbVars => joined' = joined /\ offered' = offered /\ was' = was
  BY DEF dbVars

(* AddMembers is the only way membership grows. *)
LEMMA AddMembersGrow ==
  ASSUME TypeInv, NEW r \in Rooms, NEW S \in SUBSET Users, AddMembers(r, S), UNCHANGED offered
  PROVE  /\ Grow
         /\ members' = [members EXCEPT ![r] = members[r] \cup S]
         /\ joined' = [joined EXCEPT ![r] = joined[r] \cup S]
         /\ \A x \in Rooms : members[x] \subseteq members'[x]
  <1>0. /\ members \in [Rooms -> SUBSET Users] /\ joined \in [Rooms -> SUBSET Users]
        /\ was \in [Rooms -> SUBSET {"pair", "group"}]
    BY DEF TypeInv, TypeOK
  <1>1. members' = [members EXCEPT ![r] = members[r] \cup S]
        /\ joined' = [joined EXCEPT ![r] = joined[r] \cup S]
        /\ was' = [was EXCEPT ![r] = was[r] \cup {Size(members[r] \cup S)}]
    BY DEF AddMembers
  <1>2. \A x \in Rooms : joined[x] \subseteq joined'[x] /\ members[x] \subseteq members'[x]
    BY <1>0, <1>1
  <1>3. \A x \in Rooms : was[x] \subseteq was'[x]
    BY <1>0, <1>1
  <1> QED
    BY <1>1, <1>2, <1>3 DEF Grow

LEMMA AddMembersHonest ==
  ASSUME TypeInv, Honest, NEW r \in Rooms, NEW S \in SUBSET Users, AddMembers(r, S),
         S # {}, S \subseteq users, UNCHANGED <<users, offered, posted>>,
         \A x \in Rooms, u \in Users :
            \/ invites'[x][u].status = invites[x][u].status
            \/ invites'[x][u].status = "accepted" /\ x = r /\ u \in S /\ Invited(u, offered[r])
  PROVE  DbHonest'
  <1>0. /\ members \in [Rooms -> SUBSET Users] /\ joined \in [Rooms -> SUBSET Users]
        /\ was \in [Rooms -> SUBSET {"pair", "group"}]
    BY DEF TypeInv, TypeOK
  <1>1. Grow /\ members' = [members EXCEPT ![r] = members[r] \cup S]
        /\ joined' = [joined EXCEPT ![r] = joined[r] \cup S]
        /\ \A x \in Rooms : members[x] \subseteq members'[x]
    BY AddMembersGrow
  <1>2. was' = [was EXCEPT ![r] = was[r] \cup {Size(members[r] \cup S)}]
    BY DEF AddMembers
  <1>3. DbHonest
    BY DEF Honest
  <1>4. \A x \in Rooms : members'[x] \subseteq joined'[x] /\ members'[x] \subseteq users'
    BY <1>0, <1>1, <1>3 DEF DbHonest
  <1>5. \A x \in Rooms : joined'[x] = {} => was'[x] = {}
    BY <1>0, <1>1, <1>2, <1>3 DEF DbHonest
  <1>6. \A x \in Rooms : members'[x] # {} => Size(members'[x]) \in was'[x]
    BY <1>0, <1>1, <1>2, <1>3 DEF DbHonest
  <1>7. \A x \in Rooms, u \in Users : invites'[x][u].status # "none" => Invited(u, offered'[x])
    BY <1>3 DEF DbHonest
  <1>8. AcceptedIsMember'
    BY <1>0, <1>1, <1>3 DEF DbHonest, AcceptedIsMember
  <1>9. FlagFitsRoom'
    BY <1>1, <1>3 DEF DbHonest, FlagFitsRoom, Grow
  <1> QED
    BY <1>4, <1>5, <1>6, <1>7, <1>8, <1>9 DEF DbHonest

LEMMA HandlerHonest == ASSUME TypeInv, Honest, NEW t \in Requests, Handler(t) PROVE Honest'
  <1> DEFINE q == req[t]
  <1>0. /\ DbTyped /\ CacheTyped /\ q \in Request /\ Shape(q)
        /\ DbHonest /\ CacheHonest /\ ReqHonest(q, joined, offered, was)
    BY TypeParts, ReqTyped DEF Honest, ReqsHonest
  (* Steps that leave the database alone. *)
  <1>a. ASSUME UNCHANGED dbVars, CacheHonest', Grow => ReqsHonest' PROVE Honest'
    BY <1>a, DbKept DEF Honest
  <1>b. ASSUME UNCHANGED <<dbVars, cacheVars>>, Grow => ReqsHonest' PROVE Honest'
    BY <1>0, <1>b, DbKept, CacheKept DEF Honest
  <1>1. CASE Start(t)
    <2>1. PICK i \in Inputs :
            req' = [req EXCEPT ![t] = [Blank(FirstStep(i.kind)) EXCEPT
                   !.kind = i.kind, !.user = i.user, !.room = i.room,
                   !.guests = i.guests, !.bypass = i.bypass]]
      BY <1>1 DEF Start
    <2> DEFINE q1 == [Blank(FirstStep(i.kind)) EXCEPT
                   !.kind = i.kind, !.user = i.user, !.room = i.room,
                   !.guests = i.guests, !.bypass = i.bypass]
    <2>2. ReqHonest(q1, joined', offered', was')
      BY DEF ReqHonest, Blank, FirstStep, Seen
    <2>3. Grow => ReqsHonest'
      BY <2>1, <2>2, ReqsKept
    <2> QED
      BY <1>1, <1>b, <2>3 DEF Start
  <1>2. CASE LookRoom(t)
    <2>1. PICK entry \in IF q.room = General THEN {{}, {"general"}}
                         ELSE {accessible_room[q.user][q.room]} :
            IF q.bypass \/ entry = {} THEN Go(t, "rooms") ELSE \E v \in entry : GotRoom(t, v)
      BY <1>2 DEF LookRoom
    <2>2. q.user \in Users /\ UNCHANGED dbVars
      BY <1>0, <1>2 DEF LookRoom, At, Shape
    <2>3. entry \subseteq Views
          /\ (q.room \in Rooms => \A v \in entry : Seen(q.user, q.room, v, joined', was'))
      <3>1. CASE q.room = General
        BY <2>1, <3>1, NamesAssumption DEF Views
      <3>2. CASE q.room # General
        <4>1. q.room \in Rooms /\ entry = accessible_room[q.user][q.room]
          BY <1>0, <2>1, <3>2 DEF Request
        <4> QED
          BY <1>0, <2>2, <4>1, HistoryKept DEF CacheTyped, CacheHonest
      <3> QED
        BY <3>1, <3>2
    <2>4. Grow => ReqsHonest'
      BY <2>1, <2>3, GoHonest, GotRoomHonest DEF Steps
    <2> QED
      BY <1>2, <1>b, <2>4 DEF LookRoom
  <1>3. CASE LookRooms(t)
    <2>1. q.user \in Users /\ UNCHANGED dbVars
      BY <1>0, <1>3 DEF LookRooms, At, Shape
    <2>2. ASSUME NEW rows \in accessible_rooms[q.user], GotRooms(t, rows), Grow PROVE ReqsHonest'
      <3>1. rows \in [Rooms -> Views]
        BY <1>0, <2>1 DEF CacheTyped
      <3>2. \A r \in Rooms : Seen(q.user, r, rows[r], joined', was')
        BY <1>0, <2>1, HistoryKept DEF CacheHonest
      <3> QED
        BY <2>2, <3>1, <3>2, GotRoomsHonest
    <2>3. Grow => ReqsHonest'
      BY <1>3, <2>2, GoHonest DEF LookRooms, Steps
    <2> QED
      BY <1>3, <1>b, <2>3 DEF LookRooms
  <1>4. CASE SelectRooms(t)
    <2> DEFINE q1 == [q EXCEPT !.rows = RowsOf(q.user), !.at = "fill_rooms"]
    <2>1. \A r \in Rooms : Seen(q.user, r, RowsOf(q.user)[r], joined, was)
      BY <1>0 DEF RowsOf, Seen, DbHonest
    <2>2. UNCHANGED dbVars
      BY <1>4 DEF SelectRooms
    <2>3. ReqHonest(q1, joined', offered', was')
      <3>1. ReqHonest(q1, joined, offered, was)
        BY <1>0, <2>1 DEF ReqHonest, Request
      <3> QED
        BY <2>2, <3>1, HistoryKept
    <2>4. Grow => ReqsHonest'
      BY <1>4, <2>3, ReqsKept DEF SelectRooms
    <2> QED
      BY <1>4, <1>b, <2>4 DEF SelectRooms
  <1>5. CASE FillRooms(t)
    <2>1. q.user \in Users /\ q.rows \in [Rooms -> Views] /\ UNCHANGED dbVars
      BY <1>0, <1>5 DEF FillRooms, At, Shape, Request
    <2>2. \A r \in Rooms : Seen(q.user, r, q.rows[r], joined, was)
      BY <1>0 DEF ReqHonest
    <2>3. Grow => ReqsHonest'
      BY <1>5, <2>1, <2>2, HistoryKept, GotRoomsHonest DEF FillRooms
    <2>4. CacheHonest'
      <3>1. \A u \in Users : accessible_rooms'[u] = IF u = q.user THEN {q.rows}
                                                    ELSE accessible_rooms[u]
        BY <1>0, <1>5 DEF FillRooms, CacheTyped
      <3> QED
        BY <1>0, <1>5, <2>1, <2>2, <3>1, HistoryKept DEF FillRooms, CacheHonest
    <2> QED
      BY <1>a, <2>1, <2>3, <2>4
  <1>6. CASE FillRoom(t)
    <2>1. q.user \in Users /\ q.rows \in [Rooms -> Views] /\ UNCHANGED dbVars
      BY <1>0, <1>6 DEF FillRoom, At, Shape, Request
    <2>2. CASE q.room = General /\ GotRoom(t, "general") /\ UNCHANGED accessible_room
      <3>1. Grow => ReqsHonest'
        BY <2>2, NamesAssumption, GotRoomHonest DEF Views
      <3>2. CacheHonest'
        BY <1>0, <1>6, <2>1, <2>2, HistoryKept DEF FillRoom, CacheHonest
      <3> QED
        BY <1>a, <2>1, <3>1, <3>2
    <2>3. CASE /\ q.room \in Rooms
               /\ accessible_room' = [accessible_room EXCEPT ![q.user][q.room] = {q.rows[q.room]}]
               /\ GotRoom(t, q.rows[q.room])
      <3>1. Seen(q.user, q.room, q.rows[q.room], joined, was) /\ q.rows[q.room] \in Views
        BY <1>0, <2>1, <2>3 DEF ReqHonest
      <3>2. Grow => ReqsHonest'
        BY <2>1, <2>3, <3>1, HistoryKept, GotRoomHonest
      <3>3. \A u \in Users, r \in Rooms :
              accessible_room'[u][r] = IF u = q.user /\ r = q.room THEN {q.rows[q.room]}
                                       ELSE accessible_room[u][r]
        BY <1>0, <2>1, <2>3 DEF CacheTyped
      <3>4. CacheHonest'
        BY <1>0, <1>6, <2>1, <3>1, <3>3, HistoryKept DEF FillRoom, CacheHonest
      <3> QED
        BY <1>a, <2>1, <3>2, <3>4
    <2> QED
      BY <1>6, <2>2, <2>3 DEF FillRoom
  <1>7. CASE LookParts(t)
    <2>1. PICK entry \in IF q.room = General THEN {{}, {{}}} ELSE {room_participants[q.room]} :
            IF q.bypass \/ entry = {} THEN Go(t, "select_parts") ELSE \E p \in entry : GotParts(t, p)
      BY <1>7 DEF LookParts
    <2>2. UNCHANGED dbVars
      BY <1>7 DEF LookParts
    <2>3. q.room \in Rooms => \A p \in entry : p \subseteq joined'[q.room]
      BY <1>0, <2>1, <2>2, HistoryKept, NamesAssumption DEF CacheHonest
    <2>4. Grow => ReqsHonest'
      BY <2>1, <2>3, GoHonest, GotPartsHonest DEF Steps
    <2> QED
      BY <1>7, <1>b, <2>4 DEF LookParts
  <1>8. CASE SelectParts(t)
    <2> DEFINE q1 == [q EXCEPT !.parts = MembersOf(q.room), !.at = "fill_parts"]
    <2>1. q.room \in Rooms => MembersOf(q.room) \subseteq joined[q.room]
      BY <1>0, NamesAssumption DEF MembersOf, DbHonest
    <2>2. ReqHonest(q1, joined, offered, was)
      BY <1>0, <2>1 DEF ReqHonest, Request
    <2>3. UNCHANGED dbVars
      BY <1>8 DEF SelectParts
    <2>4. Grow => ReqsHonest'
      BY <1>8, <2>2, <2>3, HistoryKept, ReqsKept DEF SelectParts
    <2> QED
      BY <1>8, <1>b, <2>4 DEF SelectParts
  <1>9. CASE FillParts(t)
    <2>1. UNCHANGED dbVars
      BY <1>9 DEF FillParts
    <2>2. q.room \in Rooms => q.parts \subseteq joined[q.room]
      BY <1>0 DEF ReqHonest
    <2>3. Grow => ReqsHonest'
      BY <1>9, <2>1, <2>2, HistoryKept, GotPartsHonest DEF FillParts
    <2>4. \A r \in Rooms : room_participants'[r] = room_participants[r]
                           \/ (r = q.room /\ room_participants'[r] = {q.parts})
      BY <1>0, <1>9 DEF FillParts, CacheTyped
    <2>5. CacheHonest'
      BY <1>0, <1>9, <2>1, <2>2, <2>4, HistoryKept DEF FillParts, CacheHonest
    <2> QED
      BY <1>a, <2>1, <2>3, <2>5
  <1>10. CASE Guest(t)
    <2>1. Grow => ReqsHonest'
      BY <1>10, FinishHonest, RenderHonest, GoHonest DEF Guest, Steps
    <2> QED
      BY <1>10, <1>b, <2>1 DEF Guest
  <1>11. CASE Check(t)
    <2>1. q.at = "check" /\ q.room \in Rooms /\ UNCHANGED dbVars
      BY <1>0, <1>11 DEF Check, At, Shape
    <2>2. q.user \in q.parts => q.user \in joined'[q.room]
      BY <1>0, <2>1, HistoryKept DEF ReqHonest
    <2>3. ASSUME q.user \in q.parts, Go(t, "insert"), Grow PROVE ReqsHonest'
      BY <2>2, <2>3, GoHonest DEF Steps
    <2>4. Grow => ReqsHonest'
      BY <1>11, <2>3, FinishHonest, RenderHonest DEF Check
    <2> QED
      BY <1>11, <1>b, <2>4 DEF Check
  <1>12. CASE Insert(t)
    <2>1. q.at = "insert" /\ q.user \in Users /\ q.room \in Rooms /\ q.guests \subseteq Users
      BY <1>0, <1>12 DEF Insert, At, Shape, Request
    <2>2. PICK g \in q.guests :
            IF {q.user, g} \subseteq users /\ invites[q.room][g].status = "none"
              THEN /\ invites' = [invites EXCEPT ![q.room][g] = [by |-> q.user, status |-> "pending"]]
                   /\ offered' = [offered EXCEPT ![q.room] = @ \cup {<<q.user, g>>}]
                   /\ Go(t, "notice")
              ELSE Finish(t) /\ UNCHANGED <<invites, offered>>
      BY <1>12 DEF Insert
    <2>3. UNCHANGED <<users, members, joined, was, posted, cacheVars>>
      BY <1>12 DEF Insert
    <2>4. CASE UNCHANGED <<invites, offered>> /\ Finish(t)
      <3>1. UNCHANGED <<dbVars, cacheVars>>
        BY <2>3, <2>4 DEF dbVars
      <3> QED
        BY <1>b, <2>4, <3>1, FinishHonest
    <2>5. CASE /\ invites' = [invites EXCEPT ![q.room][g] = [by |-> q.user, status |-> "pending"]]
               /\ offered' = [offered EXCEPT ![q.room] = @ \cup {<<q.user, g>>}]
               /\ Go(t, "notice")
      <3>1. \A x \in Rooms : offered'[x] = IF x = q.room THEN offered[x] \cup {<<q.user, g>>} ELSE offered[x]
        BY <1>0, <2>5 DEF DbTyped
      <3>2. Grow
        BY <2>3, <3>1 DEF Grow
      <3>3. ReqsHonest'
        BY <2>5, <3>2, GoHonest DEF Steps
      <3>4. \A x \in Rooms, u \in Users :
              \/ invites'[x][u] = invites[x][u]
              \/ x = q.room /\ u = g /\ invites'[x][u].status = "pending"
        BY <1>0, <2>1, <2>5 DEF DbTyped
      <3>5. DbHonest'
        <4>1. \A x \in Rooms, u \in Users : invites'[x][u].status # "none" => Invited(u, offered'[x])
          <5>1. \A x \in Rooms, u \in Users : invites[x][u].status # "none" => Invited(u, offered[x])
            BY <1>0 DEF DbHonest
          <5> SUFFICES ASSUME NEW x \in Rooms, NEW u \in Users, invites'[x][u].status # "none"
                       PROVE  Invited(u, offered'[x])
            OBVIOUS
          <5>2. CASE invites'[x][u] = invites[x][u]
            BY <3>1, <5>1, <5>2 DEF Invited
          <5>3. CASE x = q.room /\ u = g
            BY <2>1, <3>1, <5>3 DEF Invited
          <5> QED
            BY <3>4, <5>2, <5>3
        <4>2. AcceptedIsMember'
          BY <1>0, <2>3, <3>4 DEF DbHonest, AcceptedIsMember
        <4>3. FlagFitsRoom'
          BY <1>0, <2>3 DEF DbHonest, FlagFitsRoom
        <4> QED
          BY <1>0, <2>3, <4>1, <4>2, <4>3 DEF DbHonest
      <3>6. CacheHonest'
        BY <1>0, <2>3, <3>2, CacheKept
      <3> QED
        BY <3>3, <3>5, <3>6 DEF Honest
    <2> QED
      BY <2>2, <2>4, <2>5
  <1>13. CASE Notice(t)
    <2>1. UNCHANGED dbVars
      BY <1>13 DEF Notice
    <2>2. CacheHonest'
      BY <1>0, <1>13, <2>1, HistoryKept DEF Notice, CacheHonest
    <2> QED
      BY <1>13, <1>a, <2>1, <2>2, FinishHonest DEF Notice
  <1>14. CASE FindInvite(t)
    <2>1. q.at = "row" /\ q.user \in Users /\ q.room \in Rooms
      BY <1>0, <1>14 DEF FindInvite, At, Shape
    <2>2. PICK g \in q.guests :
            IF g = q.user /\ invites[q.room][g].status = "pending"
              THEN req' = [req EXCEPT ![t].by = invites[q.room][g].by, ![t].at = "commit"]
              ELSE Finish(t)
      BY <1>14 DEF FindInvite
    <2>3. UNCHANGED <<dbVars, cacheVars>>
      BY <1>14 DEF FindInvite
    <2> DEFINE q1 == [q EXCEPT !.by = invites[q.room][g].by, !.at = "commit"]
    <2>4. ASSUME g = q.user, invites[q.room][g].status = "pending", req' = [req EXCEPT ![t] = q1], Grow
          PROVE  ReqsHonest'
      <3>1. Invited(q.user, offered[q.room])
        BY <1>0, <2>1, <2>4 DEF DbHonest
      <3>2. ReqHonest(q1, joined, offered, was)
        BY <1>0, <3>1 DEF ReqHonest, Request
      <3> QED
        BY <2>3, <2>4, <3>2, HistoryKept, ReqsKept
    <2>5. Grow => ReqsHonest'
      BY <2>2, <2>4, FinishHonest
    <2> QED
      BY <1>b, <2>3, <2>5
  <1>15. CASE Commit(t)
    <2>1. q.at = "commit" /\ q.user \in Users /\ q.room \in Rooms
      BY <1>0, <1>15 DEF Commit, At, Shape
    <2>2. CASE q.user \notin users
      <3>1. UNCHANGED <<dbVars, cacheVars>> /\ Finish(t)
        BY <1>15, <2>2 DEF Commit, dbVars
      <3> QED
        BY <1>b, <3>1, FinishHonest
    <2>3. CASE q.user \in users
      <3>1. AddMembers(q.room, {q.user}) /\ UNCHANGED <<users, offered, posted, cacheVars>>
            /\ Go(t, "inval")
        BY <1>15, <2>3 DEF Commit
      <3>2. Grow
        BY <2>1, <3>1, AddMembersGrow
      <3>3. Invited(q.user, offered[q.room])
        BY <1>0, <2>1 DEF ReqHonest
      <3>4. \A x \in Rooms, u \in Users :
               \/ invites'[x][u].status = invites[x][u].status
               \/ invites'[x][u].status = "accepted" /\ x = q.room /\ u = q.user
        <4>1. CASE invites' = invites
          BY <4>1
        <4>2. CASE invites' = [invites EXCEPT ![q.room][q.user].status = "accepted"]
          <5>1. invites[q.room][q.user] \in Invite
            BY <1>0, <2>1 DEF DbTyped
          <5>2. [invites[q.room][q.user] EXCEPT !.status = "accepted"].status = "accepted"
            BY <5>1 DEF Invite
          <5> QED
            BY <1>0, <2>1, <4>2, <5>2 DEF DbTyped
        <4> QED
          BY <1>15, <2>3, <4>1, <4>2 DEF Commit
      <3>5. DbHonest'
        BY <2>1, <2>3, <3>1, <3>3, <3>4, AddMembersHonest
      <3>6. ReqsHonest'
        BY <3>1, <3>2, GoHonest DEF Steps
      <3>7. CacheHonest'
        BY <1>0, <3>1, <3>2, CacheKept
      <3> QED
        BY <3>5, <3>6, <3>7 DEF Honest
    <2> QED
      BY <2>2, <2>3
  <1>16. CASE Create(t)
    <2>1. q.at = "create" /\ q.user \in Users /\ q.guests \subseteq Users /\ q.view = {} /\ q.parts = {}
      BY <1>0, <1>16 DEF Create, At, Shape, Request
    <2>2. UNCHANGED <<users, invites, offered, posted, cacheVars>>
      BY <1>16 DEF Create
    <2>3. CASE (Finish(t) \/ RenderPage(t, General)) /\ UNCHANGED <<members, joined, was>>
      <3>1. UNCHANGED <<dbVars, cacheVars>>
        BY <2>2, <2>3 DEF dbVars
      <3> QED
        BY <1>b, <2>3, <3>1, FinishHonest, RenderHonest
    <2>4. CASE /\ q.guests \cup {q.user} \subseteq users
               /\ \E r \in Rooms :
                    /\ AddMembers(r, q.guests \cup {q.user})
                    /\ req' = [req EXCEPT ![t].room = r, ![t].at = "inval"]
      <3>1. PICK r \in Rooms :
              /\ AddMembers(r, q.guests \cup {q.user})
              /\ req' = [req EXCEPT ![t].room = r, ![t].at = "inval"]
        BY <2>4
      <3> DEFINE q1 == [q EXCEPT !.room = r, !.at = "inval"]
      <3>2. Grow
        BY <2>1, <2>2, <3>1, AddMembersGrow
      <3>3. DbHonest'
        BY <2>1, <2>2, <2>4, <3>1, AddMembersHonest
      <3>4. ReqHonest(q, joined', offered', was')
        BY <1>0, <3>2, ReqKept
      <3>5. ReqHonest(q1, joined', offered', was')
        BY <1>0, <2>1, <3>4 DEF ReqHonest, Request
      <3>6. ReqsHonest'
        BY <3>1, <3>2, <3>5, ReqsKept
      <3>7. CacheHonest'
        BY <1>0, <2>2, <3>2, CacheKept
      <3> QED
        BY <3>3, <3>6, <3>7 DEF Honest
    <2> QED
      BY <1>16, <2>3, <2>4 DEF Create
  <1>17. CASE Inval(t)
    <2>1. q.room \in Rooms /\ UNCHANGED dbVars
      BY <1>0, <1>17 DEF Inval, At, Shape
    <2>2. \A u \in Users, r \in Rooms : /\ accessible_rooms'[u] \subseteq accessible_rooms[u]
                                        /\ accessible_room'[u][r] \subseteq accessible_room[u][r]
      BY <1>0, <1>17 DEF Inval, CacheTyped
    <2>3. \A r \in Rooms : room_participants'[r] \subseteq room_participants[r]
      BY <1>0, <1>17 DEF Inval, CacheTyped
    <2>4. CacheHonest'
      BY <1>0, <2>1, <2>2, <2>3, HistoryKept DEF CacheHonest
    <2>5. Go(t, "notify")
      BY <1>17 DEF Inval
    <2> QED
      BY <1>a, <2>1, <2>4, <2>5, GoHonest DEF Steps
  <1>18. CASE Notify(t)
    <2>1. UNCHANGED <<dbVars, accessible_rooms, accessible_room>> /\ Finish(t)
      BY <1>18 DEF Notify
    <2>2. \A r \in Rooms : room_participants'[r] \subseteq room_participants[r]
      BY <1>0, <1>18 DEF Notify, CacheTyped
    <2>3. CacheHonest'
      BY <1>0, <2>1, <2>2, HistoryKept DEF CacheHonest
    <2> QED
      BY <1>a, <2>1, <2>3, FinishHonest
  <1>19. CASE Mark(t)
    <2>1. UNCHANGED <<dbVars, accessible_room, room_participants>> /\ Go(t, "parts")
      BY <1>19 DEF Mark
    <2>2. \A u \in Users : accessible_rooms'[u] \subseteq accessible_rooms[u]
      BY <1>0, <1>19 DEF Mark, CacheTyped
    <2>3. CacheHonest'
      BY <1>0, <2>1, <2>2, HistoryKept DEF CacheHonest
    <2> QED
      BY <1>a, <2>1, <2>3, GoHonest DEF Steps
  <1>20. CASE LookPending(t)
    <2>1. UNCHANGED <<dbVars, cacheVars>> /\ (Go(t, "select_pending") \/ Go(t, "rooms"))
      BY <1>20 DEF LookPending
    <2> QED
      BY <1>b, <2>1, GoHonest DEF Steps
  <1>21. CASE SelectPending(t)
    <2> DEFINE q1 == [q EXCEPT !.pend = {r \in Rooms : invites[r][q.user].status = "pending"},
                               !.at = "fill_pending"]
    <2>1. ReqHonest(q1, joined, offered, was)
      BY <1>0 DEF ReqHonest, Request
    <2>2. UNCHANGED <<dbVars, cacheVars>> /\ req' = [req EXCEPT ![t] = q1]
      BY <1>21 DEF SelectPending
    <2>3. Grow => ReqsHonest'
      BY <2>1, <2>2, HistoryKept, ReqsKept
    <2> QED
      BY <1>b, <2>2, <2>3
  <1>22. CASE FillPending(t)
    <2> DEFINE q1 == [q EXCEPT !.pend = {}, !.at = "rooms"]
    <2>1. ReqHonest(q1, joined, offered, was)
      BY <1>0 DEF ReqHonest, Request
    <2>2. /\ UNCHANGED <<dbVars, accessible_rooms, accessible_room, room_participants>>
          /\ req' = [req EXCEPT ![t] = q1]
      BY <1>22 DEF FillPending
    <2>3. Grow => ReqsHonest'
      BY <2>1, <2>2, HistoryKept, ReqsKept
    <2>4. CacheHonest'
      BY <1>0, <2>2, HistoryKept DEF CacheHonest
    <2> QED
      BY <1>a, <2>2, <2>3, <2>4
  <1>23. CASE Serve(t) \/ Close(t) \/ Drop(t)
    <2>1. UNCHANGED <<dbVars, cacheVars>> /\ Finish(t)
      BY <1>23 DEF Serve, Close, Drop
    <2> QED
      BY <1>b, <2>1, FinishHonest
  <1>24. CASE Send(t)
    <2> DEFINE enc == q.view = {"pair"}
    <2>1. /\ q.at = "open" /\ q.room \in Rooms
          /\ posted' = [posted EXCEPT ![q.room] = @ \cup {enc}]
          /\ Go(t, "sent")
          /\ UNCHANGED <<users, members, invites, joined, offered, was, cacheVars>>
      BY <1>24 DEF Send, At
    <2>2. PICK v \in Views : q.view = {v} /\ v # "none" /\ Seen(q.user, q.room, v, joined, was)
      BY <1>0, <2>1 DEF ReqHonest
    <2>3. (IF enc THEN "pair" ELSE "group") \in was[q.room]
      BY <1>0, <2>1, <2>2 DEF Seen, DbTyped
    <2>4. Grow
      BY <2>1 DEF Grow
    <2>5. FlagFitsRoom'
      <3>1. \A r \in Rooms : posted'[r] = IF r = q.room THEN posted[r] \cup {enc} ELSE posted[r]
        BY <1>0, <2>1 DEF DbTyped
      <3>3. ASSUME NEW r \in Rooms PROVE /\ TRUE \in posted'[r] => "pair" \in was[r]
                                         /\ FALSE \in posted'[r] => "group" \in was[r]
        <4>1. FlagFitsRoom
          BY <1>0 DEF DbHonest
        <4>2. CASE enc
          <5>1. posted'[r] \subseteq posted[r] \cup {TRUE} /\ (r = q.room => "pair" \in was[r])
            BY <2>3, <3>1, <4>2
          <5>2. r # q.room => posted'[r] = posted[r]
            BY <3>1
          <5> QED
            BY <4>1, <5>1, <5>2 DEF FlagFitsRoom
        <4>3. CASE ~enc
          <5>1. posted'[r] \subseteq posted[r] \cup {FALSE} /\ (r = q.room => "group" \in was[r])
            BY <2>3, <3>1, <4>3
          <5>2. r # q.room => posted'[r] = posted[r]
            BY <3>1
          <5> QED
            BY <4>1, <5>1, <5>2 DEF FlagFitsRoom
        <4> QED
          BY <4>2, <4>3
      <3> QED
        BY <2>1, <3>3 DEF FlagFitsRoom
    <2>6. DbHonest'
      BY <1>0, <2>1, <2>5 DEF DbHonest, AcceptedIsMember
    <2>7. ReqsHonest'
      BY <2>1, <2>2, <2>4, GoHonest DEF Steps
    <2>8. CacheHonest'
      BY <1>0, <2>1, <2>4, CacheKept
    <2> QED
      BY <2>6, <2>7, <2>8 DEF Honest
  <1>25. CASE Sent(t)
    <2>1. q.at = "sent" /\ UNCHANGED <<dbVars, accessible_rooms, accessible_room>> /\ Go(t, "open")
      BY <1>25 DEF Sent, At
    <2>2. \A r \in Rooms : room_participants'[r] \subseteq room_participants[r]
      BY <1>0, <1>25 DEF Sent, CacheTyped
    <2>3. CacheHonest'
      BY <1>0, <2>1, <2>2, HistoryKept DEF CacheHonest
    <2>4. \E v \in Views : q.view = {v}
      BY <1>0, <2>1 DEF ReqHonest
    <2> QED
      BY <1>a, <2>1, <2>3, <2>4, GoHonest DEF Steps
  <1> QED
    BY <1>1, <1>2, <1>3, <1>4, <1>5, <1>6, <1>7, <1>8, <1>9, <1>10, <1>11, <1>12, <1>13,
       <1>14, <1>15, <1>16, <1>17, <1>18, <1>19, <1>20, <1>21, <1>22, <1>23, <1>24, <1>25
       DEF Handler

LEMMA EnvironmentHonest == ASSUME TypeInv, Honest, Environment PROVE Honest'
  <1>0. DbTyped /\ CacheTyped /\ Requested /\ DbHonest /\ CacheHonest /\ ReqsHonest
    BY TypeParts DEF Honest
  <1>a. ASSUME UNCHANGED <<dbVars, req>>, CacheHonest' PROVE Honest'
    BY <1>0, <1>a, DbKept, HistoryKept DEF Honest, ReqsHonest
  <1>1. ASSUME NEW u \in Users, Delete(u) PROVE Honest'
    <2>1. /\ users' = users \ {u}
          /\ members' = [r \in Rooms |-> members[r] \ {u}]
          /\ was' = [r \in Rooms |-> IF u \in members[r]
                                       THEN was[r] \cup {Size(members[r] \ {u})} ELSE was[r]]
          /\ UNCHANGED <<joined, offered, posted, cacheVars, req>>
      BY <1>1 DEF Delete
    <2>2. \A r \in Rooms, v \in Users :
            \/ invites'[r][v].status = "none"
            \/ invites'[r][v] = invites[r][v] /\ v # u
      BY <1>1 DEF Delete, NoInvite
    <2>3. Grow
      BY <2>1 DEF Grow
    <2>4. \A r \in Rooms : /\ members'[r] \subseteq joined'[r] /\ members'[r] \subseteq users'
                           /\ joined'[r] = {} => was'[r] = {}
      BY <1>0, <2>1 DEF DbHonest
    <2>5. \A r \in Rooms : members'[r] # {} => Size(members'[r]) \in was'[r]
      <3> SUFFICES ASSUME NEW r \in Rooms, members'[r] # {} PROVE Size(members'[r]) \in was'[r]
        OBVIOUS
      <3>1. CASE u \in members[r]
        BY <2>1, <3>1
      <3>2. CASE u \notin members[r]
        <4>1. members'[r] = members[r]
          BY <1>0, <2>1, <3>2 DEF DbTyped
        <4> QED
          BY <1>0, <2>1, <3>2, <4>1 DEF DbHonest
      <3> QED
        BY <3>1, <3>2
    <2>6. \A r \in Rooms, v \in Users : invites'[r][v].status # "none" => Invited(v, offered'[r])
      BY <1>0, <2>1, <2>2 DEF DbHonest
    <2>7. AcceptedIsMember'
      BY <1>0, <2>1, <2>2 DEF DbHonest, AcceptedIsMember
    <2>8. FlagFitsRoom'
      BY <1>0, <2>1, <2>3 DEF DbHonest, FlagFitsRoom, Grow
    <2>9. ReqsHonest'
      BY <1>0, <2>1, <2>3, ReqKept DEF ReqsHonest
    <2>10. CacheHonest'
      BY <1>0, <2>1, <2>3, CacheKept
    <2> QED
      BY <2>4, <2>5, <2>6, <2>7, <2>8, <2>9, <2>10 DEF Honest, DbHonest
  <1>2. ASSUME NEW u \in Users, ExpireRooms(u) \/ ExpirePending(u) PROVE Honest'
    <2>1. UNCHANGED <<dbVars, accessible_room, room_participants, req>>
      BY <1>2 DEF ExpireRooms, ExpirePending
    <2>2. \A v \in Users : accessible_rooms'[v] \subseteq accessible_rooms[v]
      BY <1>0, <1>2 DEF ExpireRooms, ExpirePending, CacheTyped
    <2>3. CacheHonest'
      BY <1>0, <2>1, <2>2, HistoryKept DEF CacheHonest
    <2> QED
      BY <1>a, <2>1, <2>3
  <1>3. ASSUME NEW u \in Users, NEW r \in Rooms, ExpireRoom(u, r) PROVE Honest'
    <2>1. UNCHANGED <<dbVars, accessible_rooms, room_participants, req>>
      BY <1>3 DEF ExpireRoom
    <2>2. \A v \in Users, x \in Rooms : accessible_room'[v][x] \subseteq accessible_room[v][x]
      BY <1>0, <1>3 DEF ExpireRoom, CacheTyped
    <2>3. CacheHonest'
      BY <1>0, <2>1, <2>2, HistoryKept DEF CacheHonest
    <2> QED
      BY <1>a, <2>1, <2>3
  <1>4. ASSUME NEW r \in Rooms, ExpireParts(r) PROVE Honest'
    <2>1. UNCHANGED <<dbVars, accessible_rooms, accessible_room, req>>
      BY <1>4 DEF ExpireParts
    <2>2. \A x \in Rooms : room_participants'[x] \subseteq room_participants[x]
      BY <1>0, <1>4 DEF ExpireParts, CacheTyped
    <2>3. CacheHonest'
      BY <1>0, <2>1, <2>2, HistoryKept DEF CacheHonest
    <2> QED
      BY <1>a, <2>1, <2>3
  <1>5. CASE Restart
    <2>1. UNCHANGED dbVars
      BY <1>5 DEF Restart
    <2>2. Grow /\ DbHonest'
      BY <2>1, DbKept
    <2>3. CacheHonest'
      BY <1>5 DEF Restart, CacheHonest
    <2>4. ReqHonest(Blank("done"), joined', offered', was')
      BY NamesAssumption DEF Blank, ReqHonest, Seen
    <2>5. ReqsHonest'
      BY <1>0, <1>5, <2>2, <2>4, ReqKept DEF Restart, ReqsHonest
    <2> QED
      BY <2>2, <2>3, <2>5 DEF Honest
  <1> QED
    BY <1>1, <1>2, <1>3, <1>4, <1>5 DEF Environment

LEMMA NextHonest == TypeInv /\ Honest /\ [Next]_vars => Honest'
  <1> SUFFICES ASSUME TypeInv, Honest, [Next]_vars PROVE Honest'
    OBVIOUS
  <1>1. CASE UNCHANGED vars
    <2>1. UNCHANGED <<dbVars, cacheVars, req>>
      BY <1>1 DEF vars
    <2>2. Grow /\ DbHonest' /\ CacheHonest'
      BY <2>1, DbKept, CacheKept DEF Honest
    <2>3. ReqsHonest'
      BY <2>1, HistoryKept DEF Honest, ReqsHonest
    <2> QED
      BY <2>2, <2>3 DEF Honest
  <1>2. CASE Next
    BY <1>2, HandlerHonest, EnvironmentHonest DEF Next
  <1> QED
    BY <1>1, <1>2

(* The inductive invariant of the rooms: types, and nothing answered or    *)
(* held about a room that was never true.                                  *)
THEOREM Honesty == Spec => [](TypeInv /\ Honest)
  <1>1. Init => TypeInv /\ Honest
    BY InitTypeInv, InitHonest
  <1>2. TypeInv /\ Honest /\ [Next]_vars => (TypeInv /\ Honest)'
    BY NextTypeInv, NextHonest
  <1> QED
    BY <1>1, <1>2, PTL DEF Spec

(* Nobody is let into a room he never belonged to, however stale the       *)
(* caches and however many handlers are in flight.                         *)
THEOREM Access == Spec => []NoForeignAccess
  <1>1. TypeInv /\ Honest => NoForeignAccess
    <2> SUFFICES ASSUME TypeInv, Honest, NEW u \in Users, NEW r \in Rooms, u \notin joined[r]
                 PROVE  /\ accessible_room[u][r] \subseteq {"none"}
                        /\ \A rows \in accessible_rooms[u] : rows[r] = "none"
                        /\ \A t \in Requests : req[t].user = u =>
                             /\ req[t].rows[r] = "none"
                             /\ req[t].room = r => req[t].view = {}
      BY DEF NoForeignAccess
    <2>1. /\ accessible_room[u][r] \subseteq {"none"}
          /\ \A rows \in accessible_rooms[u] : rows[r] = "none"
      BY DEF Honest, CacheHonest, Seen
    <2>2. ASSUME NEW t \in Requests, req[t].user = u
          PROVE  req[t].rows[r] = "none" /\ (req[t].room = r => req[t].view = {})
      BY <2>2 DEF Honest, ReqsHonest, ReqHonest, Seen
    <2> QED
      BY <2>1, <2>2
  <1> QED
    BY <1>1, Honesty, PTL

(* An invitation is accepted exactly together with the membership it       *)
(* gives: the accepting transaction is never half done.                    *)
THEOREM AllOrNothing == Spec => []AcceptedIsMember
  <1>1. Honest => AcceptedIsMember
    BY DEF Honest, DbHonest
  <1> QED
    BY <1>1, Honesty, PTL

(* The encryption flag of every user message was right for its room at     *)
(* some time.                                                              *)
THEOREM Flags == Spec => []FlagFitsRoom
  <1>1. Honest => FlagFitsRoom
    BY DEF Honest, DbHonest
  <1> QED
    BY <1>1, Honesty, PTL

-----------------------------------------------------------------------------
(* The rooms implement Membership: five steps of the handlers and the      *)
(* deletion of a user are its actions, all others leave it alone.          *)
LEMMA SameSize == \A S : M!Size(S) = Size(S)
  BY DEF M!Size, Size

LEMMA AbstractStutter == UNCHANGED dbVars => UNCHANGED M!vars
  BY DEF dbVars, M!vars

LEMMA InsertOffers ==
  ASSUME TypeInv, Honest, NEW t \in Requests, Insert(t) PROVE [M!Next]_M!vars
  <1> DEFINE q == req[t]
  <1>1. q \in Request /\ Shape(q) /\ q.at = "insert"
    BY ReqTyped DEF Insert, At
  <1>2. q.user \in Users /\ q.room \in Rooms /\ q.guests \subseteq Users /\ q.user \notin q.guests
    BY <1>1 DEF Shape, Request
  <1>3. q.user \in joined[q.room]
    BY <1>1 DEF Honest, ReqsHonest, ReqHonest
  <1>4. PICK g \in q.guests :
          \/ {q.user, g} \subseteq users /\ offered' = [offered EXCEPT ![q.room] = @ \cup {<<q.user, g>>}]
          \/ UNCHANGED <<invites, offered>>
    BY DEF Insert
  <1>5. UNCHANGED <<users, members, joined, was, posted>>
    BY DEF Insert
  <1>6. CASE {q.user, g} \subseteq users /\ offered' = [offered EXCEPT ![q.room] = @ \cup {<<q.user, g>>}]
    <2>1. M!Offer(q.user, q.room, g)
      BY <1>2, <1>3, <1>5, <1>6 DEF M!Offer
    <2> QED
      BY <1>2, <2>1 DEF M!Next
  <1>7. CASE UNCHANGED offered
    BY <1>5, <1>7 DEF M!vars
  <1> QED
    BY <1>4, <1>6, <1>7

LEMMA CommitJoins ==
  ASSUME TypeInv, Honest, NEW t \in Requests, Commit(t) PROVE [M!Next]_M!vars
  <1> DEFINE q == req[t]
  <1>1. Shape(q) /\ q.at = "commit"
    BY ReqTyped DEF Commit, At
  <1>2. q.user \in Users /\ q.room \in Rooms
    BY <1>1 DEF Shape
  <1>3. Invited(q.user, offered[q.room])
    BY <1>1 DEF Honest, ReqsHonest, ReqHonest
  <1>4. UNCHANGED <<users, offered, posted>>
    BY DEF Commit
  <1>5. CASE q.user \in users
    <2>1. AddMembers(q.room, {q.user})
      BY <1>5 DEF Commit
    <2>2. M!Join(q.room, q.user)
      BY <1>3, <1>4, <1>5, <2>1, SameSize DEF AddMembers, M!Join, Invited
    <2> QED
      BY <1>2, <2>2 DEF M!Next
  <1>6. CASE q.user \notin users
    BY <1>4, <1>6 DEF Commit, M!vars
  <1> QED
    BY <1>5, <1>6

LEMMA CreateOpens ==
  ASSUME TypeInv, Honest, NEW t \in Requests, Create(t) PROVE [M!Next]_M!vars
  <1> DEFINE q == req[t]
             S == q.guests \cup {q.user}
  <1>0. DbTyped /\ DbHonest
    BY TypeParts DEF Honest
  <1>1. q \in Request /\ q.user \in Users /\ q.guests \subseteq Users /\ q.user \notin q.guests
    BY ReqTyped DEF Shape, Request, Create, At
  <1>2. UNCHANGED <<users, offered, posted>>
    BY DEF Create
  <1>3. CASE UNCHANGED <<members, joined, was>>
    BY <1>2, <1>3 DEF M!vars
  <1>4. CASE /\ q.guests # {} /\ S \subseteq users
             /\ \E r \in Rooms : joined[r] = {} /\ AddMembers(r, S)
    <2>1. PICK r \in Rooms : joined[r] = {} /\ AddMembers(r, S)
      BY <1>4
    <2>2. members[r] = {} /\ was[r] = {}
      BY <1>0, <2>1 DEF DbHonest
    <2>3. members' = [members EXCEPT ![r] = S] /\ joined' = [joined EXCEPT ![r] = S]
          /\ was' = [was EXCEPT ![r] = {M!Size(S)}]
      BY <2>1, <2>2, SameSize DEF AddMembers
    <2>4. \E x, y \in S : x # y
      BY <1>1, <1>4
    <2>5. M!Open(r, S)
      BY <1>2, <1>4, <2>1, <2>3, <2>4 DEF M!Open
    <2>6. S \in SUBSET Users
      BY <1>1
    <2> QED
      BY <2>5, <2>6 DEF M!Next
  <1> QED
    BY <1>3, <1>4 DEF Create

LEMMA SendPosts ==
  ASSUME TypeInv, Honest, NEW t \in Requests, Send(t) PROVE [M!Next]_M!vars
  <1> DEFINE q == req[t]
             enc == q.view = {"pair"}
  <1>1. /\ q.at = "open" /\ q.room \in Rooms /\ q.user \in users
        /\ posted' = [posted EXCEPT ![q.room] = @ \cup {enc}]
        /\ UNCHANGED <<users, members, joined, offered, was>>
    BY DEF Send, At
  <1>2. PICK v \in Views : q.view = {v} /\ v # "none" /\ Seen(q.user, q.room, v, joined, was)
    BY <1>1 DEF Honest, ReqsHonest, ReqHonest
  <1>3. was \in [Rooms -> SUBSET {"pair", "group"}] /\ users \subseteq Users
    BY DEF TypeInv, TypeOK
  <1>4. q.user \in users \cap joined[q.room] /\ (IF enc THEN "pair" ELSE "group") \in was[q.room]
    BY <1>1, <1>2, <1>3 DEF Seen
  <1>5. M!Post(q.user, q.room, enc)
    BY <1>1, <1>4 DEF M!Post
  <1>6. enc \in BOOLEAN
    OBVIOUS
  <1> QED
    BY <1>1, <1>3, <1>5, <1>6 DEF M!Next

LEMMA DeleteLeaves == ASSUME NEW u \in Users, Delete(u) PROVE M!Next
  <1>1. M!Leave(u)
    BY SameSize DEF Delete, M!Leave
  <1> QED
    BY <1>1 DEF M!Next

LEMMA StepImplements == TypeInv /\ Honest /\ [Next]_vars => [M!Next]_M!vars
  <1> SUFFICES ASSUME TypeInv, Honest, [Next]_vars PROVE [M!Next]_M!vars
    OBVIOUS
  <1>1. CASE UNCHANGED vars
    BY <1>1, AbstractStutter DEF vars
  <1>2. ASSUME NEW t \in Requests, Handler(t) PROVE [M!Next]_M!vars
    <2>1. \/ UNCHANGED dbVars
          \/ Insert(t) \/ Commit(t) \/ Create(t) \/ Send(t)
      BY <1>2 DEF Handler, Start, LookRoom, LookRooms, SelectRooms, FillRooms, FillRoom,
         LookParts, SelectParts, FillParts, Guest, Check, Notice, FindInvite, Inval, Notify,
         Mark, LookPending, SelectPending, FillPending, Serve, Sent, Close, Drop
    <2> QED
      BY <2>1, AbstractStutter, InsertOffers, CommitJoins, CreateOpens, SendPosts
  <1>3. CASE Environment
    <2>1. UNCHANGED dbVars \/ \E u \in Users : Delete(u)
      BY <1>3 DEF Environment, ExpireRooms, ExpireRoom, ExpireParts, ExpirePending, Restart
    <2> QED
      BY <2>1, AbstractStutter, DeleteLeaves
  <1> QED
    BY <1>1, <1>2, <1>3 DEF Next

(* Rooms served from stale caches by interleaved handlers still keep what  *)
(* Membership promises: only the invited join, only members of some time   *)
(* invite and write.                                                       *)
THEOREM Implementation == Spec => Refines
  <1>1. Init => M!Init
    BY InitMembersAssumption, SameSize DEF Init, M!Init
  <1>2. TypeInv /\ Honest /\ [Next]_vars => [M!Next]_M!vars
    BY StepImplements
  <1> QED
    BY <1>1, <1>2, Honesty, PTL DEF Spec, Refines, M!Spec

-----------------------------------------------------------------------------
(* The chain of invitations follows from Membership alone, once offers are *)
(* known to come from inside: a closed set that held everybody before a    *)
(* join held the inviter, so it holds the one who joins.                   *)
Chained ==
    /\ \A r \in Rooms : InitMembers[r] \subseteq joined[r]
    /\ \A r \in Rooms : \A offer \in offered[r] : offer[1] \in joined[r]
    /\ OnlyByInvitation

LEMMA InitChained == Init => Chained
  BY InitMembersAssumption DEF Init, Chained, OnlyByInvitation

LEMMA MembershipChains ==
  ASSUME TypeInv, Chained, [M!Next]_M!vars PROVE Chained'
  <1>0. /\ joined \in [Rooms -> SUBSET Users]
        /\ offered \in [Rooms -> SUBSET (Users \X Users)]
    BY DEF TypeInv, TypeOK
  <1>1. CASE UNCHANGED <<joined, offered>>
    BY <1>1 DEF Chained, OnlyByInvitation, Closed
  <1>2. ASSUME NEW r \in Rooms, NEW S \in SUBSET Users, M!Open(r, S) PROVE Chained'
    <2>1. joined[r] = {} /\ joined' = [joined EXCEPT ![r] = S] /\ offered' = offered
      BY <1>2 DEF M!Open
    <2>2. InitMembers[r] = {} /\ offered[r] = {}
      BY <2>1 DEF Chained
    <2>3. \A x \in Rooms : joined'[x] = IF x = r THEN S ELSE joined[x]
      BY <1>0, <2>1
    <2> QED
      BY <2>1, <2>2, <2>3 DEF Chained, OnlyByInvitation, Closed
  <1>3. ASSUME NEW by \in Users, NEW u \in Users, NEW r \in Rooms, M!Offer(by, r, u)
        PROVE  Chained'
    <2>1. /\ joined' = joined /\ by \in joined[r]
          /\ \A x \in Rooms : offered'[x] = IF x = r THEN offered[r] \cup {<<by, u>>}
                                                    ELSE offered[x]
      BY <1>0, <1>3 DEF M!Offer
    <2>2. \A x \in Rooms, S \in SUBSET Users : Closed(S, x)' => Closed(S, x)
      BY <2>1 DEF Closed
    <2>3. \A x \in Rooms : \A offer \in offered'[x] : offer[1] \in joined'[x]
      BY <2>1 DEF Chained
    <2>4. OnlyByInvitation'
      BY <2>1, <2>2 DEF Chained, OnlyByInvitation
    <2> QED
      BY <2>1, <2>3, <2>4 DEF Chained
  <1>4. ASSUME NEW r \in Rooms, NEW u \in Users, M!Join(r, u) PROVE Chained'
    <2>1. /\ offered' = offered
          /\ \A x \in Rooms : joined'[x] = IF x = r THEN joined[r] \cup {u} ELSE joined[x]
      BY <1>0, <1>4 DEF M!Join
    <2>2. PICK by \in Users : <<by, u>> \in offered[r]
      BY <1>4 DEF M!Join
    <2>3. by \in joined[r]
      BY <2>2 DEF Chained
    <2>4. ASSUME NEW x \in Rooms, InitMembers[x] # {}, NEW S \in SUBSET Users,
                 InitMembers[x] \subseteq S, Closed(S, x)
          PROVE  joined'[x] \subseteq S
      <3>1. joined[x] \subseteq S
        BY <2>4 DEF Chained, OnlyByInvitation
      <3>2. x = r => u \in S
        BY <2>2, <2>3, <2>4, <3>1 DEF Closed
      <3> QED
        BY <2>1, <3>1, <3>2
    <2>5. OnlyByInvitation'
      BY <2>1, <2>4 DEF OnlyByInvitation, Closed
    <2> QED
      BY <2>1, <2>5 DEF Chained
  <1>5. ASSUME \/ \E u \in Users : M!Leave(u)
               \/ \E u \in Users, r \in Rooms, enc \in BOOLEAN : M!Post(u, r, enc)
               \/ UNCHANGED M!vars
        PROVE  Chained'
    BY <1>1, <1>5 DEF M!Leave, M!Post, M!vars
  <1> QED
    BY <1>2, <1>3, <1>4, <1>5 DEF M!Next

(* Whoever was ever in a room of the start was there then, or owes it to   *)
(* an unbroken chain of invitations from somebody who was.                 *)
THEOREM ChainOfInvitations == Spec => []OnlyByInvitation
  <1>1. TypeInv /\ Honest /\ Chained /\ [Next]_vars => Chained'
    BY StepImplements, MembershipChains
  <1>2. Chained => OnlyByInvitation
    BY DEF Chained
  <1> QED
    BY <1>1, <1>2, InitChained, Honesty, PTL DEF Spec
=============================================================================
