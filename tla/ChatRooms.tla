----------------------------- MODULE ChatRooms ------------------------------
(***************************************************************************)
(* Private rooms of the chat: the database rows that say who belongs to a  *)
(* room, the four in-memory caches the server answers membership questions *)
(* from, and the HTTP handlers and chat sockets that read and write both.  *)
(*                                                                         *)
(* A handler is asynchronous: between two of its statements any other      *)
(* handler may run, the caller may disconnect (the handler is dropped), a  *)
(* cached entry may expire, a user may be deleted, the server may restart. *)
(* One action is one database statement or transaction, or one run of      *)
(* in-memory cache calls between two of them.                              *)
(*                                                                         *)
(* A cache entry is a set of at most one value; {} is a miss.              *)
(***************************************************************************)
CONSTANTS Users,        \* every user the database ever holds
          Rooms,        \* every private room that is ever created
          General,      \* the general room: no members, open to all, never encrypted
          NoUser,       \* no user
          Requests,     \* the HTTP requests and sockets of a behaviour, each used once
          InitMembers,  \* the members found in the database when the server starts
          Inputs,       \* what is requested of the server (bound)
          Deletable     \* the users that may be deleted (bound)

Kinds == {"create", "invite", "accept", "render", "read", "ws"}

(* What a request asks for. guests: the ids ticked on the form (create),   *)
(* the user to invite (invite), or the user whose invitation to the room   *)
(* the link names (accept). bypass: it carries Cache-Control: no-cache.    *)
Input == [kind : Kinds, user : Users, room : Rooms \cup {General},
          guests : SUBSET Users, bypass : BOOLEAN]
WellFormed(i) ==
    /\ i.kind = "create" => i.room = General /\ i.user \notin i.guests
    /\ i.kind = "accept" => i.room \in Rooms
    /\ i.kind \in {"invite", "accept"} => \E u \in Users : i.guests = {u}
    /\ i.kind \in {"render", "read", "ws"} => i.guests = {}

ASSUME NamesAssumption == General \notin Rooms /\ NoUser \notin Users
ASSUME InitMembersAssumption == InitMembers \in [Rooms -> SUBSET Users]
ASSUME BoundsAssumption ==
    Inputs \subseteq {i \in Input : WellFormed(i)} /\ Deletable \subseteq Users

VARIABLES
    \* the database
    users,             \* rows of users
    members,           \* room -> the users with a row in chat_room_members
    invites,           \* room -> invited user -> the row of chat_room_invites
    \* what the database held so far
    joined,            \* room -> the users that ever were members
    offered,           \* room -> who ever invited whom
    was,               \* room -> the sizes it ever had
    posted,            \* room -> the is_encrypted flags of its user messages
    \* the caches
    accessible_rooms,  \* user -> the list of rooms he may enter
    accessible_room,   \* user -> room -> that list's row for the room, or "none"
    room_participants, \* room -> its members
    pending_invites,   \* user -> the rooms with a pending invitation for him
    \* the handlers and sockets
    req

dbVars == <<users, members, invites, joined, offered, was, posted>>
cacheVars == <<accessible_rooms, accessible_room, room_participants, pending_invites>>
vars == <<dbVars, cacheVars, req>>

-----------------------------------------------------------------------------
Views == {"none", "pair", "group", "general"}
Statuses == {"none", "pending", "accepted"}
Steps == {"idle", "room", "rooms", "select_rooms", "fill_rooms", "fill_room",
          "guest", "parts", "select_parts", "fill_parts", "check", "insert", "notice",
          "row", "commit", "create", "inval", "notify", "mark",
          "pending", "select_pending", "fill_pending", "serve", "open", "sent", "done"}

Invite == [by : Users \cup {NoUser}, status : Statuses]
NoInvite == [by |-> NoUser, status |-> "none"]

Request == [kind : Kinds \cup {"none"}, user : Users \cup {NoUser},
            room : Rooms \cup {General}, guests : SUBSET Users, bypass : BOOLEAN,
            at : Steps,
            by : Users \cup {NoUser},   \* whose invitation an accept found
            view : SUBSET Views,        \* what get_room_for_user returned
            rows : [Rooms -> Views],    \* a list of rooms in flight
            parts : SUBSET Users,       \* participants in flight
            pend : SUBSET Rooms]        \* pending invitations in flight

Blank(step) == [kind |-> "none", user |-> NoUser, room |-> General, guests |-> {},
                bypass |-> FALSE, at |-> step, by |-> NoUser, view |-> {},
                rows |-> [r \in Rooms |-> "none"], parts |-> {}, pend |-> {}]

(* is_encrypted of a room's row is: private and participant_count = 2. *)
SizeOrAlone(S) == IF \E a \in Users : S = {a} THEN "alone"
                  ELSE IF \E a, b \in Users : a # b /\ S = {a, b} THEN "pair" ELSE "group"
Size(S) == IF \E a, b \in Users : a # b /\ S = {a, b} THEN "pair" ELSE "group"

(* The rows get_accessible_rooms selects for u. (Before it, as elsewhere   *)
(* in this project, stand the variants of the definition that PROJECT.json *)
(* lists as mutants.)                                                      *)
RowsUnfiltered(u) == [r \in Rooms |-> IF members[r] # {} THEN Size(members[r]) ELSE "none"]
RowsAnyPrivate(u) == [r \in Rooms |-> IF u \in members[r] THEN "pair" ELSE "none"]
RowsWithInvitees(u) ==
    [r \in Rooms |-> IF u \notin members[r] THEN "none"
                     ELSE Size(members[r] \cup {v \in Users : invites[r][v].status = "pending"})]
RowsOf(u) == [r \in Rooms |-> IF u \in members[r] THEN Size(members[r]) ELSE "none"]

TypeOK ==
    /\ users \subseteq Users
    /\ members \in [Rooms -> SUBSET Users]
    /\ invites \in [Rooms -> [Users -> Invite]]
    /\ joined \in [Rooms -> SUBSET Users]
    /\ offered \in [Rooms -> SUBSET (Users \X Users)]
    /\ was \in [Rooms -> SUBSET {"pair", "group"}]
    /\ posted \in [Rooms -> SUBSET BOOLEAN]
    /\ accessible_rooms \in [Users -> SUBSET [Rooms -> Views]]
    /\ accessible_room \in [Users -> [Rooms -> SUBSET Views]]
    /\ room_participants \in [Rooms -> SUBSET SUBSET Users]
    /\ pending_invites \in [Users -> SUBSET SUBSET Rooms]
    /\ req \in [Requests -> Request]

EmptyCaches ==
    /\ accessible_rooms = [u \in Users |-> {}]
    /\ accessible_room = [u \in Users |-> [r \in Rooms |-> {}]]
    /\ room_participants = [r \in Rooms |-> {}]
    /\ pending_invites = [u \in Users |-> {}]

Init ==
    /\ users = Users
    /\ members = InitMembers
    /\ invites = [r \in Rooms |-> [u \in Users |-> NoInvite]]
    /\ joined = InitMembers
    /\ offered = [r \in Rooms |-> {}]
    /\ was = [r \in Rooms |-> IF InitMembers[r] = {} THEN {} ELSE {Size(InitMembers[r])}]
    /\ posted = [r \in Rooms |-> {}]
    /\ EmptyCaches
    /\ req = [t \in Requests |-> Blank("idle")]

-----------------------------------------------------------------------------
(* How a handler goes on. *)
At(t, step) == req[t].at = step
Go(t, step) == req' = [req EXCEPT ![t].at = step]
Finish(t) == req' = [req EXCEPT ![t] = Blank("done")]

(* An error page is the page of a room, rendered from the start. *)
RenderPage(t, r) ==
    req' = [req EXCEPT ![t] = [Blank("room") EXCEPT !.kind = "render", !.user = req[t].user,
                                                    !.room = r, !.bypass = req[t].bypass]]

(* A session outlives its user in the session cache: the caller of a       *)
(* request need not exist any more.                                        *)
FirstStep(k) == CASE k = "create" -> "create" [] k = "accept" -> "row" [] OTHER -> "room"

Start(t) ==
    /\ At(t, "idle")
    /\ \E i \in Inputs :
         req' = [req EXCEPT ![t] = [Blank(FirstStep(i.kind)) EXCEPT
                   !.kind = i.kind, !.user = i.user, !.room = i.room,
                   !.guests = i.guests, !.bypass = i.bypass]]
    /\ UNCHANGED <<dbVars, cacheVars>>

-----------------------------------------------------------------------------
(* get_room_for_user, and get_accessible_rooms under it. *)
GotRoom(t, v) ==
    \/ v = "none" /\ Finish(t)
    \/ v = "general" /\ req[t].kind = "invite" /\ RenderPage(t, General)
    \/ /\ v # "none"
       /\ ~(v = "general" /\ req[t].kind = "invite")
       /\ req' = [req EXCEPT ![t].view = {v},
                             ![t].rows = [r \in Rooms |-> "none"],
                             ![t].at = CASE req[t].kind = "invite" -> "guest"
                                         [] req[t].kind = "render" -> "mark"
                                         [] req[t].kind = "ws" -> "open"
                                         [] OTHER -> "serve"]

(* The general room has one row for everybody: what its entry holds is     *)
(* fixed, and whether it is cached is left open.                           *)
LookRoom(t) ==
    /\ At(t, "room")
    /\ \E entry \in IF req[t].room = General THEN {{}, {"general"}}
                    ELSE {accessible_room[req[t].user][req[t].room]} :
         IF req[t].bypass \/ entry = {} THEN Go(t, "rooms")
         ELSE \E v \in entry : GotRoom(t, v)
    /\ UNCHANGED <<dbVars, cacheVars>>

(* A page lists the rooms a second time, after it got its own. *)
GotRooms(t, rows) ==
    IF req[t].view = {} THEN req' = [req EXCEPT ![t].rows = rows, ![t].at = "fill_room"]
                        ELSE Finish(t)

LookRooms(t) ==
    /\ At(t, "rooms")
    /\ IF req[t].bypass \/ accessible_rooms[req[t].user] = {} THEN Go(t, "select_rooms")
       ELSE \E rows \in accessible_rooms[req[t].user] : GotRooms(t, rows)
    /\ UNCHANGED <<dbVars, cacheVars>>

SelectRooms(t) ==
    /\ At(t, "select_rooms")
    /\ req' = [req EXCEPT ![t].rows = RowsOf(req[t].user), ![t].at = "fill_rooms"]
    /\ UNCHANGED <<dbVars, cacheVars>>

FillRooms(t) ==
    /\ At(t, "fill_rooms")
    /\ accessible_rooms' = [accessible_rooms EXCEPT ![req[t].user] = {req[t].rows}]
    /\ GotRooms(t, req[t].rows)
    /\ UNCHANGED <<dbVars, accessible_room, room_participants, pending_invites>>

FillRoom(t) ==
    /\ At(t, "fill_room")
    /\ LET u == req[t].user  r == req[t].room IN
       \/ /\ r = General
          /\ GotRoom(t, "general")
          /\ UNCHANGED accessible_room
       \/ /\ r \in Rooms
          /\ accessible_room' = [accessible_room EXCEPT ![u][r] = {req[t].rows[r]}]
          /\ GotRoom(t, req[t].rows[r])
    /\ UNCHANGED <<dbVars, accessible_rooms, room_participants, pending_invites>>

-----------------------------------------------------------------------------
(* get_room_participants. The general room has no rows of members. *)
MembersOf(r) == IF r = General THEN {} ELSE members[r]

GotParts(t, p) ==
    \/ req[t].kind = "render" /\ req' = [req EXCEPT ![t].parts = {}, ![t].at = "pending"]
    \/ req[t].kind = "invite" /\ req[t].guests \cap p # {} /\ RenderPage(t, req[t].room)
    \/ /\ req[t].kind = "invite" /\ req[t].guests \cap p = {}
       /\ req' = [req EXCEPT ![t].parts = p, ![t].at = "check"]

(* The entry of the general room is always the empty list: left open too. *)
LookParts(t) ==
    /\ At(t, "parts")
    /\ \E entry \in IF req[t].room = General THEN {{}, {{}}}
                    ELSE {room_participants[req[t].room]} :
         IF req[t].bypass \/ entry = {} THEN Go(t, "select_parts")
         ELSE \E p \in entry : GotParts(t, p)
    /\ UNCHANGED <<dbVars, cacheVars>>

SelectParts(t) ==
    /\ At(t, "select_parts")
    /\ req' = [req EXCEPT ![t].parts = MembersOf(req[t].room), ![t].at = "fill_parts"]
    /\ UNCHANGED <<dbVars, cacheVars>>

FillParts(t) ==
    /\ At(t, "fill_parts")
    /\ room_participants' = IF req[t].room = General THEN room_participants
                            ELSE [room_participants EXCEPT ![req[t].room] = {req[t].parts}]
    /\ GotParts(t, req[t].parts)
    /\ UNCHANGED <<dbVars, accessible_rooms, accessible_room, pending_invites>>

-----------------------------------------------------------------------------
(* invite_to_room, once the inviter has his view of the room. A deleted    *)
(* invitee may still be answered from the user cache.                      *)
Guest(t) ==
    /\ At(t, "guest")
    /\ \/ ~(req[t].guests \subseteq users) /\ Finish(t)
       \/ req[t].guests = {req[t].user} /\ RenderPage(t, req[t].room)
       \/ req[t].guests # {req[t].user} /\ Go(t, "parts")
    /\ UNCHANGED <<dbVars, cacheVars>>

Check(t) ==
    /\ At(t, "check")
    /\ \E g \in req[t].guests :
         IF invites[req[t].room][g].status = "pending" THEN RenderPage(t, req[t].room)
         ELSE IF req[t].user \notin req[t].parts THEN Finish(t)
         ELSE Go(t, "insert")
    /\ UNCHANGED <<dbVars, cacheVars>>

InsertUnchecked(t) ==
    /\ At(t, "insert")
    /\ \E g \in req[t].guests : LET u == req[t].user  r == req[t].room IN
         IF invites[r][g].status = "none"
           THEN /\ invites' = [invites EXCEPT ![r][g] = [by |-> u, status |-> "pending"]]
                /\ offered' = [offered EXCEPT ![r] = @ \cup {<<u, g>>}]
                /\ Go(t, "notice")
           ELSE Finish(t) /\ UNCHANGED <<invites, offered>>
    /\ UNCHANGED <<users, members, joined, was, posted, cacheVars>>

(* One row per room and invitee (UNIQUE), both users must exist (foreign   *)
(* keys): otherwise the statement, and the handler, fail.                  *)
Insert(t) ==
    /\ At(t, "insert")
    /\ \E g \in req[t].guests : LET u == req[t].user  r == req[t].room IN
         IF {u, g} \subseteq users /\ invites[r][g].status = "none"
           THEN /\ invites' = [invites EXCEPT ![r][g] = [by |-> u, status |-> "pending"]]
                /\ offered' = [offered EXCEPT ![r] = @ \cup {<<u, g>>}]
                /\ Go(t, "notice")
           ELSE Finish(t) /\ UNCHANGED <<invites, offered>>
    /\ UNCHANGED <<users, members, joined, was, posted, cacheVars>>

Notice(t) ==
    /\ At(t, "notice")
    /\ pending_invites' = [u \in Users |-> IF u \in req[t].guests THEN {}
                                             ELSE pending_invites[u]]
    /\ Finish(t)
    /\ UNCHANGED <<dbVars, accessible_rooms, accessible_room, room_participants>>

-----------------------------------------------------------------------------
(* accept_invite. An invitation is known by its room, its invitee and its  *)
(* inviter: the row of a deleted inviter is gone, and a later one differs. *)
FindAnyInvite(t) ==
    /\ At(t, "row")
    /\ \E g \in req[t].guests : LET invite == invites[req[t].room][g] IN
         IF g = req[t].user
           THEN req' = [req EXCEPT ![t].by = invite.by, ![t].at = "commit"]
           ELSE Finish(t)
    /\ UNCHANGED <<dbVars, cacheVars>>
FindInvite(t) ==
    /\ At(t, "row")
    /\ \E g \in req[t].guests : LET invite == invites[req[t].room][g] IN
         IF g = req[t].user /\ invite.status = "pending"
           THEN req' = [req EXCEPT ![t].by = invite.by, ![t].at = "commit"]
           ELSE Finish(t)
    /\ UNCHANGED <<dbVars, cacheVars>>

AddMembers(r, S) ==
    /\ members' = [members EXCEPT ![r] = @ \cup S]
    /\ joined' = [joined EXCEPT ![r] = @ \cup S]
    /\ was' = [was EXCEPT ![r] = @ \cup {Size(members[r] \cup S)}]

CommitInTwo(t) ==
    /\ At(t, "commit")
    /\ LET u == req[t].user  r == req[t].room IN
       IF u \in users
         THEN /\ \/ AddMembers(r, {u}) /\ Go(t, "inval")
                 \/ UNCHANGED <<members, joined, was>> /\ Finish(t)
              /\ invites' = IF invites[r][u].by = req[t].by
                              THEN [invites EXCEPT ![r][u].status = "accepted"] ELSE invites
         ELSE Finish(t) /\ UNCHANGED <<members, joined, was, invites>>
    /\ UNCHANGED <<users, offered, posted, cacheVars>>

(* One transaction: the member row, then the invitation's new status, if   *)
(* the invitation is still there.                                          *)
Commit(t) ==
    /\ At(t, "commit")
    /\ LET u == req[t].user  r == req[t].room IN
       IF u \in users
         THEN /\ AddMembers(r, {u})
              /\ invites' = IF invites[r][u].by = req[t].by
                              THEN [invites EXCEPT ![r][u].status = "accepted"] ELSE invites
              /\ Go(t, "inval")
         ELSE Finish(t) /\ UNCHANGED <<members, joined, was, invites>>
    /\ UNCHANGED <<users, offered, posted, cacheVars>>

CreateAlone(t) ==
    /\ At(t, "create")
    /\ LET u == req[t].user  S == req[t].guests \cup {u} IN
       \/ /\ ~(req[t].guests \subseteq users)
          /\ RenderPage(t, General)
          /\ UNCHANGED <<members, joined, was>>
       \/ /\ S \subseteq users
          /\ \E r \in Rooms :
               /\ joined[r] = {}
               /\ AddMembers(r, S)
               /\ req' = [req EXCEPT ![t].room = r, ![t].at = "inval"]
    /\ UNCHANGED <<users, invites, offered, posted, cacheVars>>

(* create_chat_room: the room and all its members in one transaction. *)
Create(t) ==
    /\ At(t, "create")
    /\ LET u == req[t].user  S == req[t].guests \cup {u} IN
       \/ /\ req[t].guests = {} \/ ~(req[t].guests \subseteq users)
          /\ RenderPage(t, General)
          /\ UNCHANGED <<members, joined, was>>
       \/ /\ ~(S \subseteq users)
          /\ Finish(t)
          /\ UNCHANGED <<members, joined, was>>
       \/ /\ req[t].guests # {} /\ S \subseteq users
          /\ \E r \in Rooms :
               /\ joined[r] = {}
               /\ AddMembers(r, S)
               /\ req' = [req EXCEPT ![t].room = r, ![t].at = "inval"]
    /\ UNCHANGED <<users, invites, offered, posted, cacheVars>>

(* Both then forget what the caches said of the new members and the room. *)
Inval(t) ==
    /\ At(t, "inval")
    /\ LET who == req[t].guests \cup {req[t].user}  r == req[t].room IN
       /\ accessible_rooms' = [u \in Users |-> IF u \in who THEN {} ELSE accessible_rooms[u]]
       /\ pending_invites' = [u \in Users |-> IF u \in who THEN {} ELSE pending_invites[u]]
       /\ accessible_room' = [u \in Users |-> IF u \in who
                                                THEN [accessible_room[u] EXCEPT ![r] = {}]
                                                ELSE accessible_room[u]]
       /\ room_participants' = [room_participants EXCEPT ![r] = {}]
    /\ Go(t, "notify")
    /\ UNCHANGED dbVars

(* persist_notification; its failure is ignored. *)
Notify(t) ==
    /\ At(t, "notify")
    /\ \/ /\ req[t].user \in users
          /\ room_participants' = [room_participants EXCEPT ![req[t].room] = {}]
       \/ UNCHANGED room_participants
    /\ Finish(t)
    /\ UNCHANGED <<dbVars, accessible_rooms, accessible_room, pending_invites>>

-----------------------------------------------------------------------------
(* render_chat_room_page. update_read_position forgets the viewer's lists; *)
(* its failure is ignored.                                                 *)
Mark(t) ==
    /\ At(t, "mark")
    /\ \/ /\ req[t].user \in users
          /\ accessible_rooms' = [accessible_rooms EXCEPT ![req[t].user] = {}]
          /\ pending_invites' = [pending_invites EXCEPT ![req[t].user] = {}]
       \/ UNCHANGED <<accessible_rooms, pending_invites>>
    /\ Go(t, "parts")
    /\ UNCHANGED <<dbVars, accessible_room, room_participants>>

LookPending(t) ==
    /\ At(t, "pending")
    /\ IF req[t].bypass \/ pending_invites[req[t].user] = {} THEN Go(t, "select_pending")
                                                             ELSE Go(t, "rooms")
    /\ UNCHANGED <<dbVars, cacheVars>>

SelectPending(t) ==
    /\ At(t, "select_pending")
    /\ req' = [req EXCEPT ![t].pend = {r \in Rooms : invites[r][req[t].user].status = "pending"},
                          ![t].at = "fill_pending"]
    /\ UNCHANGED <<dbVars, cacheVars>>

FillPending(t) ==
    /\ At(t, "fill_pending")
    /\ pending_invites' = [pending_invites EXCEPT ![req[t].user] = {req[t].pend}]
    /\ req' = [req EXCEPT ![t].pend = {}, ![t].at = "rooms"]
    /\ UNCHANGED <<dbVars, accessible_rooms, accessible_room, room_participants>>

(* serve_file and the key handlers answer once they have the room. *)
Serve(t) ==
    /\ At(t, "serve")
    /\ Finish(t)
    /\ UNCHANGED <<dbVars, cacheVars>>

-----------------------------------------------------------------------------
(* chat_ws: a socket keeps the view it was opened with as long as it lives *)
(* and stamps every message with it.                                       *)
Send(t) ==
    /\ At(t, "open")
    /\ req[t].room \in Rooms
    /\ req[t].user \in users
    /\ posted' = [posted EXCEPT ![req[t].room] = @ \cup {req[t].view = {"pair"}}]
    /\ Go(t, "sent")
    /\ UNCHANGED <<users, members, invites, joined, offered, was, cacheVars>>

(* persist_message forgets the room, unless reading the row back failed. *)
Sent(t) ==
    /\ At(t, "sent")
    /\ \/ room_participants' = [room_participants EXCEPT ![req[t].room] = {}]
       \/ UNCHANGED room_participants
    /\ Go(t, "open")
    /\ UNCHANGED <<dbVars, accessible_rooms, accessible_room, pending_invites>>

Close(t) ==
    /\ At(t, "open")
    /\ Finish(t)
    /\ UNCHANGED <<dbVars, cacheVars>>

-----------------------------------------------------------------------------
(* The caller disconnects, or a statement fails: the handler stops where   *)
(* it is. A socket runs in a task of its own and is not stopped this way.  *)
Drop(t) ==
    /\ req[t].at \notin {"idle", "done", "open", "sent"}
    /\ Finish(t)
    /\ UNCHANGED <<dbVars, cacheVars>>

(* DELETE FROM users cascades to his memberships and to the invitations he *)
(* received or sent; no chat cache is told.                                *)
Delete(u) ==
    /\ u \in users \cap Deletable
    /\ users' = users \ {u}
    /\ members' = [r \in Rooms |-> members[r] \ {u}]
    /\ invites' = [r \in Rooms |-> [v \in Users |->
                     IF v = u \/ invites[r][v].by = u THEN NoInvite ELSE invites[r][v]]]
    /\ was' = [r \in Rooms |-> IF u \in members[r]
                                 THEN was[r] \cup {Size(members[r] \ {u})} ELSE was[r]]
    /\ UNCHANGED <<joined, offered, posted, cacheVars, req>>

(* An entry's time to live runs out, or the cache evicts it. *)
ExpireRooms(u) ==
    /\ accessible_rooms[u] # {}
    /\ accessible_rooms' = [accessible_rooms EXCEPT ![u] = {}]
    /\ UNCHANGED <<dbVars, accessible_room, room_participants, pending_invites, req>>
ExpireRoom(u, r) ==
    /\ accessible_room[u][r] # {}
    /\ accessible_room' = [accessible_room EXCEPT ![u][r] = {}]
    /\ UNCHANGED <<dbVars, accessible_rooms, room_participants, pending_invites, req>>
ExpireParts(r) ==
    /\ room_participants[r] # {}
    /\ room_participants' = [room_participants EXCEPT ![r] = {}]
    /\ UNCHANGED <<dbVars, accessible_rooms, accessible_room, pending_invites, req>>
ExpirePending(u) ==
    /\ pending_invites[u] # {}
    /\ pending_invites' = [pending_invites EXCEPT ![u] = {}]
    /\ UNCHANGED <<dbVars, accessible_rooms, accessible_room, room_participants, req>>

(* The server restarts: caches, handlers and sockets are lost. *)
Restart ==
    /\ accessible_rooms' = [u \in Users |-> {}]
    /\ accessible_room' = [u \in Users |-> [r \in Rooms |-> {}]]
    /\ room_participants' = [r \in Rooms |-> {}]
    /\ pending_invites' = [u \in Users |-> {}]
    /\ req' = [t \in Requests |-> IF At(t, "idle") THEN req[t] ELSE Blank("done")]
    /\ UNCHANGED dbVars

-----------------------------------------------------------------------------
Handler(t) ==
    \/ Start(t) \/ LookRoom(t) \/ LookRooms(t) \/ SelectRooms(t) \/ FillRooms(t) \/ FillRoom(t)
    \/ LookParts(t) \/ SelectParts(t) \/ FillParts(t)
    \/ Guest(t) \/ Check(t) \/ Insert(t) \/ Notice(t)
    \/ FindInvite(t) \/ Commit(t) \/ Create(t) \/ Inval(t) \/ Notify(t)
    \/ Mark(t) \/ LookPending(t) \/ SelectPending(t) \/ FillPending(t) \/ Serve(t)
    \/ Send(t) \/ Sent(t) \/ Close(t) \/ Drop(t)

Environment ==
    \/ \E u \in Users : Delete(u) \/ ExpireRooms(u) \/ ExpirePending(u)
    \/ \E u \in Users, r \in Rooms : ExpireRoom(u, r)
    \/ \E r \in Rooms : ExpireParts(r)
    \/ Restart

Next == (\E t \in Requests : Handler(t)) \/ Environment

Spec == Init /\ [][Next]_vars

-----------------------------------------------------------------------------
(* Whoever is let into a room, by a cached row, a list in flight or an     *)
(* open socket, was a member of it at some time.                           *)
NoForeignAccess ==
    \A u \in Users, r \in Rooms :
      \/ u \in joined[r]
      \/ /\ accessible_room[u][r] \subseteq {"none"}
         /\ \A rows \in accessible_rooms[u] : rows[r] = "none"
         /\ \A t \in Requests : req[t].user = u =>
              /\ req[t].rows[r] = "none"
              /\ req[t].room = r => req[t].view = {}

(* accept_invite is all or nothing: an accepted invitation is a member. *)
AcceptedIsMember ==
    \A r \in Rooms, u \in Users : invites[r][u].status = "accepted" => u \in members[r]

(* Everybody who ever was in a room of the start was there then or was     *)
(* invited by somebody who was, or by somebody he invited, and so on:      *)
(* every set that holds the first members and, with each of its users, all *)
(* whom he invited, holds everybody. It is so although an inviter may be   *)
(* deleted before his invitation is accepted, and the accepting handler    *)
(* reads the row in another statement than it adds the member in.          *)
Closed(S, r) == \A offer \in offered[r] : offer[1] \in S => offer[2] \in S
OnlyByInvitation ==
    \A r \in Rooms : InitMembers[r] # {} =>
      \A S \in SUBSET Users : InitMembers[r] \subseteq S /\ Closed(S, r) => joined[r] \subseteq S

(* A room that had exactly two members ever since never holds a user       *)
(* message in clear, and one that never had exactly two holds no           *)
(* ciphertext, however stale the view a socket was opened with.            *)
FlagFitsRoom ==
    \A r \in Rooms : /\ TRUE \in posted[r] => "pair" \in was[r]
                     /\ FALSE \in posted[r] => "group" \in was[r]

(* The rooms that promise all this, without caches or handlers. *)
M == INSTANCE Membership
Refines == M!Spec

=============================================================================
