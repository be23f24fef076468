------------------------------ MODULE Messages ------------------------------
(***************************************************************************)
(* Messages on the server: the rows of chat_messages and the read          *)
(* positions, the caches of a room's history, of a user's unread counts    *)
(* and of files, and the requests that post, render a room's page and      *)
(* serve a file. Every statement of a request is an action of its own; the *)
(* in-memory calls between two statements belong to the one before them.   *)
(* All users have access to all rooms here: who may enter is ChatRooms'.   *)
(***************************************************************************)
EXTENDS Naturals, FiniteSets

CONSTANTS Users, Rooms,
          Requests, \* slots of HTTP requests: what may be in progress at once
          Sockets,  \* slots of socket tasks
          Caller,   \* slot -> the user it works for
          MaxId,    \* bound of the model: ids given to messages
          Window    \* messages a history holds at most (50)

ASSUME BoundsAssumption == MaxId \in Nat /\ Window \in Nat \ {0}

Slots == Requests \cup Sockets
ASSUME CallerAssumption == Caller \in [Slots -> Users]

VARIABLES
    users,      \* rows of users
    rows,       \* rows of chat_messages
    last,       \* the last id given out: AUTOINCREMENT uses none twice
    last_read,  \* user -> room -> last_read_message_id, 0 without a row
    chat_messages_by_room,  \* room -> the cached history, {} without one
    unread_counts,          \* user -> the cached counts, {} without them
    chat_file,              \* id -> the cached file, given by its author
    req         \* slot -> the request it works on

vars == <<users, rows, last, last_read, chat_messages_by_room, unread_counts, chat_file, req>>
tables == <<users, rows, last, last_read>>
caches == <<chat_messages_by_room, unread_counts, chat_file>>

Ids == 1..MaxId
Message == [id : Ids, room : Rooms, by : Users]
Counts == [Rooms -> Nat]

Viewing == {"mark", "history", "select", "fill", "counts", "count", "fill_counts"}
Posting == {"insert", "stamp", "announce"}
Serving == {"file", "select_file", "fill_file"}
Request ==
    [at : {"idle"} \cup Viewing \cup Posting \cup Serving,
     room : SUBSET Rooms,           \* for which room
     socket : BOOLEAN,              \* for a socket's task, or an HTTP request
     page : SUBSET SUBSET Message,  \* the history read so far
     counts : SUBSET Counts,        \* the counts read so far
     msg : SUBSET Message]          \* the message stored, or the file read
Idle == [at |-> "idle", room |-> {}, socket |-> FALSE,
         page |-> {}, counts |-> {}, msg |-> {}]

TypeOK ==
    /\ users \subseteq Users
    /\ rows \subseteq Message
    /\ last \in 0..MaxId
    /\ last_read \in [Users -> [Rooms -> 0..last]]
    /\ chat_messages_by_room \in [Rooms -> SUBSET SUBSET Message]
    /\ unread_counts \in [Users -> SUBSET Counts]
    /\ chat_file \in [Ids -> SUBSET Users]
    /\ req \in [Slots -> Request]

Init ==
    /\ users = Users
    /\ rows = {}
    /\ last = 0
    /\ last_read = [u \in Users |-> [r \in Rooms |-> 0]]
    /\ chat_messages_by_room = [r \in Rooms |-> {}]
    /\ unread_counts = [u \in Users |-> {}]
    /\ chat_file = [i \in Ids |-> {}]
    /\ req = [h \in Slots |-> Idle]

-----------------------------------------------------------------------------
At(h, step) == req[h].at = step
Go(h, step) == req' = [req EXCEPT ![h].at = step]
Finish(h) == req' = [req EXCEPT ![h] = Idle]
Begin(h, step, r, ws) ==
    /\ At(h, "idle")
    /\ req' = [req EXCEPT ![h] = [Idle EXCEPT !.at = step, !.room = {r}, !.socket = ws]]
    /\ UNCHANGED <<tables, caches>>

InRoom(r) == {m \in rows : m.room = r}
(* ORDER BY id DESC LIMIT 50, put back in order: the newest of a set.      *)
NewestAndOne(S) == {m \in S : Cardinality({n \in S : n.id > m.id}) <= Window}
Newest(S) == {m \in S : Cardinality({n \in S : n.id > m.id}) < Window}
LastId(S) == IF S = {} THEN 0 ELSE CHOOSE i \in {m.id : m \in S} : \A m \in S : m.id <= i
Unread(u) == [r \in Rooms |-> Cardinality({m \in InRoom(r) : m.id > last_read[u][r]})]

-----------------------------------------------------------------------------
(* persist_message, persist_message_with_file, persist_notification, for a *)
(* socket's task or for an HTTP request that invites or accepts.           *)
Post(h, r, ws) == h \in (IF ws THEN Sockets ELSE Requests) /\ Begin(h, "insert", r, ws)

(* The row gets the next id. The foreign key needs the author; a failed    *)
(* INSERT ends the request without a word.                                 *)
InsertReusingIds(h) ==
    /\ At(h, "insert")
    /\ \/ /\ Caller[h] \in users
          /\ last < MaxId
          /\ \E r \in req[h].room :
               LET m == [id |-> LastId(rows) + 1, room |-> r, by |-> Caller[h]] IN
               /\ rows' = rows \cup {m}
               /\ last' = last + 1
               /\ req' = [req EXCEPT ![h].at = "stamp", ![h].msg = {m}]
       \/ Finish(h) /\ UNCHANGED <<rows, last>>
    /\ UNCHANGED <<users, last_read, caches>>
Insert(h) ==
    /\ At(h, "insert")
    /\ \/ /\ Caller[h] \in users
          /\ last < MaxId
          /\ \E r \in req[h].room :
               LET m == [id |-> last + 1, room |-> r, by |-> Caller[h]] IN
               /\ rows' = rows \cup {m}
               /\ last' = last + 1
               /\ req' = [req EXCEPT ![h].at = "stamp", ![h].msg = {m}]
       \/ Finish(h) /\ UNCHANGED <<rows, last>>
    /\ UNCHANGED <<users, last_read, caches>>

(* created_at is read back. Without it (the row was deleted, the statement *)
(* fails) nobody is told: neither the caches nor the sockets.              *)
Stamp(h) ==
    /\ At(h, "stamp")
    /\ \/ req[h].msg \subseteq rows /\ Go(h, "announce")
       \/ Finish(h)
    /\ UNCHANGED <<tables, caches>>

(* The history of the room and everybody's counts are dropped; then the    *)
(* event is sent to the broadcast channel.                                 *)
AppendToHistory(h) ==
    /\ At(h, "announce")
    /\ chat_messages_by_room' =
         [r \in Rooms |-> IF r \in req[h].room
                          THEN {s \cup req[h].msg : s \in chat_messages_by_room[r]}
                          ELSE chat_messages_by_room[r]]
    /\ unread_counts' = [u \in Users |-> {}]
    /\ Finish(h)
    /\ UNCHANGED <<tables, chat_file>>
Announce(h) ==
    /\ At(h, "announce")
    /\ chat_messages_by_room' =
         [r \in Rooms |-> IF r \in req[h].room THEN {} ELSE chat_messages_by_room[r]]
    /\ unread_counts' = [u \in Users |-> {}]
    /\ Finish(h)
    /\ UNCHANGED <<tables, chat_file>>

-----------------------------------------------------------------------------
(* render_chat_room_page, once the room is known to be the viewer's.       *)
View(h, r) == h \in Requests /\ Begin(h, "mark", r, FALSE)

(* update_read_position: MAX(id) of the room, then the user's counts are   *)
(* dropped. An error (the user is gone) is ignored.                        *)
MarkNext(h) ==
    /\ At(h, "mark")
    /\ \E r \in req[h].room :
         IF Caller[h] \in users
         THEN /\ last_read' = [last_read EXCEPT ![Caller[h]][r] = LastId(InRoom(r)) + 1]
              /\ unread_counts' = [unread_counts EXCEPT ![Caller[h]] = {}]
         ELSE UNCHANGED <<last_read, unread_counts>>
    /\ Go(h, "history")
    /\ UNCHANGED <<users, rows, last, chat_messages_by_room, chat_file>>
MarkCounted(h) ==
    /\ At(h, "mark")
    /\ \E r \in req[h].room :
         IF Caller[h] \in users
         THEN /\ last_read' = [last_read EXCEPT ![Caller[h]][r] = Cardinality(InRoom(r))]
              /\ unread_counts' = [unread_counts EXCEPT ![Caller[h]] = {}]
         ELSE UNCHANGED <<last_read, unread_counts>>
    /\ Go(h, "history")
    /\ UNCHANGED <<users, rows, last, chat_messages_by_room, chat_file>>
Mark(h) ==
    /\ At(h, "mark")
    /\ \E r \in req[h].room :
         IF Caller[h] \in users
         THEN /\ last_read' = [last_read EXCEPT ![Caller[h]][r] = LastId(InRoom(r))]
              /\ unread_counts' = [unread_counts EXCEPT ![Caller[h]] = {}]
         ELSE UNCHANGED <<last_read, unread_counts>>
    /\ Go(h, "history")
    /\ UNCHANGED <<users, rows, last, chat_messages_by_room, chat_file>>

(* get_chat_messages: from the cache, unless the request bypasses it, or   *)
(* from the table and then into the cache.                                 *)
LookHistory(h, bypass) ==
    /\ At(h, "history")
    /\ \E r \in req[h].room :
         IF bypass \/ chat_messages_by_room[r] = {}
         THEN Go(h, "select")
         ELSE req' = [req EXCEPT ![h].at = "counts", ![h].page = chat_messages_by_room[r]]
    /\ UNCHANGED <<tables, caches>>

SelectHistory(h) ==
    /\ At(h, "select")
    /\ \E r \in req[h].room :
         req' = [req EXCEPT ![h].at = "fill", ![h].page = {Newest(InRoom(r))}]
    /\ UNCHANGED <<tables, caches>>

FillHistory(h) ==
    /\ At(h, "fill")
    /\ chat_messages_by_room' =
         [r \in Rooms |-> IF r \in req[h].room THEN req[h].page ELSE chat_messages_by_room[r]]
    /\ Go(h, "counts")
    /\ UNCHANGED <<tables, unread_counts, chat_file>>

(* get_unread_counts, likewise, which completes the page.                  *)
LookCounts(h, bypass) ==
    /\ At(h, "counts")
    /\ IF bypass \/ unread_counts[Caller[h]] = {} THEN Go(h, "count") ELSE Finish(h)
    /\ UNCHANGED <<tables, caches>>

SelectCounts(h) ==
    /\ At(h, "count")
    /\ req' = [req EXCEPT ![h].at = "fill_counts", ![h].counts = {Unread(Caller[h])}]
    /\ UNCHANGED <<tables, caches>>

FillCounts(h) ==
    /\ At(h, "fill_counts")
    /\ unread_counts' = [unread_counts EXCEPT ![Caller[h]] = req[h].counts]
    /\ Finish(h)
    /\ UNCHANGED <<tables, chat_messages_by_room, chat_file>>

-----------------------------------------------------------------------------
(* serve_file: the row must exist, then the file comes from the cache or   *)
(* from the table by way of the cache. (Every message stands for one with  *)
(* a file; its author stands for the file's bytes.)                        *)
FindFile(h, m) ==
    /\ h \in Requests
    /\ At(h, "idle")
    /\ m \in rows
    /\ req' = [req EXCEPT ![h] = [Idle EXCEPT !.at = "file", !.msg = {m}]]
    /\ UNCHANGED <<tables, caches>>

LookFile(h, bypass) ==
    /\ At(h, "file")
    /\ \E m \in req[h].msg :
         IF bypass \/ chat_file[m.id] = {} THEN Go(h, "select_file") ELSE Finish(h)
    /\ UNCHANGED <<tables, caches>>

SelectFile(h) ==
    /\ At(h, "select_file")
    /\ \E m \in req[h].msg :
         IF \E n \in rows : n.id = m.id
         THEN req' = [req EXCEPT ![h].at = "fill_file", ![h].msg = {n \in rows : n.id = m.id}]
         ELSE Finish(h)
    /\ UNCHANGED <<tables, caches>>

FillFile(h) ==
    /\ At(h, "fill_file")
    /\ \E m \in req[h].msg : chat_file' = [chat_file EXCEPT ![m.id] = {m.by}]
    /\ Finish(h)
    /\ UNCHANGED <<tables, chat_messages_by_room, unread_counts>>

-----------------------------------------------------------------------------
(* The caller of an HTTP request disconnects, or a statement of it fails.  *)
(* A socket's task is not stopped by its browser.                          *)
Drop(h) ==
    /\ ~At(h, "idle") /\ ~req[h].socket
    /\ Finish(h)
    /\ UNCHANGED <<tables, caches>>

(* DELETE FROM users cascades to messages and read positions; no cache of  *)
(* this module is told.                                                    *)
DeleteUser(u) ==
    /\ u \in users
    /\ users' = users \ {u}
    /\ rows' = {m \in rows : m.by # u}
    /\ last_read' = [last_read EXCEPT ![u] = [r \in Rooms |-> 0]]
    /\ UNCHANGED <<last, caches, req>>

(* A time to live (30 s, 15 s, a day) runs out, or the entry is evicted.   *)
NoTimeToLive(r) == FALSE /\ UNCHANGED vars
ExpireHistory(r) ==
    /\ chat_messages_by_room[r] # {}
    /\ chat_messages_by_room' = [chat_messages_by_room EXCEPT ![r] = {}]
    /\ UNCHANGED <<tables, unread_counts, chat_file, req>>
ExpireCounts(u) ==
    /\ unread_counts[u] # {}
    /\ unread_counts' = [unread_counts EXCEPT ![u] = {}]
    /\ UNCHANGED <<tables, chat_messages_by_room, chat_file, req>>
ExpireFile(i) ==
    /\ chat_file[i] # {}
    /\ chat_file' = [chat_file EXCEPT ![i] = {}]
    /\ UNCHANGED <<tables, chat_messages_by_room, unread_counts, req>>

Restart ==
    /\ chat_messages_by_room' = [r \in Rooms |-> {}]
    /\ unread_counts' = [u \in Users |-> {}]
    /\ chat_file' = [i \in Ids |-> {}]
    /\ req' = [h \in Slots |-> Idle]
    /\ UNCHANGED tables

History(h) == SelectHistory(h) \/ FillHistory(h) \/ \E bypass \in BOOLEAN : LookHistory(h, bypass)
Count(h) == SelectCounts(h) \/ FillCounts(h) \/ \E bypass \in BOOLEAN : LookCounts(h, bypass)
File(h) == SelectFile(h) \/ FillFile(h) \/ \E bypass \in BOOLEAN : LookFile(h, bypass)
Work(h) ==
    Insert(h) \/ Stamp(h) \/ Announce(h) \/ Mark(h) \/ History(h) \/ Count(h) \/ File(h)
Next ==
    \/ \E h \in Slots : Work(h) \/ Drop(h)
    \/ \E h \in Slots, r \in Rooms : View(h, r) \/ \E ws \in BOOLEAN : Post(h, r, ws)
    \/ \E h \in Slots, m \in rows : FindFile(h, m)
    \/ \E u \in Users : DeleteUser(u) \/ ExpireCounts(u)
    \/ \E r \in Rooms : ExpireHistory(r)
    \/ \E i \in Ids : ExpireFile(i)
    \/ Restart

Spec == Init /\ [][Next]_vars

(* What was read is put into the cache, and no entry outlives its time.    *)
FairSpec ==
    /\ Spec
    /\ \A h \in Slots : WF_vars(FillHistory(h)) /\ WF_vars(FillCounts(h))
    /\ \A r \in Rooms : WF_vars(ExpireHistory(r))
    /\ \A u \in Users : WF_vars(ExpireCounts(u))

-----------------------------------------------------------------------------
(* No holes: a history that is cached or on its way to a page may be old,  *)
(* but no message still stored is missing between two it shows.            *)
GapFree(s, r) == \A x, y \in s : \A m \in InRoom(r) : x.id < m.id /\ m.id < y.id => m \in s
NoHoles ==
    /\ \A r \in Rooms : \A s \in chat_messages_by_room[r] : GapFree(s, r)
    /\ \A h \in Slots : \A r \in req[h].room : \A s \in req[h].page : GapFree(s, r)

(* A history shows one room, at most Window messages of it, and leaves out *)
(* an older message only when it is full: a short history begins with the  *)
(* room's first message, whatever was posted and deleted since it was read.*)
FullOrWhole(s, r) ==
    /\ Cardinality(s) <= Window
    /\ \A x \in s : x.room = r
    /\ Cardinality(s) < Window => \A x \in s : \A m \in InRoom(r) : m.id < x.id => m \in s
HistoryFits ==
    /\ \A r \in Rooms : \A s \in chat_messages_by_room[r] : FullOrWhole(s, r)
    /\ \A h \in Slots : \A r \in req[h].room : \A s \in req[h].page : FullOrWhole(s, r)

(* The file a cache holds for a message is the file of that message, for   *)
(* as long as the message exists, whoever else was deleted before.         *)
FileIsItsMessage ==
    \A m \in rows :
      /\ chat_file[m.id] \subseteq {m.by}
      /\ \A h \in Slots : At(h, "fill_file") => \A n \in req[h].msg : n.id = m.id => n = m

(* What a user has read stays read: no later page, deletion or new message *)
(* turns a message he has read into an unread one.                         *)
Read(u, m) == m.id <= last_read[u][m.room]
ReadStaysRead ==
    [][\A u \in users \cap users' : \A m \in rows \cap rows' : Read(u, m) => Read(u, m)']_vars

(* The cached histories and counts catch up: when nothing is posted, read  *)
(* or deleted any more, they agree with the tables in the end, although an *)
(* answer read before a message may be cached after its invalidation.      *)
CachesCatchUp ==
    /\ \A r \in Rooms : <>[](chat_messages_by_room[r] \subseteq {Newest(InRoom(r))})
    /\ \A u \in Users : <>[](u \in users => unread_counts[u] \subseteq {Unread(u)})
=============================================================================
