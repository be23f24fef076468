# A TLA+ development of rust_api_ssr

rust_api_ssr is an axum server with a SQLite database: accounts and login sessions, a
general chat room, private rooms people are invited to, chat sockets, and an end-to-end
encryption of private rooms of two that runs in the browsers. This directory holds TLA+
modules that model its stateful parts, TLC configurations that check them on small
instances, and TLAPS proofs for all instances. Paths below are relative to the repository
(`src/...` of the program is `src/src/...` in `PROJECT.json`).

## 1. Inventory

| Component | State | Operations | Talks to | Hard behaviour | What makes it correct |
|---|---|---|---|---|---|
| Chat rooms and membership: `handlers/chat/{rooms,messages,ws}.rs`, `services/chat.rs`, `cache.rs`, migration 0003 | `chat_rooms`, `chat_room_members`, `chat_room_invites`; the caches `accessible_rooms`, `accessible_room`, `room_participants`, `pending_invites` | create a room, invite, accept, render a page, open a socket, send, serve a file | database, caches, user cache, broadcast channel | every `.await` is a point where another handler runs, the caller disconnects or an entry expires; answers are cached after the state they were read from was invalidated | only (former) members get in; acceptance is all or nothing; one invitation per room and invitee; the encryption flag fits the room |
| Login limiter: `handlers/mod.rs`, `handlers/auth.rs` | `HashMap<email, (count, start)>` behind a mutex | `is_allowed`, `record_attempt`, `clear` | the login handler | check and count are two critical sections with a password verification between them | bounded overrun; lockouts are not extended and end |
| Sessions: `handlers/auth.rs`, `services/users.rs`, `cache.rs` | `sessions` rows; the cache `session_by_token` (positive and negative answers, 300 s) | log in, validate, log out | every handler | a row read before a logout is cached after it | a live session is not refused; an ended one is in the end |
| Key exchange in the browser: the script of `templates/chat/index.html` | room key, `localStorage`, sets of devices already served | register the device, fetch, generate, share, poll | the key endpoints | calls that fail or lose their answer; tabs closed and reopened; several devices per user; both members share | one room key; every device gets it |
| Devices and room keys on the server: `handlers/chat/crypto.rs`, `services/chat.rs`, migration 0006 | `user_devices`, `chat_room_device_keys` | register (at most 5 per user), list, delete, store and fetch wrapped keys | database | count and insert are two statements; deletion is two statements | limit, no key without its device |
| Messages, history, unread counts: `handlers/chat/messages.rs`, `services/chat.rs`, migrations 0002 and 0004 | `chat_messages`, `chat_room_read_positions`; the caches `chat_messages_by_room`, `unread_counts`, `chat_file` | persist a message, a file or a notification, read the history, count, mark as read, serve a file | caches, broadcast | a history read before a message is cached after its invalidation; a stored message whose time cannot be read back invalidates nothing; files are cached for a day | histories without holes; the file of a message is its own; what was read stays read; caches catch up |
| Broadcast to sockets: `handlers/chat/ws.rs`, `main.rs`, the listener of `templates/chat/index.html` | a `tokio::broadcast` channel of 100 events; each socket's position in it; the messages on a page | subscribe, publish, receive, lag, listen, reload | messages, pages | insertion and publication are two steps; slow sockets skip events; a page is rendered, connected and listening at three moments | order of a sender's messages, each once, loss only by lag |
| Accounts and the user cache: `services/users.rs`, `models/user.rs`, `cache.rs`, `handlers/views.rs` | `users`; the caches `user_by_id`, `user_by_email`, `user_with_password_by_email`, `all_users` | sign up, update, delete, log in, look up, list | sessions and rooms (cascades) | check-then-insert; invalidations before the statement; ids reused by SQLite | unique e-mails; no stale answer after a change that ran alone; stale answers end |
| Request metrics: `handlers/mod.rs`, `middleware.rs` | a ring of the latest requests | record, show | - | none: one lock | length bound |
| Router, configuration, health, errors, templates | none | - | - | - | - |

The hazards of this code are listed at their lines in `PROJECT.json` ("hazards"), each with
the properties that watch it, or a note saying why none does.

## 2. Plan

1. **Membership, ChatRooms** (done). The core: `Membership` is the abstract promise,
   `ChatRooms` the handlers and caches that implement it. Proofs: typing, the inductive
   invariant, refinement.
2. **LoginLimiter** (done), with proofs of its bounds.
3. **Sessions** (done), with proofs of its safety part.
4. **RoomKey, KeyExchange** (done): `RoomKey` is what the exchange promises; with the proofs of
   key agreement and of the refinement.
5. **Devices** (done): the server's tables statement by statement, with the proof that the
   limit is exceeded by less than the number of concurrent requests.
6. **Messages** (done): tables, caches, pages and files, with the proofs of its safety part.
7. **Feed, LiveRoom** (done): `Feed` is what a page promises; `LiveRoom` composes Messages with
   the channel, the sockets and the pages, and implements both, with the proofs of its safety
   part and of the two refinements.
8. **Accounts** (done), with the proof that invalidation is complete while changes run alone.

Open: the composition of ChatRooms' views with KeyExchange's pages (a page rendered for a
pair whose socket was opened for a group, and the reverse), key pairs shared by two tabs of a
browser, and liveness of ChatRooms under the caches' time to live.

Each module keeps its parameters as CONSTANTS with named assumptions, has one action per
statement or critical section, and avoids RECURSIVE, so that it can be proved about.

## 3. The modules

### Membership and ChatRooms

`Membership` says, without caches or handlers, who may come to belong to a room (`Open`,
`Join` after `Offer`), who may invite, who may write and with which encryption flag, and that
users leave only by being deleted. `ChatRooms` implements it.

One action of `ChatRooms` is one database statement or transaction, or one run of in-memory
cache calls between two of them; between two actions any other handler may run, the caller
may disconnect (`Drop`), an entry expire (`Expire*`), a user be deleted (`Delete`) or the
server restart (`Restart`).

| Code | Actions |
|---|---|
| `get_room_for_user` over `get_accessible_rooms` | `LookRoom`, `LookRooms`, `SelectRooms`, `FillRooms`, `FillRoom` |
| `get_room_participants` | `LookParts`, `SelectParts`, `FillParts` |
| `get_pending_invites` | `LookPending`, `SelectPending`, `FillPending` |
| `invite_to_room` | the room, `Guest`, the participants, `Check`, `Insert`, `Notice` |
| `accept_invite` | `FindInvite`, `Commit`, `Inval`, `Notify` |
| `create_chat_room` | `Create`, `Inval`, `Notify` |
| `render_chat_room_page` | the room, `Mark`, the participants, the pending invitations, the rooms |
| `chat_ws`, `handle_socket`, `persist_message` | the room, `Send`, `Sent`, `Close` |
| `serve_file`, the room-key handlers | the room, `Serve` |

Decisions a reader should know of. A cache entry is a set of at most one value. The rows of the
general room are the same for everybody, so whether they are cached is left open instead of
kept. Cache invalidations without an await between them are one step. A request is used once
(`done` is final), because a finished handler leaves nothing behind. Invitations are identified
by room, invitee and inviter: a second invitation by the same inviter after a deletion is
impossible, as deleted users do not come back (SQLite may reuse the id of the last user;
Accounts has that, and ChatRooms, Sessions and Messages assume it does not happen). A session
may outlive its user in the session cache, so the caller of a request need not exist. `joined`,
`offered`, `was` and `posted` are history variables: `joined`, `offered` and `was` only record;
`posted` is the set of encryption flags in `chat_messages`.

### LoginLimiter

`attempts` and `age` are the map's entries (an expired entry keeps its count, as in the
code), `trying` the logins between `is_allowed` and `record_attempt` or `clear`. `Tick`
advances all entries; ages stop at `Window`, where the code only compares. Refused logins
change nothing and have no action.

### Sessions

`Login`/`Answer` are the insert and the response with the cookie, `Look`/`Select`/`Fill` the
three parts of `validate_session`, `Logout`/`Forget` the DELETE and the invalidation. A
cached `FALSE` is the cached refusal. Tokens are random, so no browser presents one before it
received it: that is `given`.

### RoomKey and KeyExchange

`RoomKey` says, without requests, polls or scripts, that one key is made, once (`Make`), and
then only handed on: a page holds it from its own browser, which stored it, or from the copy
that somebody who held it left on the server for that browser (`Learn`, `Copy`), and until it
closes. `KeyExchange` implements it when the owner has one tab: the key is `minted`, what was
kept and copied are the browsers with an entry in `local` and `wrapped`, and everything a
script fetched, listed or remembers as served is forgotten.

A *tab* runs the script of the chat page; its record holds the script's variables
(`roomKey`, `sharedDeviceKeys`, `e2eFullyShared`, the loop variables of
`shareRoomKeyWithParticipants`) and the place where it is suspended. A *device* is a browser:
its `localStorage` (`local`), its row of `user_devices` (`registered`), its row of
`chat_room_device_keys` (`wrapped`). `UserOf` makes a browser belong to one user. A call is
`answered`, `failed`, or `lost` (carried out, answer lost). Wrapping and unwrapping are not
modelled: a device's row holds the key itself, and only that device reads it. Not modelled: a
device deleted by its user (no page calls that endpoint; Devices has it), a request of
a tab carried out after the tab was closed, a browser whose `localStorage` is cleared (that
is another device), the legacy key format.

### Devices

`devices` and `keys` are the rows of `user_devices` and, for one room, of
`chat_room_device_keys`; `req` gives each request in progress the statement it comes to next.
`register_device` is `Find`, `Count`, `Insert`; `delete_device` is `DeleteKeys`,
`DeleteDevice`; `store_room_key_handler` is `Belongs`, `Store` (its checks of the room and the
member are `Serve` of ChatRooms). None of them opens a transaction, so anything may come
between, and a request may end at any await (`Drop`). The foreign keys of migration 0006 are
in `Insert`, `Store`, `DeleteDevice` and `DeleteUser`. Keys of devices and wrapped keys are
not told apart here; KeyExchange has those.

### Messages

Every statement of a request is an action: `persist_message` and its two variants (they differ
in columns only) are `Post`, `Insert`, `Stamp`, `Announce`; a page is `View`, `Mark`,
`LookHistory`/`SelectHistory`/`FillHistory`, `LookCounts`/`SelectCounts`/`FillCounts`;
`serve_file` is `FindFile`, `LookFile`/`SelectFile`/`FillFile`. Slots of `Requests` are HTTP
requests, which end when their caller disconnects (`Drop`); slots of `Sockets` are socket
tasks, which do not. A message is its id, room and author; ids come from AUTOINCREMENT and
are never given twice (`last`). A message's file is named by its author. What a page reads
besides (participants, rooms, invitations) is ChatRooms', as is who may enter a room.

### Feed and LiveRoom

`Feed` says what the pages of a chat promise: a page opens with messages already stored and
then adds messages of its room, each once, in the order in which they were told, only from
those told since it joined; it may skip any. `LiveRoom` EXTENDS Messages with `log`, all
events ever sent to the channel (the channel keeps the last `Capacity` of them, tokio rounds
the program's 100 up to 128), and `tab`, the browser tabs: asked, shown (rendered), deaf
(socket subscribed, script still busy with its keys) and live. `Receive` and `Lag` are the
branch of `handle_socket`'s loop that reads the channel; it runs only while the loop is not
awaiting `persist_message`. `Broadcast` is `Announce` with the send that follows it. A tab's
slot works for its page request first and for its socket then, so a tab that is left while
its socket stores a message is not reopened before that ended. The refinement maps the log to
the told events by room and id and forgets what `Feed` has no word for. That the
composition also implements `Messages` (under the identity) is checked and proved, not taken
from the shape of its actions, so that what is proved of `Messages` may be used of it.

### Accounts

`rows` are the rows of `users`, `cache` the four caches as one function from keys (`ById`,
`ByEmail`, `WithPassword`, `All`) to at most one answer, an answer being the set of rows it
names; the empty answer is a cached absence, which `user_by_id` never holds. `req` gives each
request its place: `create_user` is look up the address, `Insert`, `ReadBack`, `ForgetNew`;
`update_user` looks up the user, then the address if it changes, then `LookOld` (and
`SelectOld`, `ForgetOld`), `WriteUpdate`, `ReadBack`, `ForgetNew` or `ForgetAll`;
`delete_user` is `LookOld` ..., `WriteDelete`, `ForgetAll`; every other lookup is `Look`,
`Select`, `Fill`. `IsNextId` is SQLite's rule for INTEGER PRIMARY KEY, by which the id of the
last row is given again. A row's person stands for its password and name. `calm` is a history
variable: no change of an account has overlapped another request, and none was cut short after
its statement, since the server started. `get_users_by_ids` is taken as several lookups, the
validation of forms and the nickname suffix are left out.

## 4. The runs

| Run | Instance | Shows |
|---|---|---|
| `rooms_grow` | users a, b, c; a pair room; 3 requests out of five inputs; a may be deleted | typing, `NoForeignAccess`, `AcceptedIsMember`, `OnlyByInvitation`, `FlagFitsRoom`, refinement of `Membership` |
| `rooms_create` | 2 rooms, one to be created; 2 requests out of all forms, good and bad, cached or with `Cache-Control: no-cache` | `NoForeignAccess`, `FlagFitsRoom`, refinement |
| `login_limit` | 2 accounts, 3 concurrent logins, limit 2, window of 3 ticks | typing, `OverrunBounded`, `LockoutNotExtended`, `LockoutEnds` |
| `sessions` | 2 users, a token each, 3 concurrent requests | typing, `LiveNotRefused`, `RefusedForGood`, `EndedIsRefused` |
| `session_logout` | the same with 2 requests | violation |
| `keys_pair` | a browser of each member, 2 keys | typing, `KeysAgree`, `ServedHasKey`, `EveryoneGetsKey`, refinement of `RoomKey` |
| `keys_late_device` | two browsers of the peer | violation |
| `devices` | a user, 5 device ids, limit 2, 3 concurrent requests | typing (with: no copy without its device), `LimitBounded` |
| `messages` | users a (one request) and b (one socket), a room, 3 messages, histories of 2 | typing, `NoHoles`, `HistoryFits`, `FileIsItsMessage`, `ReadStaysRead`, `CachesCatchUp` |
| `live_room` | a tab of a, a socket of b, a room, 2 messages, 1 other event, a channel of 1 event | typing, `SenderOrder`, `SkipsOnlyDropped`, `HeardOrLagged`, refinement of `Feed` and of `Messages` |
| `page_gap` | the same with a channel of 4, so that nothing is lost by lag | violation, see findings |
| `accounts` | 2 addresses, a person, 2 ids, a request that changes accounts beside one that looks up | typing, `CalmIsFresh`, `StaleAnswersEnd` |

Bounds. For more browsers than a pair has, key agreement is left to the theorems
(`KeyAgreement`, `KeysServed`, `RoomKeyImplemented`), which hold for every number. Three users
are the fewest for a pair that grows; three requests let a third handler come between the two
that interfere, and the races found need two or three. `Inputs` names the requests of a run (a
run that mixes all kinds with three requests is out of reach, so `rooms_grow` takes the writers
of membership with sockets, `rooms_create` the readers with creation). `Deletable` bounds the
users that may go. In the limiter the count is bounded by the model itself (that is
`OverrunBounded`). `Keys` bounds the keys a room may see: two, so that a second one can exist
if the code makes it. In Devices the ids are more than limit and requests can bring, so that
the bound is reached and one more is refused. In Messages three messages against histories of
two make the oldest one leave the history; in LiveRoom a channel of one event makes any two
events a lag. In Accounts two ids and two addresses let an account be deleted and its id and
its address be given again, each to another row; `May` and `Looked` bound what the two requests
of the run do. Two changes at a time (the read-back of a row that another request has deleted,
an address taken between lookup and INSERT by another sign-up, and not only by a stale answer)
are out of TLC's reach there and left to the theorems, which hold for any number. Request
symmetry is used where only safety is checked (the refinement has no fairness, and requests
appear only as names).

Fairness. `LoginLimiter` assumes only that time passes (`Tick`). `Sessions` assumes that a
handler that has its database answer goes on (`Fill`: tokio polls it) and that entries do not
outlive their time to live (`Expire`); `Messages` and `Accounts` assume the same of their
caches. `LiveRoom` assumes that the database answers a socket's task (weak fairness of `Store`
and `Broadcast`), and strong fairness of `Receive` and `Lag`: the branch of the channel is not
enabled while a message of the socket is being stored, but `tokio::select!` chooses at random
among the branches that are ready, so that a page that keeps sending cannot keep its socket
from receiving. `KeyExchange` assumes that the script of an open tab
runs (it polls on a timer) and that no call fails for ever (strong fairness of the answered
calls: a call is retried by the poll, between whose attempts it is not enabled). No fairness
is assumed of users: tabs need not be opened, and `EveryoneGetsKey` has that as its premise.

What the properties say is written at each of them. Every property of a passing run has a
mutant in `PROJECT.json`, a variant of one definition placed before it in the module, which
TLC refutes.

## 5. The proofs

| Module | Theorem | Argument |
|---|---|---|
| `ChatRoomsProofs` | `Typing`, `Honesty`, `Access`, `AllOrNothing`, `Flags`, `Implementation`, `ChainOfInvitations` | see below |
| `LoginLimiterProofs` | `LimiterTyping`, `LimiterOverrun`, `LimiterLockout` | count + logins in progress of a key are at most Max - 1 + all handlers |
| `SessionsProofs` | `SessionTyping`, `SessionLive`, `SessionRefusedForGood` | see below |
| `DevicesProofs` | `DevicesTyping`, `DevicesLimit` | see below |
| `MessagesProofs` | `MessageTyping`, `HistoryHasNoHoles`, `HistoriesFit`, `FilesFit`, `ReadsStay` | see below |
| `LiveRoomProofs` | `LiveTyping`, `OrderOnEveryPage`, `FeedImplemented`, `EachNewsOnce`, `MessagesImplemented`, `LiveRoomKeeps`, `NothingSkipped` | see below |
| `AccountsProofs` | `AccountTyping`, `CalmCaches` | see below |
| `KeyExchangeProofs` | `KeyTyping`, `KeyAgreement`, `KeysServed`, `RoomKeyImplemented` | see below |

*ChatRooms.* None of the safety properties is inductive: they speak of what is cached, and
what is cached comes from what is in flight. The invariant (theorem `Honesty`) therefore says
of every cache, list in flight and view of a socket that each row of it was true of the
database at some time (the user was a member, the room had that size), of every request past
a check what the check established (an invitation found was offered by somebody who had
joined, participants in flight had joined), and of invitations what their rows imply. It is
preserved because rows are only ever copied from the tables or from one place to another, and
`joined`, `offered` and `was` only grow. The four theorems after it are its consequences.
`Implementation` maps every action to a step or a stutter of `Membership`, using the
invariant for what a stale answer may still justify. `ChainOfInvitations` is then proved
without looking at a handler again: in `Membership` nobody joins a room of the start without
an offer by somebody who had joined (`Chained`), so a set that holds the first members and is
closed under their invitations holds, before a `Join`, the inviter, and after it the guest;
`StepImplements` carries that over to every step of `ChatRooms`.

*Sessions.* A token not yet given to a browser is known neither to the cache nor to a
validation; a validation in flight holds an answer that was true when it was read, and rows
only go from live to ended. Hence no refusal waits for a live session (`SessionLive`). For
`SessionRefusedForGood` that is not enough: a session counts as ended once its logout is
answered, so the invariant must also say that its row went before the answer and before the
invalidation (`Gone`). Then an ended session stays ended (`EndedStays`), every later look at
its row finds nothing live, and a grant could only come from a cache or a validation that
already holds one.

*Devices.* The number of rows alone is not inductive: a request past its count inserts
whatever the rows have become. `Budget` bounds the rows together with the devices that
requests are about to insert (`Known`). A request past the count brings one device, and a
count that admits it found fewer rows than the limit, which every request together can
exceed by one device each; a request that found its device registered brings one that
`Known` has already, and keeps if it is deleted.

*KeyExchange.* For one tab of the owner: his page generates a key only where his browser
stored none (`OwnerFirst`), and from the first key on his browser has one (`OwnerKeeps`);
hence at most one key is ever generated (`OneKey`), and every copy is of a generated one
(`Known`). `RoomKeyImplemented` needs two facts more (`FromCopy`): what a page fetched is
still on the server, and a closed page holds nothing. With `TheKey` (whatever is not null is
the one key) the script's steps are `Make`, `Learn` (from the own browser or the fetched copy),
`Copy` (a share whose call was carried out, whether or not its answer arrived), `Open` and
`Close`, and all others stutter.

*Messages.* Ids are given in increasing order, and every row and every message known to a
request or a cache has an id of at most `last`. A history in flight or cached is the set of the
newest rows of some moment: a row inserted later has a greater id than all of it, so it cannot
lie between two of its messages, and deletions only take rows away. `HistoriesFit` needs in
addition what the SELECT returns for every window: at most `Window` rows (`NewestFew`, as ids
are distinct and each row of the result has fewer than `Window` above it) and all of them if
that is less than `Window` (`NewestAll`: the greatest row left out would have too few above it
to be left out). A short history stays one that leaves out nothing older, because new rows are
newer and others only go. Two messages with the same id are the same message, because `last`
never falls; that is what the file cache rests on. Read positions stay at most `last` and only
fall when their user, or what they counted, is gone: `Mark` takes the greatest id of the room,
which is at least every id still stored.

*LiveRoom.* `LiveShape` says that every step is a step of `Messages` and, for the log and the
tabs, one of three: it stores a message, publishes one, or is quiet (another event, one tab's
move, or the end of all). Each part of the invariant `LiveInv` is then preserved by three
cases. `SenderOrder` is not inductive, because what a page will show is still in a slot, in
the tables, in a cache or in a history in flight. `ByAuthor` speaks of all of these (`Known`):
a message between its INSERT and its publication is the last of its author's, as an author
with one slot has nothing else in progress; so whatever is published is later than every
message of his in the log and in any history read before. `Once` (a message in a slot is in no
event of the log and in no other slot) and `TabsOK` (the news of a page are positions after its
subscription, in increasing order) give the refinement: `Insert` is the feed's `Store`,
`Broadcast` its `Tell`, and the tab's moves are `Load`, `Join`, `Hear`, `Leave` or stutters.
The refinement does not need the premise of one slot for each user. `EachNewsOnce` follows
from the last part of `Once` (no two events of the log tell the same message) and the order of
the news. `NothingSkipped`: only `Receive` and `Lag` move a listening socket (`StandsStill` for all
other steps); the first moves it by one event, which it shows if it is a message of its room, the
second to the oldest event the channel has left. `MessagesImplemented` is in `LiveShape`, and
`LiveRoomKeeps` cites the theorems of `MessagesProofs` through it: nothing about histories, files
and reads is proved twice.

*Accounts.* Uniqueness is the constraint's alone: nothing is assumed of the lookups before the
INSERT. For `CalmIsFresh` the invariant says three things of calm times. `Alone`: a request
that changes accounts runs by itself, so nothing is in flight that it could make stale.
`Tidy`: unless a change is past its statement, every entry is the table's answer. `Fits`: what
a request knows by its place. Before its statement, a change has forgotten every entry of the
row it is about to change, but the list's; after it, only entries of the row as it is now may
be stale, and those are what it forgets next; at the end only the list may be. With ids given
again this needs that the entries forgotten are those of the row itself, whose address comes
from the cache or the table, and both agree in calm times.

Assumptions are the named ASSUMEs of the modules; TLC evaluates them in the runs: names are
distinct, inputs are well formed, `Max` and `Window` are positive and handlers finitely many,
tokens have owners, tabs have devices and devices users.

Only model-checked, because liveness is out of the prover's reach: `LockoutEnds`,
`EndedIsRefused`, `EveryoneGetsKey`, `CachesCatchUp`, `StaleAnswersEnd`, `HeardOrLagged`. Of two
of them the part that needs no fairness is a property of its own and proved: what
`EndedIsRefused` reaches is never left again (`RefusedForGood`), and what `HeardOrLagged` waits
for cannot be passed over (`SkipsOnlyDropped`). The three runs that end in a violation check
claims the code does not keep; nothing is proved of them. Every invariant and action property
and every refinement that a passing run checks is stated by a theorem.

## 6. Findings

- `session_logout`: a page view that read the session before the logout caches it after the
  invalidation; the token works for up to five minutes.
- `keys_late_device`: the owner's page stops sharing for good once all devices registered so
  far have the key; a later device waits until the owner reloads (or another page of the peer
  shares on its start).
- `page_gap`: a message told after a page's history was read and before its script listens is
  on no list of the page until it is reloaded. In an encrypted room the script listens only
  after it has fetched, perhaps generated, and shared the room key.

What else the modelling showed, without a run of its own. The cause of the first finding (a
value is cached after an await without asking whether it was invalidated meanwhile) is in
every cached lookup: a new member may find his room closed until a refusal expires, a new
user may find his login refused for a minute (`StaleAnswersEnd` says that this ends). A
socket keeps stamping messages with the encryption flag its room had when it was opened
(`FlagFitsRoom` says how far it may be off). An invitation checked against participants read
before the invitee joined leaves a member with a pending invitation. Two browsers of a room's
owner keep a key each (`KeysAgree` has one browser of the owner as its premise).
`MAX_DEVICES_PER_USER` is soft: two registrations that count a user's devices before either
inserts leave one more than the limit; `LimitBounded` says how far this goes, and fails if its
bound is made smaller by one. A message may be counted as read that no page has shown: the
read position is taken before the history, which may come from the cache. A message that was
stored when a page's history was read but is published only after the page listens stands on
it twice, in the history and among the news, since the script does not compare them; twice is
the most (`EachNewsOnce`).

## 7. Not modelled

Request metrics: one lock around a ring. Router, configuration, health checks, error and page
rendering: no state of their own. The composition of ChatRooms with KeyExchange: each alone is
near what TLC can check. Two tabs of one browser in KeyExchange (they share `localStorage`).
In LiveRoom: unread counts and files, which Messages has, and two sockets of one tab. The user
that the session cache answers with is a name in Sessions, so that his stale address is not
seen there. Cryptography is taken as ideal. Passwords, CSS, uploads' bytes and wording are data no
property depends on.

## 8. Running

    tlc -workers 2 -config rooms_grow.cfg MCChatRooms     # each cfg names its run
    tlapm ChatRoomsProofs.tla
