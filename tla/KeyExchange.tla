----------------------------- MODULE KeyExchange ----------------------------
EXTENDS Naturals

(***************************************************************************)
(* The room key of a pair room: the script of the chat page, run by every  *)
(* open tab of its two members, and the two server tables it talks through *)
(* (user_devices and chat_room_device_keys). The creator of the room makes *)
(* the key; everybody else polls for a copy wrapped for his own device.    *)
(* Every call to the server is a step of its own; it may fail, or succeed  *)
(* and lose its answer. A tab may be closed at any step, and opened again  *)
(* with what its browser stored.                                           *)
(*                                                                         *)
(* A device is a browser: clearing its data makes it another one. A set of *)
(* at most one key stands for a key or null.                               *)
(***************************************************************************)
CONSTANTS Tabs,
          Devices,
          Keys,        \* the room keys that can be generated (bound)
          DeviceOf,    \* tab -> the browser it runs in
          UserOf,      \* device -> "owner", who created the room, or "peer"
          Participants \* the two of them in the order of their ids

Users == {"owner", "peer"}

ASSUME DevicesAssumption ==
    /\ DeviceOf \in [Tabs -> Devices]
    /\ UserOf \in [Devices -> Users]
    /\ Participants \in {<<"owner", "peer">>, <<"peer", "owner">>}

VARIABLES
    registered,  \* rows of user_devices
    wrapped,     \* device -> the key in its row of chat_room_device_keys
    local,       \* device -> the key in its localStorage
    minted,      \* keys generated so far
    page         \* tab -> where its script is, and the script's variables

vars == <<registered, wrapped, local, minted, page>>

Steps == {"closed", "register", "fetch", "got", "list", "store", "wait"}
MaybeKey == {{}} \cup {{k} : k \in Keys}

Page == [at : Steps,
         key : MaybeKey,            \* roomKey
         got : MaybeKey,            \* the copy a fetch returned
         polling : BOOLEAN,         \* the initialization is over
         turn : 1..3,               \* the participant whose devices are listed next
         todo : SUBSET Devices,     \* listed devices that are still to be served
         shared : SUBSET Devices,   \* sharedDeviceKeys
         all : BOOLEAN,             \* sharedWithEveryone
         full : BOOLEAN]            \* e2eFullyShared

Blank(step) == [at |-> step, key |-> {}, got |-> {}, polling |-> FALSE, turn |-> 1,
                todo |-> {}, shared |-> {}, all |-> FALSE, full |-> FALSE]

(* chat_room_device_keys has a foreign key to user_devices. *)
TypeOK ==
    /\ registered \subseteq Devices
    /\ wrapped \in [Devices -> MaybeKey]
    /\ local \in [Devices -> MaybeKey]
    /\ minted \subseteq Keys
    /\ page \in [Tabs -> Page]
    /\ \A d \in Devices : wrapped[d] # {} => d \in registered

Init ==
    /\ registered = {}
    /\ wrapped = [d \in Devices |-> {}]
    /\ local = [d \in Devices |-> {}]
    /\ minted = {}
    /\ page = [t \in Tabs |-> Blank("closed")]

-----------------------------------------------------------------------------
At(t, step) == page[t].at = step
Owner(t) == UserOf[DeviceOf[t]] = "owner"
Set(t, p) == page' = [page EXCEPT ![t] = p]

(* shareRoomKeyWithParticipants begins. *)
Sharing(p) == [p EXCEPT !.at = "list", !.turn = 1, !.todo = {}, !.all = TRUE]
Waiting(p) == [p EXCEPT !.at = "wait", !.polling = TRUE, !.got = {}]

Open(t) ==
    /\ At(t, "closed")
    /\ Set(t, Blank("register"))
    /\ UNCHANGED <<registered, wrapped, local, minted>>

(* registerDevice; the script goes on if it fails. The owner prefers the   *)
(* key his browser stored.                                                 *)
Outcomes == {"answered", "lost", "failed"}
RegisterOnly(t, o) ==
    /\ At(t, "register")
    /\ registered' = IF o = "failed" THEN registered ELSE registered \cup {DeviceOf[t]}
    /\ Set(t, [page[t] EXCEPT !.at = "fetch"])
    /\ UNCHANGED <<wrapped, local, minted>>
Register(t, o) ==
    /\ At(t, "register")
    /\ registered' = IF o = "failed" THEN registered ELSE registered \cup {DeviceOf[t]}
    /\ Set(t, IF Owner(t) /\ local[DeviceOf[t]] # {}
                THEN Sharing([page[t] EXCEPT !.key = local[DeviceOf[t]]])
                ELSE [page[t] EXCEPT !.at = "fetch"])
    /\ UNCHANGED <<wrapped, local, minted>>

(* loadServerRoomKey: the request, then what the script does with it.      *)
Fetch(t, o) ==
    /\ At(t, "fetch")
    /\ Set(t, [page[t] EXCEPT !.at = "got",
                              !.got = IF o = "answered" THEN wrapped[DeviceOf[t]] ELSE {}])
    /\ UNCHANGED <<registered, wrapped, local, minted>>

Store(k, t) == local' = [local EXCEPT ![DeviceOf[t]] = k]

GotFirst(t) ==
    /\ At(t, "got") /\ ~page[t].polling /\ page[t].got # {}
    /\ Store(page[t].got, t)
    /\ Set(t, Sharing([page[t] EXCEPT !.key = page[t].got, !.got = {}]))
    /\ UNCHANGED <<registered, wrapped, minted>>

(* No copy for this device: the owner generates a key, if he can.          *)
MintByAnyone(t) ==
    /\ At(t, "got") /\ ~page[t].polling /\ page[t].got = {}
    /\ \E k \in Keys \ minted :
         /\ minted' = minted \cup {k}
         /\ Store({k}, t)
         /\ Set(t, Sharing([page[t] EXCEPT !.key = {k}]))
    /\ UNCHANGED <<registered, wrapped>>
Mint(t) ==
    /\ At(t, "got") /\ ~page[t].polling /\ page[t].got = {} /\ Owner(t)
    /\ \E k \in Keys \ minted :
         /\ minted' = minted \cup {k}
         /\ Store({k}, t)
         /\ Set(t, Sharing([page[t] EXCEPT !.key = {k}]))
    /\ UNCHANGED <<registered, wrapped>>

GotNone(t) ==
    /\ At(t, "got") /\ ~page[t].polling /\ page[t].got = {}
    /\ Set(t, Waiting(page[t]))
    /\ UNCHANGED <<registered, wrapped, local, minted>>

-----------------------------------------------------------------------------
(* e2ePoll. The owner fetches only while he has no key, and shares until   *)
(* everybody has it.                                                       *)
Poll(t) ==
    /\ At(t, "wait")
    /\ \/ /\ ~Owner(t) \/ page[t].key = {}
          /\ Set(t, [page[t] EXCEPT !.at = "fetch"])
       \/ /\ Owner(t) /\ page[t].key # {} /\ ~page[t].full
          /\ Set(t, Sharing(page[t]))
    /\ UNCHANGED <<registered, wrapped, local, minted>>

GotAgain(t) ==
    /\ At(t, "got") /\ page[t].polling
    /\ LET p == page[t]
           q == IF p.got \in {{}, p.key} THEN p
                ELSE [p EXCEPT !.key = p.got, !.shared = {}, !.full = FALSE]
       IN /\ IF p.got = {} THEN UNCHANGED local ELSE Store(p.got, t)
          /\ Set(t, IF Owner(t) /\ q.key # {} THEN Sharing([q EXCEPT !.got = {}])
                                              ELSE Waiting(q))
    /\ UNCHANGED <<registered, wrapped, minted>>

-----------------------------------------------------------------------------
(* shareRoomKeyWithParticipants: a participant's devices are listed, then  *)
(* every one that was not served yet gets its copy. A participant without  *)
(* a device is not served.                                                 *)
Next1(p) == [p EXCEPT !.at = IF p.todo = {} THEN "list" ELSE "store"]

DevicesOf(u) == {d \in registered : UserOf[d] = u}

Listed(t, found) ==
    /\ At(t, "list") /\ page[t].turn < 3
    /\ Set(t, Next1([page[t] EXCEPT !.turn = @ + 1, !.all = @ /\ found # {},
                                    !.todo = found \ page[t].shared]))
    /\ UNCHANGED <<registered, wrapped, local, minted>>
ListKnown(t, o) ==
    Listed(t, IF o = "answered" THEN {d \in Devices : UserOf[d] = Participants[page[t].turn]}
                                ELSE {})
ListFirst(t, o) ==
    Listed(t, IF o = "answered" THEN DevicesOf(Participants[1]) ELSE {})
List(t, o) ==
    Listed(t, IF o = "answered" THEN DevicesOf(Participants[page[t].turn]) ELSE {})

(* storeRoomKey, an upsert: the last copy stored for a device stays.       *)
ShareAnyway(t, d, o) ==
    /\ At(t, "store") /\ d \in page[t].todo
    /\ wrapped' = IF o = "failed" THEN wrapped ELSE [wrapped EXCEPT ![d] = page[t].key]
    /\ Set(t, Next1([page[t] EXCEPT !.todo = @ \ {d}, !.all = @ /\ o = "answered",
                                    !.shared = @ \cup {d}]))
    /\ UNCHANGED <<registered, local, minted>>
Share(t, d, o) ==
    /\ At(t, "store") /\ d \in page[t].todo
    /\ wrapped' = IF o = "failed" THEN wrapped ELSE [wrapped EXCEPT ![d] = page[t].key]
    /\ Set(t, Next1([page[t] EXCEPT !.todo = @ \ {d}, !.all = @ /\ o = "answered",
                                    !.shared = IF o = "answered" THEN @ \cup {d} ELSE @]))
    /\ UNCHANGED <<registered, local, minted>>

(* Only the poll of the owner remembers that everybody was served.         *)
Shared(t) ==
    /\ At(t, "list") /\ page[t].turn = 3
    /\ Set(t, Waiting([page[t] EXCEPT !.full = page[t].polling /\ page[t].all]))
    /\ UNCHANGED <<registered, wrapped, local, minted>>

Close(t) ==
    /\ ~At(t, "closed")
    /\ Set(t, Blank("closed"))
    /\ UNCHANGED <<registered, wrapped, local, minted>>

-----------------------------------------------------------------------------
Call(t, o) ==
    \/ Register(t, o) \/ List(t, o) \/ Fetch(t, o)
    \/ \E d \in Devices : Share(t, d, o)
Script(t) == GotFirst(t) \/ Mint(t) \/ GotNone(t) \/ Poll(t) \/ GotAgain(t) \/ Shared(t)

Next == \E t \in Tabs :
    Open(t) \/ Close(t) \/ Script(t) \/ \E o \in Outcomes : Call(t, o)

Spec == Init /\ [][Next]_vars

(* An open tab's script runs, and no call fails for ever.                  *)
FairSpec ==
    /\ Spec
    /\ \A t \in Tabs :
         /\ WF_vars(Script(t))
         /\ WF_vars(\E o \in Outcomes : Call(t, o))
         /\ SF_vars(Fetch(t, "answered"))
         /\ \A n \in 1..2 : SF_vars(page[t].turn = n /\ List(t, "answered"))
         /\ \A d \in Devices : SF_vars(Share(t, d, "answered"))

-----------------------------------------------------------------------------
(* With one tab of the owner there is one room key: no two scripts ever    *)
(* hold different keys, whatever was stored, fetched late, shared by the   *)
(* other side or kept by a closed browser.                                 *)
OneOwnerTab == \E o \in Tabs : \A t \in Tabs : Owner(t) => t = o
KeysAgree ==
    OneOwnerTab => \A s, t \in Tabs :
      page[s].key # {} /\ page[t].key # {} => page[s].key = page[t].key

(* A device the script remembers as served has the script's key.           *)
ServedHasKey ==
    OneOwnerTab => \A t \in Tabs : \A d \in page[t].shared : wrapped[d] = page[t].key

(* What the tabs and the server do is one key made once and handed on: a   *)
(* page holds it only after its own browser stored it or somebody who held *)
(* it left a copy for that browser, and loses it only when it closes. (The *)
(* owner has one tab in the run; the theorem has that as its assumption.)  *)
Opened(t) == ~At(t, "closed")
R == INSTANCE RoomKey WITH
       key <- minted,
       open <- {t \in Tabs : Opened(t)},
       kept <- {d \in Devices : local[d] # {}},
       copied <- {d \in Devices : wrapped[d] # {}},
       held <- [t \in Tabs |-> page[t].key]
ImplementsRoomKey == R!Spec

Connected == \A t \in Tabs : Opened(t) /\ DeviceOf[t] \in registered

(* Once all tabs are open for good, on registered devices, and the owner's *)
(* browser managed to make a key, every tab gets it. (The code keeps this  *)
(* for one device of the peer, not for a second one.)                      *)
Keyed == \E o \in Tabs : Owner(o) /\ page[o].key # {}
EveryoneGetsKey ==
    <>[](Connected /\ Keyed) => <>[](\A t \in Tabs : page[t].key # {})

(* "Alice encrypts (wraps) the room key with each registered device public *)
(* key": while the owner's page counts the key as fully shared, which it   *)
(* does for ever and then shares no more, no registered device is without  *)
(* a copy. The code does not keep this for a device registered later.      *)
FullyShared ==
    \A t \in Tabs : page[t].full => \A d \in registered : wrapped[d] # {}
=============================================================================
