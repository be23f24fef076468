------------------------- MODULE KeyExchangeProofs --------------------------
(***************************************************************************)
(* Types, and that with one tab of the owner all pages hold one room key   *)
(* and scripts and server implement RoomKey, for all tabs, devices, keys.  *)
(*                                                                         *)
(* The argument: the owner's tab generates a key only when its browser     *)
(* stored none (OwnerFirst), and from the first key on its browser always  *)
(* has one (OwnerKeeps); so at most one key is ever generated (OneKey),    *)
(* and every copy anywhere is of a generated key (Known).                  *)
(***************************************************************************)
EXTENDS KeyExchange, TLAPS

(* Devices still to be served are registered: with it TypeOK is inductive. *)
Pending == \A t \in Tabs : page[t].todo \subseteq registered

OneKey == \A k, l \in minted : k = l
Known ==
    /\ \A d \in Devices : wrapped[d] \subseteq minted /\ local[d] \subseteq minted
    /\ \A t \in Tabs : page[t].key \subseteq minted /\ page[t].got \subseteq minted
OwnerKeeps == \A t \in Tabs : Owner(t) /\ minted # {} => local[DeviceOf[t]] # {}
OwnerFirst ==
    \A t \in Tabs : Owner(t) /\ page[t].at \in {"fetch", "got"} /\ ~page[t].polling
                      => local[DeviceOf[t]] = {}
Sharers == \A t \in Tabs : page[t].at \in {"list", "store"} => page[t].key # {}
Polls == \A t \in Tabs : page[t].at = "wait" => page[t].polling
Served ==
    \A t \in Tabs : \A d \in page[t].shared : page[t].key # {} /\ wrapped[d] = page[t].key

Inv == OneKey /\ Known /\ OwnerKeeps /\ OwnerFirst /\ Sharers /\ Polls /\ Served

-----------------------------------------------------------------------------
(* A key or null is null or made of one generated key.                     *)
LEMMA SameKey ==
    ASSUME NEW x \in MaybeKey, NEW y \in MaybeKey, OneKey, x # {}, y # {},
           x \subseteq minted, y \subseteq minted
    PROVE  x = y
BY DEF MaybeKey, OneKey

-----------------------------------------------------------------------------
(* The records the script's variables are set to.                          *)
LEMMA BlankPage == \A step \in Steps : Blank(step) \in Page
BY DEF Blank, Page, MaybeKey, Steps

LEMMA SharingPage ==
    ASSUME NEW p \in Page PROVE Sharing(p) \in Page
<1>0. "list" \in Steps /\ 1 \in 1..3
  BY DEF Steps
<1>1. [p EXCEPT !.at = "list", !.turn = 1] \in Page
  BY <1>0 DEF Page
<1>2. [[p EXCEPT !.at = "list", !.turn = 1] EXCEPT !.todo = {}, !.all = TRUE] \in Page
  BY <1>1 DEF Page
<1>3. Sharing(p) = [[p EXCEPT !.at = "list", !.turn = 1] EXCEPT !.todo = {}, !.all = TRUE]
  BY DEF Sharing, Page
<1> QED
  BY <1>2, <1>3

LEMMA WaitingPage ==
    ASSUME NEW p \in Page PROVE Waiting(p) \in Page
BY DEF Waiting, Page, Steps, MaybeKey

LEMMA Next1Page ==
    ASSUME NEW p \in Page PROVE Next1(p) \in Page
BY DEF Next1, Page, Steps

LEMMA SetPage ==
    ASSUME TypeOK, NEW t \in Tabs, NEW q \in Page, Set(t, q)
    PROVE  page' \in [Tabs -> Page]
BY DEF Set, TypeOK

LEMMA PageOf ==
    ASSUME TypeOK, NEW t \in Tabs
    PROVE  page[t] \in Page /\ DeviceOf[t] \in Devices
BY DevicesAssumption DEF TypeOK

(* A step that only moves a script.                                        *)
LEMMA OnlyPage ==
    ASSUME TypeOK, NEW t \in Tabs, NEW q \in Page, Set(t, q),
           UNCHANGED <<registered, wrapped, local, minted>>
    PROVE  TypeOK'
<1>1. page' \in [Tabs -> Page]
  BY SetPage
<1> QED
  BY <1>1 DEF TypeOK

LEMMA RegisterType ==
    ASSUME TypeOK, NEW t \in Tabs, NEW o \in Outcomes, Register(t, o)
    PROVE  TypeOK'
<1> DEFINE stored == local[DeviceOf[t]]
           q == IF Owner(t) /\ stored # {}
                  THEN Sharing([page[t] EXCEPT !.key = stored])
                  ELSE [page[t] EXCEPT !.at = "fetch"]
<1>1. page[t] \in Page /\ DeviceOf[t] \in Devices /\ stored \in MaybeKey
  BY PageOf DEF TypeOK
<1>2. [page[t] EXCEPT !.key = stored] \in Page
  BY <1>1 DEF Page
<1>3. [page[t] EXCEPT !.at = "fetch"] \in Page
  BY <1>1 DEF Page, Steps
<1>4. q \in Page
  BY <1>2, <1>3, SharingPage
<1>5. Set(t, q)
  BY DEF Register
<1>6. page' \in [Tabs -> Page]
  BY <1>4, <1>5, SetPage
<1>7. /\ registered' \subseteq Devices /\ registered \subseteq registered'
      /\ UNCHANGED <<wrapped, local, minted>>
  BY <1>1 DEF Register, TypeOK
<1> QED
  BY <1>6, <1>7 DEF TypeOK

LEMMA FetchType ==
    ASSUME TypeOK, NEW t \in Tabs, NEW o \in Outcomes, Fetch(t, o)
    PROVE  TypeOK'
<1> DEFINE found == IF o = "answered" THEN wrapped[DeviceOf[t]] ELSE {}
           q == [page[t] EXCEPT !.at = "got", !.got = found]
<1>1. page[t] \in Page /\ DeviceOf[t] \in Devices
  BY PageOf
<1>2. found \in MaybeKey
  BY <1>1 DEF TypeOK, MaybeKey
<1>3. q \in Page
  BY <1>1, <1>2 DEF Page, Steps
<1> QED
  BY <1>3, OnlyPage DEF Fetch

LEMMA StoreType ==
    ASSUME TypeOK, NEW t \in Tabs, NEW k \in MaybeKey, Store(k, t)
    PROVE  local' \in [Devices -> MaybeKey]
BY PageOf DEF Store, TypeOK

LEMMA GotFirstType ==
    ASSUME TypeOK, NEW t \in Tabs, GotFirst(t)
    PROVE  TypeOK'
<1> DEFINE q == Sharing([page[t] EXCEPT !.key = page[t].got, !.got = {}])
<1>1. page[t] \in Page /\ page[t].got \in MaybeKey
  BY PageOf DEF Page
<1>2. [page[t] EXCEPT !.key = page[t].got, !.got = {}] \in Page
  BY <1>1 DEF Page, MaybeKey
<1>3. q \in Page
  BY <1>2, SharingPage
<1>4. page' \in [Tabs -> Page]
  BY <1>3, SetPage DEF GotFirst
<1>5. local' \in [Devices -> MaybeKey]
  BY <1>1, StoreType DEF GotFirst
<1> QED
  BY <1>4, <1>5 DEF TypeOK, GotFirst

LEMMA MintType ==
    ASSUME TypeOK, NEW t \in Tabs, Mint(t)
    PROVE  TypeOK'
<1>1. PICK k \in Keys \ minted :
        /\ minted' = minted \cup {k}
        /\ Store({k}, t)
        /\ Set(t, Sharing([page[t] EXCEPT !.key = {k}]))
  BY DEF Mint
<1>2. {k} \in MaybeKey
  BY DEF MaybeKey
<1>3. [page[t] EXCEPT !.key = {k}] \in Page
  BY <1>2, PageOf DEF Page
<1>4. page' \in [Tabs -> Page]
  BY <1>1, <1>3, SharingPage, SetPage
<1>5. local' \in [Devices -> MaybeKey]
  BY <1>1, <1>2, StoreType
<1> QED
  BY <1>1, <1>4, <1>5 DEF TypeOK, Mint

LEMMA GotAgainType ==
    ASSUME TypeOK, NEW t \in Tabs, GotAgain(t)
    PROVE  TypeOK'
<1> DEFINE p == page[t]
           q == IF p.got \in {{}, p.key} THEN p
                ELSE [p EXCEPT !.key = p.got, !.shared = {}, !.full = FALSE]
           n == IF Owner(t) /\ q.key # {} THEN Sharing([q EXCEPT !.got = {}]) ELSE Waiting(q)
<1>1. p \in Page /\ p.got \in MaybeKey
  BY PageOf DEF Page
<1>2. q \in Page
  BY <1>1 DEF Page
<1>3. [q EXCEPT !.got = {}] \in Page
  <2> HIDE DEF q
  <2> QED
    BY <1>2 DEF Page, MaybeKey
<1>4. n \in Page
  <2> HIDE DEF q
  <2> QED
    BY <1>2, <1>3, SharingPage, WaitingPage
<1>5. Set(t, n)
  BY DEF GotAgain
<1>6. page' \in [Tabs -> Page]
  <2> HIDE DEF n
  <2> QED
    BY <1>4, <1>5, SetPage
<1>7. local' \in [Devices -> MaybeKey]
  <2>1. CASE p.got = {}
    BY <2>1 DEF GotAgain, TypeOK
  <2>2. CASE p.got # {}
    BY <2>2, <1>1, StoreType DEF GotAgain
  <2> QED
    BY <2>1, <2>2
<1> QED
  BY <1>6, <1>7 DEF TypeOK, GotAgain

LEMMA PollType ==
    ASSUME TypeOK, NEW t \in Tabs, Poll(t)
    PROVE  TypeOK'
<1>1. page[t] \in Page
  BY PageOf
<1>2. [page[t] EXCEPT !.at = "fetch"] \in Page
  BY <1>1 DEF Page, Steps
<1>3. CASE Set(t, [page[t] EXCEPT !.at = "fetch"])
  BY <1>2, <1>3, OnlyPage DEF Poll
<1>4. CASE Set(t, Sharing(page[t]))
  BY <1>1, <1>4, SharingPage, OnlyPage DEF Poll
<1> QED
  BY <1>3, <1>4 DEF Poll

LEMMA ListType ==
    ASSUME TypeOK, NEW t \in Tabs, NEW o \in Outcomes, List(t, o)
    PROVE  TypeOK'
<1>1. PICK found \in SUBSET registered : Listed(t, found)
  BY DEF List, DevicesOf
<1> DEFINE q == [page[t] EXCEPT !.turn = @ + 1, !.all = @ /\ found # {},
                                !.todo = found \ page[t].shared]
<1>2. page[t] \in Page /\ found \subseteq Devices
  BY PageOf DEF TypeOK
<1>3. page[t].turn + 1 \in 1..3
  BY <1>1, <1>2 DEF Listed, Page
<1>4. q \in Page
  BY <1>2, <1>3 DEF Page
<1>5. Set(t, Next1(q))
  BY <1>1 DEF Listed
<1> HIDE DEF q
<1>6. Next1(q) \in Page
  BY <1>4, Next1Page
<1>7. UNCHANGED <<registered, wrapped, local, minted>>
  BY <1>1 DEF Listed
<1> QED
  BY <1>5, <1>6, <1>7, OnlyPage

LEMMA SharedType ==
    ASSUME TypeOK, NEW t \in Tabs, Shared(t)
    PROVE  TypeOK'
<1> DEFINE q == [page[t] EXCEPT !.full = page[t].polling /\ page[t].all]
<1>1. q \in Page
  BY PageOf DEF Page
<1>2. Set(t, Waiting(q))
  BY DEF Shared
<1> HIDE DEF q
<1> QED
  BY <1>1, <1>2, WaitingPage, OnlyPage DEF Shared

LEMMA StepType ==
    ASSUME TypeOK, NEW t \in Tabs, Open(t) \/ Close(t) \/ GotNone(t)
    PROVE  TypeOK'
<1>1. Blank("register") \in Page /\ Blank("closed") \in Page
  BY BlankPage DEF Steps
<1>2. CASE Open(t)
  BY <1>1, <1>2, OnlyPage DEF Open
<1>3. CASE Close(t)
  BY <1>1, <1>3, OnlyPage DEF Close
<1>4. CASE GotNone(t)
  BY <1>4, PageOf, WaitingPage, OnlyPage DEF GotNone
<1> QED
  BY <1>2, <1>3, <1>4

LEMMA ShareType ==
    ASSUME TypeOK, NEW t \in Tabs, NEW d \in Devices, NEW o \in Outcomes, Share(t, d, o),
           d \in registered
    PROVE  TypeOK'
<1> DEFINE q == [page[t] EXCEPT !.todo = @ \ {d}, !.all = @ /\ o = "answered",
                                !.shared = IF o = "answered" THEN @ \cup {d} ELSE @]
<1>1. page[t] \in Page /\ page[t].key \in MaybeKey
  BY PageOf DEF Page
<1>2. q \in Page
  BY <1>1 DEF Page
<1>3. Set(t, Next1(q))
  BY DEF Share
<1>4. page' \in [Tabs -> Page]
  <2> HIDE DEF q
  <2> QED
    BY <1>2, <1>3, Next1Page, SetPage
<1>5. /\ wrapped' \in [Devices -> MaybeKey]
      /\ \A e \in Devices : wrapped'[e] # {} => e \in registered
  BY <1>1 DEF TypeOK, Share
<1> QED
  BY <1>4, <1>5 DEF TypeOK, Share

-----------------------------------------------------------------------------
(* What a script's next record keeps of the one before.                    *)
LEMMA Fields ==
    ASSUME NEW p \in Page
    PROVE  /\ Sharing(p).at = "list" /\ Sharing(p).key = p.key /\ Sharing(p).got = p.got
           /\ Sharing(p).shared = p.shared /\ Sharing(p).todo = {}
           /\ Waiting(p).at = "wait" /\ Waiting(p).key = p.key /\ Waiting(p).got = {}
           /\ Waiting(p).polling /\ Waiting(p).shared = p.shared /\ Waiting(p).todo = p.todo
           /\ Next1(p).at \in {"list", "store"} /\ Next1(p).key = p.key
           /\ Next1(p).got = p.got /\ Next1(p).shared = p.shared /\ Next1(p).todo = p.todo
BY DEF Sharing, Waiting, Next1, Page

LEMMA Frame ==
    ASSUME TypeOK, NEW t \in Tabs, NEW q, Set(t, q)
    PROVE  page'[t] = q /\ \A s \in Tabs \ {t} : page'[s] = page[s]
BY DEF TypeOK, Set

LEMMA PendingSet ==
    ASSUME TypeOK, Pending, NEW t \in Tabs, NEW q, Set(t, q),
           registered \subseteq registered', q.todo \subseteq registered'
    PROVE  Pending'
<1>1. page'[t] = q /\ \A s \in Tabs \ {t} : page'[s] = page[s]
  BY Frame
<1>2. ASSUME NEW s \in Tabs PROVE page'[s].todo \subseteq registered'
  BY <1>1 DEF Pending
<1> QED
  BY <1>2 DEF Pending

LEMMA PendingCall ==
    ASSUME TypeOK, Pending, NEW t \in Tabs, NEW o \in Outcomes, Call(t, o)
    PROVE  Pending'
<1>1. page[t] \in Page /\ page[t].todo \subseteq registered
  BY PageOf DEF Pending
<1>2. CASE Register(t, o)
  <2> DEFINE stored == local[DeviceOf[t]]
             p == [page[t] EXCEPT !.key = stored]
             q == IF Owner(t) /\ stored # {} THEN Sharing(p) ELSE [page[t] EXCEPT !.at = "fetch"]
  <2>1. stored \in MaybeKey
    BY PageOf DEF TypeOK
  <2>2. p \in Page
    BY <1>1, <2>1 DEF Page
  <2>3. Sharing(p).todo = {}
    BY <2>2, Fields
  <2>4. [page[t] EXCEPT !.at = "fetch"].todo = page[t].todo
    BY <1>1 DEF Page
  <2>5. Set(t, q) /\ registered \subseteq registered'
    BY <1>2 DEF Register
  <2>6. q.todo \subseteq registered
    BY <1>1, <2>3, <2>4
  <2> HIDE DEF q
  <2> QED
    BY <2>5, <2>6, PendingSet
<1>3. CASE List(t, o)
  <2>1. PICK found \in SUBSET registered : Listed(t, found)
    BY <1>3 DEF List, DevicesOf
  <2> DEFINE q == [page[t] EXCEPT !.turn = @ + 1, !.all = @ /\ found # {},
                                  !.todo = found \ page[t].shared]
  <2>2. q \in Page
    <3>1. page[t].turn + 1 \in 1..3 /\ found \subseteq Devices
      BY <1>1, <2>1 DEF Listed, Page, TypeOK
    <3> QED
      BY <1>1, <3>1 DEF Page
  <2>3. q.todo \subseteq registered
    BY <1>1 DEF Page
  <2>4. Next1(q).todo = q.todo
    BY <2>2, Fields
  <2>5. Set(t, Next1(q)) /\ registered' = registered
    BY <2>1 DEF Listed
  <2> HIDE DEF q
  <2> QED
    BY <2>3, <2>4, <2>5, PendingSet
<1>4. CASE Fetch(t, o)
  <2>1. [page[t] EXCEPT !.at = "got", !.got = IF o = "answered" THEN wrapped[DeviceOf[t]] ELSE {}].todo
          = page[t].todo
    BY <1>1 DEF Page
  <2> QED
    BY <1>1, <1>4, <2>1, PendingSet DEF Fetch
<1>5. ASSUME NEW d \in Devices, Share(t, d, o) PROVE Pending'
  <2> DEFINE q == [page[t] EXCEPT !.todo = @ \ {d}, !.all = @ /\ o = "answered",
                                  !.shared = IF o = "answered" THEN @ \cup {d} ELSE @]
  <2>1. q \in Page /\ q.todo \subseteq registered
    BY <1>1 DEF Page
  <2>2. Next1(q).todo = q.todo
    BY <2>1, Fields
  <2>3. Set(t, Next1(q)) /\ registered' = registered
    BY <1>5 DEF Share
  <2> HIDE DEF q
  <2> QED
    BY <2>1, <2>2, <2>3, PendingSet
<1> QED
  BY <1>2, <1>3, <1>4, <1>5 DEF Call

LEMMA PendingScript ==
    ASSUME TypeOK, Pending, NEW t \in Tabs, Script(t) \/ Open(t) \/ Close(t)
    PROVE  Pending'
<1>1. page[t] \in Page /\ page[t].todo \subseteq registered
  BY PageOf DEF Pending
<1>2. registered' = registered
  BY DEF Script, Open, Close, GotFirst, Mint, GotNone, Poll, GotAgain, Shared
<1>3. CASE Open(t) \/ Close(t)
  <2>1. Blank("register").todo = {} /\ Blank("closed").todo = {}
    BY DEF Blank
  <2> QED
    BY <1>2, <1>3, <2>1, PendingSet DEF Open, Close
<1>4. CASE GotFirst(t)
  <2> DEFINE q == [page[t] EXCEPT !.key = page[t].got, !.got = {}]
  <2>1. q \in Page
    BY <1>1 DEF Page, MaybeKey
  <2>2. Set(t, Sharing(q))
    BY <1>4 DEF GotFirst
  <2>3. Sharing(q).todo = {}
    BY <2>1, Fields
  <2> QED
    BY <1>2, <2>2, <2>3, PendingSet
<1>5. CASE Mint(t)
  <2>1. PICK k \in Keys : Set(t, Sharing([page[t] EXCEPT !.key = {k}]))
    BY <1>5 DEF Mint
  <2>2. [page[t] EXCEPT !.key = {k}] \in Page
    BY <1>1 DEF Page, MaybeKey
  <2>3. Sharing([page[t] EXCEPT !.key = {k}]).todo = {}
    BY <2>2, Fields
  <2> QED
    BY <1>2, <2>1, <2>3, PendingSet
<1>6. CASE GotNone(t)
  BY <1>1, <1>2, <1>6, Fields, PendingSet DEF GotNone
<1>7. CASE Poll(t)
  <2>1. [page[t] EXCEPT !.at = "fetch"].todo = page[t].todo /\ Sharing(page[t]).todo = {}
    BY <1>1, Fields DEF Page
  <2> QED
    BY <1>1, <1>2, <1>7, <2>1, PendingSet DEF Poll
<1>8. CASE GotAgain(t)
  <2> DEFINE p == page[t]
             q == IF p.got \in {{}, p.key} THEN p
                  ELSE [p EXCEPT !.key = p.got, !.shared = {}, !.full = FALSE]
             r == [q EXCEPT !.got = {}]
             n == IF Owner(t) /\ q.key # {} THEN Sharing(r) ELSE Waiting(q)
  <2>1. q \in Page /\ q.todo = page[t].todo
    BY <1>1 DEF Page
  <2>2. r \in Page
    <3> HIDE DEF q
    <3> QED
      BY <2>1 DEF Page, MaybeKey
  <2>3. Set(t, n)
    BY <1>8 DEF GotAgain
  <2>4. n.todo \subseteq registered
    <3> HIDE DEF q, r
    <3> QED
      BY <1>1, <2>1, <2>2, Fields
  <2> HIDE DEF n
  <2> QED
    BY <1>2, <2>3, <2>4, PendingSet
<1>9. CASE Shared(t)
  <2> DEFINE q == [page[t] EXCEPT !.full = page[t].polling /\ page[t].all]
  <2>1. q \in Page /\ q.todo = page[t].todo
    BY <1>1 DEF Page
  <2>2. Set(t, Waiting(q))
    BY <1>9 DEF Shared
  <2> HIDE DEF q
  <2>3. Waiting(q).todo = page[t].todo
    BY <2>1, Fields
  <2> QED
    BY <1>1, <1>2, <2>2, <2>3, PendingSet
<1> QED
  BY <1>3, <1>4, <1>5, <1>6, <1>7, <1>8, <1>9 DEF Script

LEMMA TypeStep ==
    ASSUME TypeOK, Pending, [Next]_vars
    PROVE  TypeOK' /\ Pending'
<1>1. CASE UNCHANGED vars
  BY <1>1 DEF vars, TypeOK, Pending
<1>2. ASSUME NEW t \in Tabs, Open(t) \/ Close(t) PROVE TypeOK' /\ Pending'
  BY <1>2, StepType, PendingScript
<1>3. ASSUME NEW t \in Tabs, Script(t) PROVE TypeOK' /\ Pending'
  <2>1. TypeOK'
    BY <1>3, GotFirstType, MintType, StepType, PollType, GotAgainType, SharedType DEF Script
  <2> QED
    BY <1>3, <2>1, PendingScript
<1>4. ASSUME NEW t \in Tabs, NEW o \in Outcomes, Call(t, o) PROVE TypeOK' /\ Pending'
  <2>1. ASSUME NEW d \in Devices, Share(t, d, o) PROVE TypeOK'
    <3>1. d \in registered
      BY <2>1 DEF Share, Pending
    <3> QED
      BY <2>1, <3>1, ShareType
  <2>2. TypeOK'
    BY <1>4, <2>1, RegisterType, ListType, FetchType DEF Call
  <2> QED
    BY <1>4, <2>2, PendingCall
<1> QED
  BY <1>1, <1>2, <1>3, <1>4 DEF Next

(* Every variable keeps its type, and only registered devices have copies. *)
THEOREM KeyTyping == Spec => []TypeOK
<1>1. Init => TypeOK /\ Pending
  <2>1. Blank("closed") \in Page /\ Blank("closed").todo = {}
    BY BlankPage DEF Steps, Blank
  <2> QED
    BY <2>1 DEF Init, TypeOK, Pending, MaybeKey
<1>2. TypeOK /\ Pending /\ [Next]_vars => (TypeOK /\ Pending)'
  BY TypeStep
<1> QED
  BY <1>1, <1>2, PTL DEF Spec

-----------------------------------------------------------------------------
(* With one tab of the owner, no other tab runs in its browser.            *)
LEMMA OwnerAlone ==
    ASSUME OneOwnerTab, TypeOK, NEW s \in Tabs, NEW t \in Tabs, Owner(s), s # t
    PROVE  ~Owner(t) /\ DeviceOf[s] # DeviceOf[t]
BY DEF OneOwnerTab, Owner

(* What the invariant asks of one script's record.                         *)
Fits(q, t) ==
    /\ q.key \subseteq minted' /\ q.got \subseteq minted'
    /\ Owner(t) /\ q.at \in {"fetch", "got"} /\ ~q.polling => local'[DeviceOf[t]] = {}
    /\ q.at \in {"list", "store"} => q.key # {}
    /\ q.at = "wait" => q.polling
    /\ \A d \in q.shared : q.key # {} /\ wrapped'[d] = q.key

(* A step that only moves a script, or registers its device.               *)
LEMMA PageStep ==
    ASSUME TypeOK, Inv, NEW t \in Tabs, NEW q, Set(t, q), Fits(q, t),
           UNCHANGED <<wrapped, local, minted>>
    PROVE  Inv'
<1>1. page'[t] = q /\ \A s \in Tabs \ {t} : page'[s] = page[s]
  BY Frame
<1>2. OneKey'
  BY DEF Inv, OneKey
<1>3. Known'
  BY <1>1 DEF Inv, Known, Fits
<1>4. OwnerKeeps'
  BY DEF Inv, OwnerKeeps, Owner
<1>5. OwnerFirst'
  BY <1>1 DEF Inv, OwnerFirst, Owner, Fits
<1>6. Sharers' /\ Polls'
  BY <1>1 DEF Inv, Sharers, Polls, Fits
<1>7. Served'
  BY <1>1 DEF Inv, Served, Fits
<1> QED
  BY <1>2, <1>3, <1>4, <1>5, <1>6, <1>7 DEF Inv

(* A step that stores a key in the browser, perhaps one just generated.    *)
LEMMA StoreStep ==
    ASSUME OneOwnerTab, TypeOK, Inv, NEW t \in Tabs, NEW q, Set(t, q), Fits(q, t),
           NEW k, k # {}, k \subseteq minted', Store(k, t), wrapped' = wrapped,
           minted \subseteq minted', OneKey', minted' # minted => Owner(t)
    PROVE  Inv'
<1>1. page'[t] = q /\ \A s \in Tabs \ {t} : page'[s] = page[s]
  BY Frame
<1>2. /\ local'[DeviceOf[t]] = k
      /\ \A d \in Devices \ {DeviceOf[t]} : local'[d] = local[d]
  BY PageOf DEF Store, TypeOK
<1>3. Known'
  <2>1. \A d \in Devices : wrapped'[d] \subseteq minted' /\ local'[d] \subseteq minted'
    BY <1>2 DEF Inv, Known
  <2>2. \A s \in Tabs : page'[s].key \subseteq minted' /\ page'[s].got \subseteq minted'
    BY <1>1 DEF Inv, Known, Fits
  <2> QED
    BY <2>1, <2>2 DEF Known
<1>4. ASSUME NEW s \in Tabs, Owner(s), minted' # {} PROVE local'[DeviceOf[s]] # {}
  <2>1. CASE s = t
    BY <2>1, <1>2
  <2>2. CASE s # t
    <3>1. minted' = minted
      BY <2>2, <1>4, OwnerAlone
    <3>2. local'[DeviceOf[s]] = local[DeviceOf[s]]
      BY <2>2, <1>2, <1>4, OwnerAlone, PageOf
    <3> QED
      BY <3>1, <3>2, <1>4 DEF Inv, OwnerKeeps
  <2> QED
    BY <2>1, <2>2
<1>5. ASSUME NEW s \in Tabs, Owner(s), page'[s].at \in {"fetch", "got"}, ~page'[s].polling
      PROVE  local'[DeviceOf[s]] = {}
  <2>1. CASE s = t
    BY <2>1, <1>1, <1>5 DEF Fits
  <2>2. CASE s # t
    <3>1. local'[DeviceOf[s]] = local[DeviceOf[s]]
      BY <2>2, <1>2, <1>5, OwnerAlone, PageOf
    <3> QED
      BY <3>1, <2>2, <1>1, <1>5 DEF Inv, OwnerFirst
  <2> QED
    BY <2>1, <2>2
<1>6. OwnerKeeps' /\ OwnerFirst'
  BY <1>4, <1>5 DEF OwnerKeeps, OwnerFirst, Owner
<1>7. Sharers' /\ Polls'
  BY <1>1 DEF Inv, Sharers, Polls, Fits
<1>8. Served'
  BY <1>1 DEF Inv, Served, Fits
<1> QED
  BY <1>3, <1>6, <1>7, <1>8 DEF Inv

-----------------------------------------------------------------------------
(* One lemma for each action, on the conjuncts it can disturb.             *)
LEMMA OpenInv ==
    ASSUME TypeOK, Inv, NEW t \in Tabs, Open(t) \/ Close(t)
    PROVE  Inv'
<1>1. /\ Blank("register").key = {} /\ Blank("register").got = {}
      /\ Blank("register").at = "register" /\ Blank("register").shared = {}
      /\ Blank("closed").key = {} /\ Blank("closed").got = {}
      /\ Blank("closed").at = "closed" /\ Blank("closed").shared = {}
  BY DEF Blank
<1>2. Fits(Blank("register"), t) /\ Fits(Blank("closed"), t)
  BY <1>1 DEF Fits
<1> QED
  BY <1>2, PageStep DEF Open, Close

LEMMA RegisterInv ==
    ASSUME TypeOK, Inv, NEW t \in Tabs, NEW o \in Outcomes, Register(t, o)
    PROVE  Inv'
<1> DEFINE stored == local[DeviceOf[t]]
           p == [page[t] EXCEPT !.key = stored]
           r == [page[t] EXCEPT !.at = "fetch"]
<1>1. page[t] \in Page /\ DeviceOf[t] \in Devices /\ stored \in MaybeKey
  BY PageOf DEF TypeOK
<1>2. page[t].shared = {} \/ stored = {} \/ page[t].key = stored
  <2>1. page[t].key \in MaybeKey
    BY <1>1 DEF Page
  <2> QED
    BY <1>1, <2>1, SameKey DEF Inv, Served, Known
<1>3. CASE Owner(t) /\ stored # {}
  <2>1. p \in Page /\ p.key = stored /\ p.got = page[t].got /\ p.shared = page[t].shared
    BY <1>1 DEF Page
  <2>2. Set(t, Sharing(p)) /\ UNCHANGED <<wrapped, local, minted>>
    BY <1>3 DEF Register
  <2> HIDE DEF p
  <2>3. Fits(Sharing(p), t)
    BY <1>1, <1>2, <1>3, <2>1, <2>2, Fields DEF Fits, Inv, Known, Served
  <2> QED
    BY <2>2, <2>3, PageStep
<1>4. CASE ~(Owner(t) /\ stored # {})
  <2>1. /\ r.key = page[t].key /\ r.got = page[t].got /\ r.shared = page[t].shared
        /\ r.at = "fetch"
    BY <1>1 DEF Page
  <2>2. Set(t, r) /\ UNCHANGED <<wrapped, local, minted>>
    BY <1>4 DEF Register
  <2>3. Fits(r, t)
    BY <1>4, <2>1, <2>2 DEF Fits, Inv, Known, Served
  <2> HIDE DEF r
  <2> QED
    BY <2>2, <2>3, PageStep
<1> QED
  BY <1>3, <1>4

LEMMA FetchInv ==
    ASSUME TypeOK, Inv, NEW t \in Tabs, NEW o \in Outcomes, Fetch(t, o)
    PROVE  Inv'
<1> DEFINE found == IF o = "answered" THEN wrapped[DeviceOf[t]] ELSE {}
           q == [page[t] EXCEPT !.at = "got", !.got = found]
<1>1. page[t] \in Page /\ DeviceOf[t] \in Devices
  BY PageOf
<1>2. found \subseteq minted
  BY <1>1 DEF Inv, Known
<1>3. /\ q.key = page[t].key /\ q.got = found /\ q.shared = page[t].shared
      /\ q.at = "got" /\ q.polling = page[t].polling
  BY <1>1 DEF Page
<1>4. Set(t, q) /\ UNCHANGED <<wrapped, local, minted>> /\ page[t].at = "fetch"
  BY DEF Fetch, At
<1> HIDE DEF q
<1>5. Fits(q, t)
  BY <1>2, <1>3, <1>4 DEF Fits, Inv, Known, Served, OwnerFirst
<1> QED
  BY <1>4, <1>5, PageStep

LEMMA GotFirstInv ==
    ASSUME OneOwnerTab, TypeOK, Inv, NEW t \in Tabs, GotFirst(t)
    PROVE  Inv'
<1> DEFINE p == [page[t] EXCEPT !.key = page[t].got, !.got = {}]
<1>1. /\ page[t] \in Page /\ page[t].got \in MaybeKey /\ page[t].key \in MaybeKey
      /\ page[t].got # {} /\ page[t].got \subseteq minted /\ page[t].key \subseteq minted
  BY PageOf DEF Page, GotFirst, Inv, Known
<1>2. p \in Page /\ p.key = page[t].got /\ p.got = {} /\ p.shared = page[t].shared
  BY <1>1 DEF Page, MaybeKey
<1>3. /\ Set(t, Sharing(p)) /\ Store(page[t].got, t)
      /\ UNCHANGED <<wrapped, minted>>
  BY DEF GotFirst
<1> HIDE DEF p
<1>4. \A d \in page[t].shared : page[t].key # {} /\ page[t].key = page[t].got
  BY <1>1, SameKey DEF Inv, Served
<1>5. Fits(Sharing(p), t)
  BY <1>1, <1>2, <1>3, <1>4, Fields DEF Fits, Inv, Served
<1>6. OneKey'
  BY <1>3 DEF Inv, OneKey
<1> QED
  BY <1>1, <1>3, <1>5, <1>6, StoreStep

LEMMA MintInv ==
    ASSUME OneOwnerTab, TypeOK, Inv, NEW t \in Tabs, Mint(t)
    PROVE  Inv'
<1>1. PICK k \in Keys \ minted :
        /\ minted' = minted \cup {k}
        /\ Store({k}, t)
        /\ Set(t, Sharing([page[t] EXCEPT !.key = {k}]))
  BY DEF Mint
<1> DEFINE p == [page[t] EXCEPT !.key = {k}]
<1>2. page[t] \in Page
  BY PageOf
<1>3. minted = {}
  BY DEF Mint, At, Inv, OwnerKeeps, OwnerFirst
<1>4. p \in Page /\ p.key = {k} /\ p.got = {} /\ p.shared = page[t].shared
  BY <1>2 DEF Page, MaybeKey, Mint
<1>5. page[t].shared = {}
  BY <1>3 DEF Inv, Served, Known
<1>6. Set(t, Sharing(p)) /\ wrapped' = wrapped /\ Owner(t)
  BY <1>1 DEF Mint
<1> HIDE DEF p
<1>7. Fits(Sharing(p), t)
  BY <1>1, <1>4, <1>5, Fields DEF Fits
<1>8. OneKey'
  BY <1>1, <1>3 DEF OneKey
<1> QED
  BY <1>1, <1>6, <1>7, <1>8, StoreStep

LEMMA PollInv ==
    ASSUME TypeOK, Inv, NEW t \in Tabs, Poll(t)
    PROVE  Inv'
<1> DEFINE r == [page[t] EXCEPT !.at = "fetch"]
<1>1. page[t] \in Page /\ UNCHANGED <<wrapped, local, minted>>
  BY PageOf DEF Poll
<1>2. /\ r.key = page[t].key /\ r.got = page[t].got /\ r.shared = page[t].shared
      /\ r.at = "fetch" /\ r.polling = page[t].polling
  BY <1>1 DEF Page
<1>3. page[t].polling
  BY DEF Poll, At, Inv, Polls
<1>4. CASE Set(t, r)
  <2>1. Fits(r, t)
    BY <1>1, <1>2, <1>3 DEF Fits, Inv, Known, Served
  <2> HIDE DEF r
  <2> QED
    BY <1>1, <1>4, <2>1, PageStep
<1>5. CASE page[t].key # {} /\ Set(t, Sharing(page[t]))
  <2>1. Fits(Sharing(page[t]), t)
    BY <1>1, <1>5, Fields DEF Fits, Inv, Known, Served
  <2> QED
    BY <1>1, <1>5, <2>1, PageStep
<1> QED
  BY <1>4, <1>5 DEF Poll

LEMMA GotNoneInv ==
    ASSUME TypeOK, Inv, NEW t \in Tabs, GotNone(t)
    PROVE  Inv'
<1>1. page[t] \in Page /\ UNCHANGED <<wrapped, local, minted>>
  BY PageOf DEF GotNone
<1>2. Fits(Waiting(page[t]), t)
  BY <1>1, Fields DEF Fits, Inv, Known, Served
<1> QED
  BY <1>1, <1>2, PageStep DEF GotNone

LEMMA GotAgainInv ==
    ASSUME OneOwnerTab, TypeOK, Inv, NEW t \in Tabs, GotAgain(t)
    PROVE  Inv'
<1> DEFINE p == page[t]
           q == IF p.got \in {{}, p.key} THEN p
                ELSE [p EXCEPT !.key = p.got, !.shared = {}, !.full = FALSE]
           r == [q EXCEPT !.got = {}]
           n == IF Owner(t) /\ q.key # {} THEN Sharing(r) ELSE Waiting(q)
<1>1. /\ p \in Page /\ p.got \in MaybeKey
      /\ p.got \subseteq minted /\ p.key \subseteq minted
  BY PageOf DEF Page, Inv, Known
<1>2. q \in Page /\ q.key \in {p.key, p.got}
  BY <1>1 DEF Page
<1>3. \A d \in q.shared : q.key # {} /\ wrapped[d] = q.key
  BY <1>1 DEF Page, Inv, Served
<1>4. Set(t, n) /\ UNCHANGED <<wrapped, minted>>
  BY DEF GotAgain
<1> HIDE DEF q
<1>5. r \in Page /\ r.key = q.key /\ r.got = {} /\ r.shared = q.shared
  BY <1>2 DEF Page, MaybeKey
<1> HIDE DEF r
<1>6. Fits(n, t)
  <2>1. CASE Owner(t) /\ q.key # {}
    BY <1>1, <1>2, <1>3, <1>4, <1>5, <2>1, Fields DEF Fits
  <2>2. CASE ~(Owner(t) /\ q.key # {})
    BY <1>1, <1>2, <1>3, <1>4, <2>2, Fields DEF Fits
  <2> QED
    BY <2>1, <2>2
<1> HIDE DEF n
<1>7. CASE p.got = {}
  <2>1. local' = local
    BY <1>7 DEF GotAgain
  <2> QED
    BY <1>4, <1>6, <2>1, PageStep
<1>8. CASE p.got # {}
  <2>1. Store(p.got, t)
    BY <1>8 DEF GotAgain
  <2>2. OneKey'
    BY <1>4 DEF Inv, OneKey
  <2> QED
    BY <1>1, <1>4, <1>6, <1>8, <2>1, <2>2, StoreStep
<1> QED
  BY <1>7, <1>8

LEMMA ListInv ==
    ASSUME TypeOK, Inv, NEW t \in Tabs, NEW o \in Outcomes, List(t, o)
    PROVE  Inv'
<1>1. PICK found \in SUBSET registered : Listed(t, found)
  BY DEF List, DevicesOf
<1> DEFINE q == [page[t] EXCEPT !.turn = @ + 1, !.all = @ /\ found # {},
                                !.todo = found \ page[t].shared]
<1>2. page[t] \in Page /\ found \subseteq Devices
  BY PageOf DEF TypeOK
<1>3. page[t].turn + 1 \in 1..3
  BY <1>1, <1>2 DEF Listed, Page
<1>4. q \in Page /\ q.key = page[t].key /\ q.got = page[t].got /\ q.shared = page[t].shared
  BY <1>2, <1>3 DEF Page
<1>5. Set(t, Next1(q)) /\ UNCHANGED <<wrapped, local, minted>> /\ page[t].at = "list"
  BY <1>1 DEF Listed, At
<1> HIDE DEF q
<1>6. Fits(Next1(q), t)
  BY <1>4, <1>5, Fields DEF Fits, Inv, Known, Served, Sharers
<1> QED
  BY <1>5, <1>6, PageStep

LEMMA SharedInv ==
    ASSUME TypeOK, Inv, NEW t \in Tabs, Shared(t)
    PROVE  Inv'
<1> DEFINE q == [page[t] EXCEPT !.full = page[t].polling /\ page[t].all]
<1>1. q \in Page /\ q.key = page[t].key /\ q.shared = page[t].shared
  BY PageOf DEF Page
<1>2. Set(t, Waiting(q)) /\ UNCHANGED <<wrapped, local, minted>>
  BY DEF Shared
<1> HIDE DEF q
<1>3. Fits(Waiting(q), t)
  BY <1>1, <1>2, Fields DEF Fits, Inv, Known, Served
<1> QED
  BY <1>2, <1>3, PageStep

LEMMA ShareInv ==
    ASSUME TypeOK, Inv, NEW t \in Tabs, NEW d \in Devices, NEW o \in Outcomes, Share(t, d, o)
    PROVE  Inv'
<1> DEFINE q == [page[t] EXCEPT !.todo = @ \ {d}, !.all = @ /\ o = "answered",
                                !.shared = IF o = "answered" THEN @ \cup {d} ELSE @]
           k == page[t].key
<1>1. page[t] \in Page /\ k \in MaybeKey /\ k \subseteq minted /\ k # {}
  BY PageOf DEF Page, Share, At, Inv, Known, Sharers
<1>2. /\ q \in Page /\ q.key = k /\ q.got = page[t].got
      /\ q.shared \subseteq page[t].shared \cup {d}
      /\ d \in q.shared => o = "answered" \/ d \in page[t].shared
  BY <1>1 DEF Page
<1>3. /\ Set(t, Next1(q)) /\ UNCHANGED <<local, minted>>
      /\ wrapped' = IF o = "failed" THEN wrapped ELSE [wrapped EXCEPT ![d] = k]
  BY DEF Share
<1> HIDE DEF q
<1>4. /\ page'[t] = Next1(q)
      /\ \A s \in Tabs \ {t} : page'[s] = page[s]
  BY <1>3, Frame
<1>5. /\ \A e \in Devices : wrapped'[e] \in {wrapped[e], k}
      /\ o = "answered" => wrapped'[d] = k
      /\ \A e \in Devices \ {d} : wrapped'[e] = wrapped[e]
  BY <1>3 DEF TypeOK
<1>6. ASSUME NEW s \in Tabs, page[s].key # {} PROVE page[s].key = k
  <2>1. page[s].key \in MaybeKey /\ page[s].key \subseteq minted
    BY PageOf DEF Page, Inv, Known
  <2> QED
    BY <1>1, <1>6, <2>1, SameKey DEF Inv
<1>7. ASSUME NEW s \in Tabs, NEW e \in page[s].shared
      PROVE  page[s].key # {} /\ wrapped'[e] = page[s].key
  <2>1. page[s].key # {} /\ wrapped[e] = page[s].key /\ e \in Devices
    BY PageOf DEF Inv, Served, Page
  <2> QED
    BY <1>5, <1>6, <2>1
<1>8. Fits(Next1(q), t)
  <2>1. ASSUME NEW e \in q.shared PROVE wrapped'[e] = k
    <3>1. CASE e \in page[t].shared
      BY <3>1, <1>7
    <3>2. CASE e \notin page[t].shared
      BY <3>2, <1>2, <1>5
    <3> QED
      BY <3>1, <3>2
  <2>2. q.got \subseteq minted
    BY <1>2 DEF Inv, Known
  <2> QED
    BY <1>1, <1>2, <1>3, <2>1, <2>2, Fields DEF Fits
<1>9. OneKey'
  BY <1>3 DEF Inv, OneKey
<1>10. Known'
  BY <1>1, <1>3, <1>4, <1>5, <1>8 DEF Inv, Known, Fits
<1>11. OwnerKeeps' /\ OwnerFirst'
  BY <1>3, <1>4, <1>8 DEF Inv, OwnerKeeps, OwnerFirst, Owner, Fits
<1>12. Sharers' /\ Polls'
  BY <1>4, <1>8 DEF Inv, Sharers, Polls, Fits
<1>13. Served'
  BY <1>4, <1>7, <1>8 DEF Served, Fits
<1> QED
  BY <1>9, <1>10, <1>11, <1>12, <1>13 DEF Inv

LEMMA InvStep ==
    ASSUME OneOwnerTab, TypeOK, Inv, [Next]_vars
    PROVE  Inv'
<1>1. CASE UNCHANGED vars
  BY <1>1 DEF vars, Inv, OneKey, Known, OwnerKeeps, OwnerFirst, Sharers, Polls, Served, Owner
<1>2. ASSUME NEW t \in Tabs, Open(t) \/ Close(t) PROVE Inv'
  BY <1>2, OpenInv
<1>3. ASSUME NEW t \in Tabs, Script(t) PROVE Inv'
  BY <1>3, GotFirstInv, MintInv, GotNoneInv, PollInv, GotAgainInv, SharedInv DEF Script
<1>4. ASSUME NEW t \in Tabs, NEW o \in Outcomes, Call(t, o) PROVE Inv'
  BY <1>4, RegisterInv, ListInv, FetchInv, ShareInv DEF Call
<1> QED
  BY <1>1, <1>2, <1>3, <1>4 DEF Next

-----------------------------------------------------------------------------
LEMMA InvHolds == Spec => [](OneOwnerTab => Inv)
<1>1. Init => (OneOwnerTab => Inv)
  <2>1. /\ Blank("closed").key = {} /\ Blank("closed").got = {}
        /\ Blank("closed").at = "closed" /\ Blank("closed").shared = {}
    BY DEF Blank
  <2> QED
    BY <2>1 DEF Init, Inv, OneKey, Known, OwnerKeeps, OwnerFirst, Sharers, Polls, Served
<1>2. TypeOK /\ (OneOwnerTab => Inv) /\ [Next]_vars => (OneOwnerTab => Inv)'
  BY InvStep DEF OneOwnerTab, Owner
<1> QED
  BY <1>1, <1>2, KeyTyping, PTL DEF Spec

(* With one tab of the owner, no two pages ever hold different keys.       *)
THEOREM KeyAgreement == Spec => []KeysAgree
<1>1. TypeOK /\ (OneOwnerTab => Inv) => KeysAgree
  <2>1. SUFFICES ASSUME TypeOK, Inv, OneOwnerTab, NEW s \in Tabs, NEW t \in Tabs,
                        page[s].key # {}, page[t].key # {}
                 PROVE  page[s].key = page[t].key
    BY DEF KeysAgree
  <2>2. page[s].key \in MaybeKey /\ page[t].key \in MaybeKey
    BY <2>1, PageOf DEF Page
  <2> QED
    BY <2>1, <2>2, SameKey DEF Inv, Known
<1> QED
  BY <1>1, KeyTyping, InvHolds, PTL

(* With one tab of the owner, a device remembered as served has the key.   *)
THEOREM KeysServed == Spec => []ServedHasKey
<1>1. (OneOwnerTab => Inv) => ServedHasKey
  BY DEF ServedHasKey, Inv, Served
<1> QED
  BY <1>1, InvHolds, PTL

-----------------------------------------------------------------------------
(* The refinement of RoomKey. It needs, beyond Inv: what a page fetched is *)
(* still on the server, for no copy is ever removed; and a closed page     *)
(* holds nothing.                                                          *)
FromCopy ==
    \A t \in Tabs :
      /\ page[t].got # {} => wrapped[DeviceOf[t]] # {}
      /\ At(t, "closed") => page[t].key = {}

Kept == {d \in Devices : local[d] # {}}
Copies == {d \in Devices : wrapped[d] # {}}
OpenPages == {t \in Tabs : Opened(t)}
Held == [t \in Tabs |-> page[t].key]

(* A key that is not null is the one key there is.                         *)
LEMMA TheKey ==
    ASSUME OneKey, NEW x \in MaybeKey, x # {}, x \subseteq minted
    PROVE  x = minted
BY DEF MaybeKey, OneKey

(* How a script's step looks in the abstract state.                        *)
LEMMA HeldStep ==
    ASSUME TypeOK, NEW t \in Tabs, NEW q, Set(t, q)
    PROVE  /\ Held' = [Held EXCEPT ![t] = q.key]
           /\ q.at # "closed" => OpenPages' = OpenPages \cup {t}
           /\ q.at = "closed" => OpenPages' = OpenPages \ {t}
<1>1. page'[t] = q /\ \A s \in Tabs \ {t} : page'[s] = page[s]
  BY Frame
<1> QED
  BY <1>1 DEF Held, OpenPages, Opened, At

LEMMA FromCopyStep ==
    ASSUME TypeOK, FromCopy, NEW t \in Tabs, NEW q, Set(t, q),
           q.got # {} => wrapped[DeviceOf[t]] # {}, q.at = "closed" => q.key = {},
           \A d \in Devices : wrapped[d] # {} => wrapped'[d] # {}
    PROVE  FromCopy'
<1>1. page'[t] = q /\ \A s \in Tabs \ {t} : page'[s] = page[s]
  BY Frame
<1>2. \A s \in Tabs : DeviceOf[s] \in Devices
  BY PageOf
<1> QED
  BY <1>1, <1>2 DEF FromCopy, At

(* A script's step that neither takes nor drops a key.                     *)
LEMMA QuietStep ==
    ASSUME TypeOK, FromCopy, NEW t \in Tabs, NEW q, Set(t, q), Opened(t),
           q.at # "closed", q.key = page[t].key, q.got # {} => wrapped[DeviceOf[t]] # {},
           UNCHANGED <<wrapped, local, minted>>
    PROVE  FromCopy' /\ UNCHANGED R!vars
<1>1. FromCopy'
  BY FromCopyStep
<1>2. Held' = Held /\ OpenPages' = OpenPages
  BY HeldStep DEF Held, OpenPages, Opened
<1>3. Kept' = Kept /\ Copies' = Copies
  BY DEF Kept, Copies
<1> QED
  BY <1>1, <1>2, <1>3 DEF R!vars, Held, OpenPages, Kept, Copies

(* A script's step after which the page holds the one key there is, which  *)
(* its browser had stored or was left a copy of.                           *)
LEMMA LearnStep ==
    ASSUME TypeOK, OneKey, FromCopy, NEW t \in Tabs, NEW q, Set(t, q), Opened(t),
           q.at # "closed", q.key \in MaybeKey, q.key # {}, q.key \subseteq minted,
           q.got # {} => wrapped[DeviceOf[t]] # {}, UNCHANGED <<wrapped, minted>>,
           \/ local' = local /\ local[DeviceOf[t]] # {}
           \/ Store(q.key, t) /\ wrapped[DeviceOf[t]] # {}
    PROVE  FromCopy' /\ R!Learn(t)
<1>1. FromCopy'
  BY FromCopyStep
<1>2. q.key = minted /\ DeviceOf[t] \in Devices
  BY TheKey, PageOf
<1>3. Held' = [Held EXCEPT ![t] = minted] /\ OpenPages' = OpenPages /\ t \in OpenPages
  BY <1>2, HeldStep DEF OpenPages
<1>4. Kept' = Kept \cup {DeviceOf[t]} /\ DeviceOf[t] \in Kept \cup Copies /\ Copies' = Copies
  BY <1>2 DEF Kept, Copies, Store, TypeOK
<1>5. R!Hold(t, minted)
  BY <1>3, <1>4 DEF R!Hold, Held, OpenPages, Kept, Copies
<1> QED
  BY <1>1, <1>2, <1>4, <1>5 DEF R!Learn, Kept, Copies

(* One lemma for each action: which promise of RoomKey it carries out.     *)
LEMMA OpenKey ==
    ASSUME TypeOK, FromCopy, NEW t \in Tabs, Open(t) \/ Close(t)
    PROVE  FromCopy' /\ (R!Open(t) \/ R!Close(t))
<1>1. /\ Blank("register").key = {} /\ Blank("register").got = {}
      /\ Blank("register").at = "register"
      /\ Blank("closed").key = {} /\ Blank("closed").got = {}
      /\ Blank("closed").at = "closed"
  BY DEF Blank
<1>2. /\ UNCHANGED <<wrapped, local, minted>>
      /\ Kept' = Kept /\ Copies' = Copies
  BY DEF Open, Close, Kept, Copies
<1>3. CASE Open(t)
  <2>1. Set(t, Blank("register")) /\ At(t, "closed") /\ page[t].key = {}
    BY <1>3 DEF Open, FromCopy
  <2>2. FromCopy'
    BY <1>1, <1>2, <2>1, FromCopyStep
  <2>3. Held' = Held
    <3>1. Held' = [Held EXCEPT ![t] = {}]
      BY <1>1, <2>1, HeldStep
    <3>2. Held = [Held EXCEPT ![t] = {}]
      BY <2>1 DEF Held
    <3> QED
      BY <3>1, <3>2
  <2>4. t \notin OpenPages /\ OpenPages' = OpenPages \cup {t}
    BY <1>1, <2>1, HeldStep DEF OpenPages, Opened
  <2> QED
    BY <1>2, <2>2, <2>3, <2>4 DEF R!Open, Held, OpenPages, Kept, Copies
<1>4. CASE Close(t)
  <2>1. Set(t, Blank("closed")) /\ t \in OpenPages
    BY <1>4 DEF Close, OpenPages, Opened
  <2>2. FromCopy'
    BY <1>1, <1>2, <2>1, FromCopyStep
  <2>3. Held' = [Held EXCEPT ![t] = {}] /\ OpenPages' = OpenPages \ {t}
    BY <1>1, <2>1, HeldStep
  <2> QED
    BY <1>2, <2>1, <2>2, <2>3 DEF R!Close, Held, OpenPages, Kept, Copies
<1> QED
  BY <1>3, <1>4

LEMMA RegisterKey ==
    ASSUME TypeOK, Inv, FromCopy, NEW t \in Tabs, NEW o \in Outcomes, Register(t, o)
    PROVE  FromCopy' /\ (R!Learn(t) \/ UNCHANGED R!vars)
<1> DEFINE stored == local[DeviceOf[t]]
           p == [page[t] EXCEPT !.key = stored]
           r == [page[t] EXCEPT !.at = "fetch"]
<1>1. /\ page[t] \in Page /\ DeviceOf[t] \in Devices /\ stored \in MaybeKey
      /\ stored \subseteq minted /\ OneKey
  BY PageOf DEF TypeOK, Inv, Known
<1>2. /\ UNCHANGED <<wrapped, local, minted>> /\ Opened(t)
      /\ page[t].got # {} => wrapped[DeviceOf[t]] # {}
  BY DEF Register, At, Opened, FromCopy
<1>3. CASE Owner(t) /\ stored # {}
  <2>1. p \in Page /\ p.key = stored /\ p.got = page[t].got
    BY <1>1 DEF Page
  <2>2. Set(t, Sharing(p))
    BY <1>3 DEF Register
  <2> HIDE DEF p
  <2>3. /\ Sharing(p).at # "closed" /\ Sharing(p).key = stored
        /\ Sharing(p).got = page[t].got
    BY <2>1, Fields
  <2> QED
    BY <1>1, <1>2, <1>3, <2>2, <2>3, LearnStep
<1>4. CASE ~(Owner(t) /\ stored # {})
  <2>1. r.key = page[t].key /\ r.got = page[t].got /\ r.at # "closed"
    BY <1>1 DEF Page
  <2>2. Set(t, r)
    BY <1>4 DEF Register
  <2> HIDE DEF r
  <2> QED
    BY <1>2, <2>1, <2>2, QuietStep
<1> QED
  BY <1>3, <1>4

LEMMA FetchKey ==
    ASSUME TypeOK, FromCopy, NEW t \in Tabs, NEW o \in Outcomes, Fetch(t, o)
    PROVE  FromCopy' /\ UNCHANGED R!vars
<1> DEFINE found == IF o = "answered" THEN wrapped[DeviceOf[t]] ELSE {}
           q == [page[t] EXCEPT !.at = "got", !.got = found]
<1>1. page[t] \in Page
  BY PageOf
<1>2. q.key = page[t].key /\ q.got = found /\ q.at # "closed"
  BY <1>1 DEF Page
<1>3. Set(t, q) /\ UNCHANGED <<wrapped, local, minted>> /\ Opened(t)
  BY DEF Fetch, At, Opened
<1> HIDE DEF q
<1> QED
  BY <1>2, <1>3, QuietStep

LEMMA GotFirstKey ==
    ASSUME TypeOK, Inv, FromCopy, NEW t \in Tabs, GotFirst(t)
    PROVE  FromCopy' /\ R!Learn(t)
<1> DEFINE got == page[t].got
           p == [page[t] EXCEPT !.key = page[t].got, !.got = {}]
<1>1. /\ page[t] \in Page /\ got \in MaybeKey /\ got # {} /\ got \subseteq minted
      /\ wrapped[DeviceOf[t]] # {} /\ OneKey
  BY PageOf DEF Page, GotFirst, Inv, Known, FromCopy
<1>2. p \in Page /\ p.key = got /\ p.got = {}
  BY <1>1 DEF Page, MaybeKey
<1>3. /\ Set(t, Sharing(p)) /\ Store(got, t) /\ Opened(t)
      /\ UNCHANGED <<wrapped, minted>>
  BY DEF GotFirst, At, Opened
<1> HIDE DEF p
<1>4. Sharing(p).at # "closed" /\ Sharing(p).key = got /\ Sharing(p).got = {}
  BY <1>2, Fields
<1> QED
  BY <1>1, <1>3, <1>4, LearnStep

LEMMA MintKey ==
    ASSUME TypeOK, Inv, FromCopy, NEW t \in Tabs, Mint(t)
    PROVE  FromCopy' /\ R!Make(t)
<1>1. PICK k \in Keys \ minted :
        /\ minted' = minted \cup {k}
        /\ Store({k}, t)
        /\ Set(t, Sharing([page[t] EXCEPT !.key = {k}]))
  BY DEF Mint
<1> DEFINE p == [page[t] EXCEPT !.key = {k}]
<1>2. page[t] \in Page /\ DeviceOf[t] \in Devices
  BY PageOf
<1>3. minted = {} /\ Opened(t) /\ wrapped' = wrapped
  BY DEF Mint, At, Inv, OwnerKeeps, OwnerFirst, Opened
<1>4. p \in Page /\ p.key = {k} /\ p.got = {}
  BY <1>2 DEF Page, MaybeKey, Mint
<1>5. Set(t, Sharing(p))
  BY <1>1
<1> HIDE DEF p
<1>6. Sharing(p).at # "closed" /\ Sharing(p).key = {k} /\ Sharing(p).got = {}
  BY <1>4, Fields
<1>7. FromCopy'
  BY <1>3, <1>5, <1>6, FromCopyStep
<1>8. Held' = [Held EXCEPT ![t] = {k}] /\ OpenPages' = OpenPages /\ t \in OpenPages
  BY <1>3, <1>5, <1>6, HeldStep DEF OpenPages
<1>9. Kept' = Kept \cup {DeviceOf[t]} /\ Copies' = Copies
  BY <1>1, <1>2, <1>3 DEF Kept, Copies, Store, TypeOK
<1>10. R!Hold(t, {k})
  BY <1>8, <1>9 DEF R!Hold, Held, OpenPages, Kept, Copies
<1>11. minted' = {k} /\ k \in Keys
  BY <1>1, <1>3
<1> QED
  BY <1>3, <1>7, <1>10, <1>11 DEF R!Make

LEMMA PollKey ==
    ASSUME TypeOK, FromCopy, NEW t \in Tabs, Poll(t) \/ GotNone(t) \/ Shared(t)
    PROVE  FromCopy' /\ UNCHANGED R!vars
<1> DEFINE r == [page[t] EXCEPT !.at = "fetch"]
           q == [page[t] EXCEPT !.full = page[t].polling /\ page[t].all]
<1>1. /\ page[t] \in Page /\ UNCHANGED <<wrapped, local, minted>> /\ Opened(t)
      /\ page[t].got # {} => wrapped[DeviceOf[t]] # {}
  BY PageOf DEF Poll, GotNone, Shared, At, Opened, FromCopy
<1>2. /\ r.key = page[t].key /\ r.got = page[t].got /\ r.at # "closed"
      /\ q \in Page /\ q.key = page[t].key
  BY <1>1 DEF Page
<1>3. \/ Set(t, r) \/ Set(t, Sharing(page[t])) \/ Set(t, Waiting(page[t]))
      \/ Set(t, Waiting(q))
  BY DEF Poll, GotNone, Shared
<1> HIDE DEF r, q
<1>4. /\ Sharing(page[t]).at # "closed" /\ Sharing(page[t]).key = page[t].key
      /\ Sharing(page[t]).got = page[t].got
      /\ Waiting(page[t]).at # "closed" /\ Waiting(page[t]).key = page[t].key
      /\ Waiting(page[t]).got = {}
      /\ Waiting(q).at # "closed" /\ Waiting(q).key = page[t].key /\ Waiting(q).got = {}
  BY <1>1, <1>2, Fields
<1> QED
  BY <1>1, <1>2, <1>3, <1>4, QuietStep

LEMMA GotAgainKey ==
    ASSUME TypeOK, Inv, FromCopy, NEW t \in Tabs, GotAgain(t)
    PROVE  FromCopy' /\ (R!Learn(t) \/ UNCHANGED R!vars)
<1> DEFINE p == page[t]
           q == IF p.got \in {{}, p.key} THEN p
                ELSE [p EXCEPT !.key = p.got, !.shared = {}, !.full = FALSE]
           r == [q EXCEPT !.got = {}]
           n == IF Owner(t) /\ q.key # {} THEN Sharing(r) ELSE Waiting(q)
<1>1. /\ p \in Page /\ p.got \in MaybeKey /\ p.got \subseteq minted
      /\ p.got # {} => wrapped[DeviceOf[t]] # {}
      /\ OneKey
  BY PageOf DEF Page, Inv, Known, FromCopy
<1>2. /\ q \in Page
      /\ p.got = {} => q.key = p.key
      /\ p.got # {} => q.key = p.got
  BY <1>1 DEF Page
<1>3. Set(t, n) /\ UNCHANGED <<wrapped, minted>> /\ Opened(t)
  BY DEF GotAgain, At, Opened
<1> HIDE DEF q
<1>4. r \in Page /\ r.key = q.key /\ r.got = {}
  BY <1>2 DEF Page, MaybeKey
<1> HIDE DEF r
<1>5. n.at # "closed" /\ n.key = q.key /\ n.got = {}
  BY <1>2, <1>4, Fields
<1> HIDE DEF n
<1>6. CASE p.got = {}
  <2>1. local' = local
    BY <1>6 DEF GotAgain
  <2> QED
    BY <1>2, <1>3, <1>5, <1>6, <2>1, QuietStep
<1>7. CASE p.got # {}
  <2>1. Store(p.got, t)
    BY <1>7 DEF GotAgain
  <2> QED
    BY <1>1, <1>2, <1>3, <1>5, <1>7, <2>1, LearnStep
<1> QED
  BY <1>6, <1>7

LEMMA ListKey ==
    ASSUME TypeOK, FromCopy, NEW t \in Tabs, NEW o \in Outcomes, List(t, o)
    PROVE  FromCopy' /\ UNCHANGED R!vars
<1>1. PICK found \in SUBSET registered : Listed(t, found)
  BY DEF List, DevicesOf
<1> DEFINE q == [page[t] EXCEPT !.turn = @ + 1, !.all = @ /\ found # {},
                                !.todo = found \ page[t].shared]
<1>2. page[t] \in Page /\ found \subseteq Devices
  BY PageOf DEF TypeOK
<1>3. page[t].turn + 1 \in 1..3
  BY <1>1, <1>2 DEF Listed, Page
<1>4. q \in Page /\ q.key = page[t].key /\ q.got = page[t].got
  BY <1>2, <1>3 DEF Page
<1>5. /\ Set(t, Next1(q)) /\ UNCHANGED <<wrapped, local, minted>> /\ Opened(t)
      /\ page[t].got # {} => wrapped[DeviceOf[t]] # {}
  BY <1>1 DEF Listed, At, Opened, FromCopy
<1> HIDE DEF q
<1>6. Next1(q).at # "closed" /\ Next1(q).key = page[t].key /\ Next1(q).got = page[t].got
  BY <1>4, Fields
<1> QED
  BY <1>5, <1>6, QuietStep

LEMMA ShareKey ==
    ASSUME TypeOK, Inv, FromCopy, NEW t \in Tabs, NEW d \in Devices, NEW o \in Outcomes,
           Share(t, d, o)
    PROVE  FromCopy' /\ (R!Copy(t, d) \/ UNCHANGED R!vars)
<1> DEFINE q == [page[t] EXCEPT !.todo = @ \ {d}, !.all = @ /\ o = "answered",
                                !.shared = IF o = "answered" THEN @ \cup {d} ELSE @]
<1>1. /\ page[t] \in Page /\ page[t].key # {} /\ Opened(t)
      /\ page[t].got # {} => wrapped[DeviceOf[t]] # {}
  BY PageOf DEF Share, At, Inv, Sharers, Opened, FromCopy
<1>2. q \in Page /\ q.key = page[t].key /\ q.got = page[t].got
  BY <1>1 DEF Page
<1>3. /\ Set(t, Next1(q)) /\ UNCHANGED <<local, minted>>
      /\ wrapped' = IF o = "failed" THEN wrapped ELSE [wrapped EXCEPT ![d] = page[t].key]
  BY DEF Share
<1> HIDE DEF q
<1>4. Next1(q).at # "closed" /\ Next1(q).key = page[t].key /\ Next1(q).got = page[t].got
  BY <1>2, Fields
<1>5. CASE o = "failed"
  BY <1>1, <1>3, <1>4, <1>5, QuietStep
<1>6. CASE o # "failed"
  <2>1. wrapped' = [wrapped EXCEPT ![d] = page[t].key]
    BY <1>3, <1>6
  <2>2. Copies' = Copies \cup {d} /\ Kept' = Kept
    BY <1>1, <1>3, <2>1 DEF Copies, Kept, TypeOK
  <2>3. FromCopy'
    BY <1>1, <1>3, <1>4, <2>1, FromCopyStep DEF TypeOK
  <2>4. Held' = Held /\ OpenPages' = OpenPages /\ Held[t] # {}
    <3>1. Held' = [Held EXCEPT ![t] = page[t].key] /\ OpenPages' = OpenPages \cup {t}
      BY <1>3, <1>4, HeldStep
    <3>2. Held = [Held EXCEPT ![t] = page[t].key] /\ Held[t] # {}
      BY <1>1 DEF Held
    <3>3. t \in OpenPages
      BY <1>1 DEF OpenPages
    <3> QED
      BY <3>1, <3>2, <3>3
  <2> QED
    BY <1>3, <2>2, <2>3, <2>4 DEF R!Copy, Held, OpenPages, Kept, Copies
<1> QED
  BY <1>5, <1>6

LEMMA StepRoomKey ==
    ASSUME TypeOK, Inv, FromCopy, [Next]_vars
    PROVE  FromCopy' /\ [R!Next]_R!vars
<1>1. CASE UNCHANGED vars
  BY <1>1 DEF vars, FromCopy, At, Opened, R!vars
<1>2. ASSUME NEW t \in Tabs, Open(t) \/ Close(t) PROVE FromCopy' /\ R!Next
  BY <1>2, OpenKey DEF R!Next
<1>3. ASSUME NEW t \in Tabs, Script(t) PROVE FromCopy' /\ [R!Next]_R!vars
  BY <1>3, GotFirstKey, MintKey, PollKey, GotAgainKey DEF Script, R!Next
<1>4. ASSUME NEW t \in Tabs, NEW o \in Outcomes, Call(t, o)
      PROVE  FromCopy' /\ [R!Next]_R!vars
  BY <1>4, RegisterKey, FetchKey, ListKey, ShareKey DEF Call, R!Next
<1> QED
  BY <1>1, <1>2, <1>3, <1>4 DEF Next

(* With one tab of the owner, what the tabs and the server do is one key,  *)
(* made once and handed on.                                                *)
THEOREM RoomKeyImplemented == OneOwnerTab => (Spec => ImplementsRoomKey)
<1>1. Init => R!Init /\ FromCopy
  <2>1. Blank("closed").key = {} /\ Blank("closed").got = {} /\ Blank("closed").at = "closed"
    BY DEF Blank
  <2> QED
    BY <2>1 DEF Init, R!Init, FromCopy, Opened, At
<1>2. /\ TypeOK /\ OneOwnerTab /\ (OneOwnerTab => Inv) /\ FromCopy /\ [Next]_vars
      => FromCopy' /\ [R!Next]_R!vars
  BY StepRoomKey
<1>3. OneOwnerTab => OneOwnerTab'
  BY DEF OneOwnerTab, Owner
<1> QED
  BY <1>1, <1>2, <1>3, KeyTyping, InvHolds, PTL DEF Spec, ImplementsRoomKey, R!Spec

=============================================================================
