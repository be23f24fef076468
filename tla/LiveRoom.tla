------------------------------ MODULE LiveRoom ------------------------------
(***************************************************************************)
(* The page of a chat room, live: Messages composed with the broadcast     *)
(* channel, the sockets that forward its events and the browser tabs that  *)
(* show them. A tab asks for the page, gets a history, opens its socket    *)
(* and, after the script has set up its keys, listens to it. The slot of a *)
(* tab works for its page request first and for its socket then; a slot of *)
(* Sockets alone is the socket of some other page, which may send.         *)
(***************************************************************************)
EXTENDS Messages, Sequences

CONSTANTS Capacity,   \* events the channel keeps
          MaxEvents   \* bound of the model: events that are not messages

ASSUME LiveAssumption ==
    /\ Requests \subseteq Sockets
    /\ Capacity \in Nat \ {0} /\ MaxEvents \in Nat

VARIABLES
    log,   \* the events sent to the channel, which keeps the last of them
    tab    \* tab -> its page and the position of its socket in the log

live == <<log, tab>>
Tabs == Requests

(* A message with its row, a user typing, or a change of a user's rooms.   *)
Event == [kind : {"message"}, msg : Message]
         \cup [kind : {"typing"}, room : Rooms]
         \cup [kind : {"room_change"}, target : Users]
Closed == [is |-> "closed", room |-> {}, old |-> {}, since |-> 0, new |-> << >>, pos |-> 0]
Tab == [is : {"closed", "asked", "shown", "deaf", "live"},
        room : SUBSET Rooms,
        old : SUBSET Message,  \* the history the page came with
        since : Nat,           \* where the socket subscribed
        new : Seq(Nat),        \* what it added since, by position in the log
        pos : Nat]             \* what the socket has received

LiveTypeOK ==
    /\ TypeOK
    /\ log \in Seq(Event)
    /\ tab \in [Tabs -> Tab]
    /\ \A t \in Tabs : tab[t].since <= tab[t].pos /\ tab[t].pos <= Len(log)

LiveInit ==
    /\ Init
    /\ log = << >>
    /\ tab = [t \in Tabs |-> Closed]

-----------------------------------------------------------------------------
Is(t, stage) == tab[t].is = stage
Publish(e) == log' = Append(log, e)
Extras == Cardinality({i \in DOMAIN log : log[i].kind # "message"})

(* The page is asked for, rendered with the history the request has read   *)
(* (what it reads afterwards is no message), and left at any time. A       *)
(* request in progress is dropped then, the socket's task is not.          *)
Ask(t, r) ==
    /\ Is(t, "closed")
    /\ View(t, r)
    /\ tab' = [tab EXCEPT ![t].is = "asked", ![t].room = {r}]
    /\ UNCHANGED log

Render(t) ==
    /\ Is(t, "asked") /\ At(t, "counts")
    /\ tab' = [tab EXCEPT ![t].is = "shown", ![t].old = UNION req[t].page]
    /\ Finish(t)
    /\ UNCHANGED <<tables, caches, log>>

LeaveAndStop(t) ==
    /\ ~Is(t, "closed")
    /\ tab' = [tab EXCEPT ![t] = Closed]
    /\ Finish(t)
    /\ UNCHANGED <<tables, caches, log>>
Leave(t) ==
    /\ ~Is(t, "closed")
    /\ tab' = [tab EXCEPT ![t] = Closed]
    /\ IF Is(t, "asked") THEN Finish(t) ELSE UNCHANGED req
    /\ UNCHANGED <<tables, caches, log>>

(* handle_socket subscribes: it receives what is sent from now on.         *)
ConnectReplaying(t) ==
    /\ Is(t, "shown")
    /\ tab' = [tab EXCEPT ![t].is = "deaf",
                          ![t].since = IF Len(log) > Capacity THEN Len(log) - Capacity ELSE 0,
                          ![t].pos = IF Len(log) > Capacity THEN Len(log) - Capacity ELSE 0]
    /\ UNCHANGED <<vars, log>>
Connect(t) ==
    /\ Is(t, "shown")
    /\ tab' = [tab EXCEPT ![t].is = "deaf", ![t].since = Len(log), ![t].pos = Len(log)]
    /\ UNCHANGED <<vars, log>>

(* The script attaches its listeners, once its keys are set up.            *)
Listen(t) ==
    /\ Is(t, "deaf")
    /\ tab' = [tab EXCEPT ![t].is = "live"]
    /\ UNCHANGED <<vars, log>>

-----------------------------------------------------------------------------
Lagging(t) == tab[t].pos + Capacity < Len(log)
Shown(t, e) == e.kind = "message" /\ e.msg.room \in tab[t].room
Reloads(t, e) == e.kind = "room_change" /\ e.target = Caller[t]

(* The socket's loop receives the next event while it handles no message   *)
(* of its own, and forwards it if it concerns its room or its user. A page *)
(* that does not listen yet loses it; one that does shows a message and    *)
(* reloads for a room change.                                              *)
ReceiveAgain(t) ==
    /\ tab[t].is \in {"deaf", "live"}
    /\ At(t, "idle")
    /\ tab[t].pos < Len(log) /\ ~Lagging(t)
    /\ LET next == tab[t].pos + 1 IN
       tab' = [tab EXCEPT ![t] =
                 IF Is(t, "live") /\ Reloads(t, log[next]) THEN Closed
                 ELSE IF Is(t, "live") /\ Shown(t, log[next])
                      THEN [tab[t] EXCEPT !.new = Append(tab[t].new, next)]
                      ELSE [tab[t] EXCEPT !.pos = next]]
    /\ UNCHANGED <<vars, log>>
Receive(t) ==
    /\ tab[t].is \in {"deaf", "live"}
    /\ At(t, "idle")
    /\ tab[t].pos < Len(log) /\ ~Lagging(t)
    /\ LET next == tab[t].pos + 1 IN
       tab' = [tab EXCEPT ![t] =
                 IF Is(t, "live") /\ Reloads(t, log[next]) THEN Closed
                 ELSE IF Is(t, "live") /\ Shown(t, log[next])
                      THEN [tab[t] EXCEPT !.pos = next, !.new = Append(tab[t].new, next)]
                      ELSE [tab[t] EXCEPT !.pos = next]]
    /\ UNCHANGED <<vars, log>>

(* RecvError::Lagged is ignored: the loop goes on with the oldest event    *)
(* the channel still has.                                                  *)
LagBreaks(t) == FALSE /\ UNCHANGED <<vars, live>>
LagPastOldest(t) ==
    /\ tab[t].is \in {"deaf", "live"}
    /\ At(t, "idle")
    /\ Lagging(t)
    /\ tab' = [tab EXCEPT ![t].pos = Len(log) - Capacity + 1]
    /\ UNCHANGED <<vars, log>>
LagToTheEnd(t) ==
    /\ tab[t].is \in {"deaf", "live"}
    /\ At(t, "idle")
    /\ Lagging(t)
    /\ tab' = [tab EXCEPT ![t].pos = Len(log) + 1]
    /\ UNCHANGED <<vars, log>>
Lag(t) ==
    /\ tab[t].is \in {"deaf", "live"}
    /\ At(t, "idle")
    /\ Lagging(t)
    /\ tab' = [tab EXCEPT ![t].pos = Len(log) - Capacity]
    /\ UNCHANGED <<vars, log>>

-----------------------------------------------------------------------------
(* The user sends: handle_socket awaits persist_message in its loop.       *)
Send(t) ==
    /\ Is(t, "live")
    /\ \E r \in tab[t].room : Post(t, r, TRUE)
    /\ UNCHANGED live

SendElsewhere(s, r) ==
    /\ s \notin Tabs
    /\ Post(s, r, TRUE)
    /\ UNCHANGED live

(* Typing is forwarded without being stored.                               *)
Typing(t) ==
    /\ Is(t, "live") /\ At(t, "idle")
    /\ Extras < MaxEvents
    /\ \E r \in tab[t].room : Publish([kind |-> "typing", room |-> r])
    /\ UNCHANGED <<vars, tab>>

(* create_chat_room and accept_invite store a notification by way of HTTP; *)
(* accept_invite and invite_to_room tell the user whose rooms changed.     *)
Notify(t, r) ==
    /\ Is(t, "closed")
    /\ Post(t, r, FALSE)
    /\ UNCHANGED live

RoomChange(u) ==
    /\ Extras < MaxEvents
    /\ Publish([kind |-> "room_change", target |-> u])
    /\ UNCHANGED <<vars, tab>>

Broadcast(t) ==
    /\ Announce(t)
    /\ \E m \in req[t].msg : Publish([kind |-> "message", msg |-> m])
    /\ UNCHANGED tab

(* A restart ends the sockets, and no page opens another.                  *)
Reboot ==
    /\ Restart
    /\ tab' = [t \in Tabs |-> Closed]
    /\ UNCHANGED log

Store(h) == (Insert(h) \/ Stamp(h)) /\ UNCHANGED live
Load(t) ==
    /\ Mark(t) \/ History(t) \/ (Is(t, "closed") /\ Drop(t))
    /\ UNCHANGED live
LiveNext ==
    \/ \E h \in Slots : Store(h) \/ Broadcast(h) \/ \E r \in Rooms : SendElsewhere(h, r)
    \/ \E t \in Tabs :
         \/ Load(t) \/ Render(t) \/ Leave(t) \/ Connect(t) \/ Listen(t)
         \/ Receive(t) \/ Lag(t) \/ Send(t) \/ Typing(t)
         \/ \E r \in Rooms : Ask(t, r) \/ Notify(t, r)
    \/ \E u \in Users : RoomChange(u) \/ (DeleteUser(u) /\ UNCHANGED live)
    \/ \E r \in Rooms : ExpireHistory(r) /\ UNCHANGED live
    \/ Reboot

LiveSpec == LiveInit /\ [][LiveNext]_<<vars, live>>

(* The database answers a socket's task. tokio::select! chooses at random  *)
(* among the branches that are ready, so that a page that keeps sending    *)
(* cannot keep its socket from receiving.                                  *)
FairLiveSpec ==
    /\ LiveSpec
    /\ \A t \in Tabs :
         /\ SF_<<vars, live>>(Receive(t)) /\ SF_<<vars, live>>(Lag(t))
         /\ WF_<<vars, live>>(Store(t)) /\ WF_<<vars, live>>(Broadcast(t))

-----------------------------------------------------------------------------
(* A user's messages, sent through one socket, stand on every page in the  *)
(* order in which it received them, across history and news, although      *)
(* insertion and publication are separate steps and the history comes from *)
(* a cache.                                                                *)
OneSlotEach == \A g, h \in Slots : Caller[g] = Caller[h] => g = h
SenderOrder ==
    OneSlotEach => \A t \in Tabs :
      LET news == tab[t].new IN
      \A j \in DOMAIN news :
        /\ \A m \in tab[t].old : m.by = log[news[j]].msg.by => m.id <= log[news[j]].msg.id
        /\ \A i \in DOMAIN news : i < j /\ log[news[i]].msg.by = log[news[j]].msg.by
                                    => log[news[i]].msg.id < log[news[j]].msg.id

(* A page that listens gets every message told to its room from then on,   *)
(* unless it lags so far behind that the channel has dropped it.           *)
Waiting(t, i) ==
    /\ Is(t, "live") /\ tab[t].pos < i
    /\ i <= Len(log) /\ Shown(t, log[i])
Dropped(i) == i + Capacity <= Len(log)
On(t, i) == \E j \in DOMAIN tab[t].new : tab[t].new[j] = i
HeardOrLagged ==
    \A t \in Tabs : \A i \in 1..(MaxEvents + MaxId) :
      Waiting(t, i) ~> \/ ~Is(t, "live") \/ Dropped(i)
                       \/ On(t, i)

(* The safety half of it: a listening socket goes past such a message only *)
(* by putting it on the page, or when the channel has dropped it.          *)
SkipsOnlyDropped ==
    [][\A t \in Tabs : \A i \in DOMAIN log :
         Waiting(t, i) /\ Is(t, "live")' /\ i <= tab'[t].pos => On(t, i)' \/ Dropped(i)
      ]_<<vars, live>>

(* What the pages and sockets of a room do to the server is what Messages  *)
(* allows its requests and socket tasks: all it keeps, it keeps here.      *)
ImplementsMessages == Spec

(* Requests, caches, channel and sockets implement the feed.               *)
Told == [i \in DOMAIN log |-> IF log[i].kind = "message"
                              THEN <<log[i].msg.room, log[i].msg.id>> ELSE << >>]
PageOf(p) == [room |-> IF p.is \in {"closed", "asked"} THEN {} ELSE p.room,
              old |-> {m.id : m \in p.old},
              since |-> p.since,
              new |-> p.new]
Pages == [t \in Tabs |-> PageOf(tab[t])]
F == INSTANCE Feed WITH Readers <- Tabs, issued <- 1..last, told <- Told, page <- Pages
ImplementsFeed == F!Spec

(* "broadcasts messages to another user in real time": once everything     *)
(* sent has been received, a page that is live shows every message its     *)
(* room was told and that is still stored. The code does not keep this.    *)
AtRest == /\ \A h \in Slots : At(h, "idle")
          /\ \A t \in Tabs : Is(t, "live") => tab[t].pos = Len(log)
OnPage(t) == tab[t].old \cup {log[tab[t].new[j]].msg : j \in DOMAIN tab[t].new}
AllOnPage ==
    AtRest => \A t \in Tabs : \A i \in DOMAIN log :
                Is(t, "live") /\ Shown(t, log[i]) /\ log[i].msg \in rows
                  => log[i].msg \in OnPage(t)
=============================================================================
