------------------------------ MODULE RoomKey -------------------------------
(***************************************************************************)
(* What the exchange of the room key promises, without requests, polls or  *)
(* scripts: one key is made, once. A page comes to hold it only from its   *)
(* browser, which stored it, or from the copy that somebody who held it    *)
(* left on the server for that browser; and it holds it until it closes.   *)
(***************************************************************************)
CONSTANTS Tabs, Devices, Keys,
          DeviceOf     \* tab -> its browser

VARIABLES
    key,     \* the room key, once made: a set of at most one
    kept,    \* the browsers that stored it
    copied,  \* the browsers with a copy on the server
    open,    \* the open pages
    held     \* page -> the key it uses

Init ==
    /\ key = {} /\ kept = {} /\ copied = {} /\ open = {}
    /\ held = [t \in Tabs |-> {}]

Open(t) ==
    /\ t \notin open
    /\ open' = open \cup {t}
    /\ UNCHANGED <<key, kept, copied, held>>

Close(t) ==
    /\ t \in open
    /\ open' = open \ {t}
    /\ held' = [held EXCEPT ![t] = {}]
    /\ UNCHANGED <<key, kept, copied>>

Hold(t, k) ==
    /\ t \in open
    /\ kept' = kept \cup {DeviceOf[t]}
    /\ held' = [held EXCEPT ![t] = k]
    /\ UNCHANGED <<copied, open>>

Make(t) ==
    /\ key = {}
    /\ \E k \in Keys : key' = {k} /\ Hold(t, {k})

Learn(t) ==
    /\ key # {} /\ DeviceOf[t] \in kept \cup copied
    /\ Hold(t, key)
    /\ UNCHANGED key

Copy(t, d) ==
    /\ held[t] # {}
    /\ copied' = copied \cup {d}
    /\ UNCHANGED <<key, kept, open, held>>

Next == \E t \in Tabs :
    \/ Open(t) \/ Close(t) \/ Make(t) \/ Learn(t)
    \/ \E d \in Devices : Copy(t, d)

vars == <<key, kept, copied, open, held>>
Spec == Init /\ [][Next]_vars
=============================================================================
