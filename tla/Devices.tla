------------------------------- MODULE Devices ------------------------------
(***************************************************************************)
(* The devices a user registers for encryption, and the copies of a room   *)
(* key stored for them: the statements of register_device, delete_device   *)
(* and store_room_key_handler, none of which run in a transaction, so that *)
(* other requests, a lost caller or the deletion of the user may come      *)
(* between any two of them.                                                *)
(***************************************************************************)
EXTENDS Integers, FiniteSets

CONSTANTS Users, Ids,  \* users and the device ids their browsers draw
          Handlers,    \* requests in progress at one time
          Max          \* MAX_DEVICES_PER_USER

ASSUME LimitAssumption == Max \in Nat \ {0} /\ IsFiniteSet(Handlers)

VARIABLES
    users,    \* rows of users
    devices,  \* user -> the device ids in his rows of user_devices
    keys,     \* the <<user, device>> rows of chat_room_device_keys for a room
    req       \* handler -> the statement it comes to, its user and its device

vars == <<users, devices, keys, req>>

Steps == {"idle", "count", "insert", "forget", "store"}
Request == [at : Steps, who : SUBSET (Users \X Ids)]
Idle == [at |-> "idle", who |-> {}]

(* A copy of a key is always one for a registered device.                  *)
TypeOK ==
    /\ users \subseteq Users
    /\ devices \in [Users -> SUBSET Ids]
    /\ keys \subseteq {p \in Users \X Ids : p[2] \in devices[p[1]]}
    /\ req \in [Handlers -> Request]

Init ==
    /\ users = Users
    /\ devices = [u \in Users |-> {}]
    /\ keys = {}
    /\ req = [h \in Handlers |-> Idle]

-----------------------------------------------------------------------------
At(h, step) == req[h].at = step
Go(h, step, u, d) == req' = [req EXCEPT ![h] = [at |-> step, who |-> {<<u, d>>}]]
Finish(h) == req' = [req EXCEPT ![h] = Idle]

(* register_device: a known device is not counted.                         *)
Find(h, u, d) ==
    /\ At(h, "idle")
    /\ Go(h, IF d \in devices[u] THEN "insert" ELSE "count", u, d)
    /\ UNCHANGED <<users, devices, keys>>

(* (CountPast stands for the definition's mutant in PROJECT.json.)         *)
CountPast(h) ==
    /\ At(h, "count")
    /\ \E p \in req[h].who :
         IF Cardinality(devices[p[1]]) > Max THEN Finish(h) ELSE Go(h, "insert", p[1], p[2])
    /\ UNCHANGED <<users, devices, keys>>
Count(h) ==
    /\ At(h, "count")
    /\ \E p \in req[h].who :
         IF Cardinality(devices[p[1]]) >= Max THEN Finish(h) ELSE Go(h, "insert", p[1], p[2])
    /\ UNCHANGED <<users, devices, keys>>

(* The upsert needs the user (foreign key).                                *)
Insert(h) ==
    /\ At(h, "insert")
    /\ \E p \in req[h].who :
         devices' = IF p[1] \in users THEN [devices EXCEPT ![p[1]] = @ \cup {p[2]}] ELSE devices
    /\ Finish(h)
    /\ UNCHANGED <<users, keys>>

-----------------------------------------------------------------------------
(* delete_device: first the copies, then the device, with any copy that    *)
(* was stored in between (ON DELETE CASCADE).                              *)
DeleteKeys(h, u, d) ==
    /\ At(h, "idle")
    /\ keys' = keys \ {<<u, d>>}
    /\ Go(h, "forget", u, d)
    /\ UNCHANGED <<users, devices>>

DeleteAlone(h) ==
    /\ At(h, "forget")
    /\ \E p \in req[h].who : devices' = [devices EXCEPT ![p[1]] = @ \ {p[2]}]
    /\ Finish(h)
    /\ UNCHANGED <<users, keys>>
DeleteDevice(h) ==
    /\ At(h, "forget")
    /\ \E p \in req[h].who : /\ devices' = [devices EXCEPT ![p[1]] = @ \ {p[2]}]
                             /\ keys' = keys \ {p}
    /\ Finish(h)
    /\ UNCHANGED users

(* store_room_key_handler: device_belongs_to_user, then the upsert, which  *)
(* needs the device (foreign key).                                         *)
Belongs(h, u, d) ==
    /\ At(h, "idle")
    /\ d \in devices[u]
    /\ Go(h, "store", u, d)
    /\ UNCHANGED <<users, devices, keys>>

Store(h) ==
    /\ At(h, "store")
    /\ \E p \in req[h].who :
         keys' = IF p[2] \in devices[p[1]] THEN keys \cup {p} ELSE keys
    /\ Finish(h)
    /\ UNCHANGED <<users, devices>>

-----------------------------------------------------------------------------
(* The caller disconnects, or a statement fails.                           *)
Drop(h) ==
    /\ ~At(h, "idle")
    /\ Finish(h)
    /\ UNCHANGED <<users, devices, keys>>

DeleteUser(u) ==
    /\ u \in users
    /\ users' = users \ {u}
    /\ devices' = [devices EXCEPT ![u] = {}]
    /\ keys' = {p \in keys : p[1] # u}
    /\ UNCHANGED req

Restart ==
    /\ req' = [h \in Handlers |-> Idle]
    /\ UNCHANGED <<users, devices, keys>>

Handler(h) ==
    \/ \E u \in Users, d \in Ids : Find(h, u, d) \/ DeleteKeys(h, u, d) \/ Belongs(h, u, d)
    \/ Count(h) \/ Insert(h) \/ DeleteDevice(h) \/ Store(h) \/ Drop(h)
Next == (\E h \in Handlers : Handler(h)) \/ (\E u \in Users : DeleteUser(u)) \/ Restart

Spec == Init /\ [][Next]_vars

-----------------------------------------------------------------------------
(* Count and insert are two statements, and a device found by the first    *)
(* may be deleted, and its place taken, before it is inserted again: the   *)
(* limit is soft. It is never exceeded by more than the requests that were *)
(* in progress, however often this is repeated.                            *)
LimitBounded ==
    \A u \in Users : Cardinality(devices[u]) <= Max - 1 + Cardinality(Handlers)
=============================================================================
