------------------------------- MODULE Accounts -------------------------------
(***************************************************************************)
(* User accounts: the rows of users, the four caches CachedUserRepository  *)
(* keeps in front of them, and the requests that look users up, sign up,   *)
(* change an account and delete it. Every statement of a request is an     *)
(* action of its own; the repository forgets entries before a statement,   *)
(* after it, or both, while other requests may be filling them again.      *)
(***************************************************************************)
EXTENDS Naturals

CONSTANTS Emails,
          People,    \* a person brings the password, and the name, of his account
          Requests,  \* slots of requests: what may be in progress at once
          May,       \* slot -> the kinds of request it may work on
          Looked,    \* the keys that are looked up for their own sake
          MaxId      \* bound of the model: ids of rows (above it INSERT fails)

ASSUME MaxIdAssumption == MaxId \in Nat

Changes == {"create", "update", "delete"}
Kinds == {"read"} \cup Changes
ASSUME MayAssumption == May \in [Requests -> SUBSET Kinds]

VARIABLES
    rows,   \* rows of users
    cache,  \* key -> {}, or the one answer cached for it: a set of rows
    req,    \* slot -> the request it works on
    calm    \* history: no change of an account overlapped another request,
            \* none was cut short after its statement, since a start

vars == <<rows, cache, req, calm>>

Ids == 1..MaxId
User == [id : Ids, email : Emails, by : People]

(* The caches user_by_id, user_by_email, user_with_password_by_email and   *)
(* all_users as one, and the entries in which a user occurs.               *)
ById(i) == <<"user_by_id", i>>
ByEmail(e) == <<"user_by_email", e>>
WithPassword(e) == <<"user_with_password_by_email", e>>
All == <<"all_users", "all">>
Keys == {ById(i) : i \in Ids} \cup {ByEmail(e) : e \in Emails}
        \cup {WithPassword(e) : e \in Emails} \cup {All}
ASSUME LookedAssumption == Looked \subseteq Keys
KeysOf(u) == {ById(u.id), ByEmail(u.email), WithPassword(u.email), All}

Answer(k) == {u \in rows : k \in KeysOf(u)}
Taken(e) == \E u \in rows : u.email = e
(* INTEGER PRIMARY KEY without AUTOINCREMENT: one more than the greatest   *)
(* id in the table, so that the id of the last row is given again when     *)
(* that row is gone.                                                       *)
IsNextId(i) ==
    /\ \A u \in rows : u.id < i
    /\ i = 1 \/ \E u \in rows : u.id + 1 = i

Written == {"read_back", "forget_new", "forget_all"}  \* steps after the change
Request ==
    [op : {"none"} \cup Kinds,
     at : {"idle", "look", "select", "fill", "old", "select_old", "forget_old",
           "insert", "write"} \cup Written,
     key : Keys,          \* what is looked up
     id : Ids \cup {0}, email : SUBSET Emails, by : SUBSET People, \* the account meant
     found : SUBSET User] \* the rows read last
Idle == [op |-> "none", at |-> "idle", key |-> All, id |-> 0,
         email |-> {}, by |-> {}, found |-> {}]

(* Types; ids and e-mail addresses are unique; an entry answers its key;   *)
(* the absence of an id is not cached. (Addresses stay unique thanks to    *)
(* the constraint alone: a sign-up is checked against a cache.)            *)
TypeOK ==
    /\ rows \subseteq User
    /\ \A u, v \in rows : u.id = v.id \/ u.email = v.email => u = v
    /\ cache \in [Keys -> SUBSET SUBSET User]
    /\ \A k \in Keys : \A s \in cache[k] : \A u \in s : k \in KeysOf(u)
    /\ \A i \in Ids : {} \notin cache[ById(i)]
    /\ req \in [Requests -> Request]
    /\ calm \in BOOLEAN

Init ==
    /\ rows = {}
    /\ cache = [k \in Keys |-> {}]
    /\ req = [h \in Requests |-> Idle]
    /\ calm = TRUE

-----------------------------------------------------------------------------
At(h, step) == req[h].at = step
Go(h, r) == req' = [req EXCEPT ![h] = r]
(* The next step with what a request keeps: its last lookup is forgotten.  *)
Resume(r, step) == [r EXCEPT !.at = step, !.key = All, !.found = {}]
Goto(h, step) == Go(h, Resume(req[h], step))
Finish(h) == Go(h, Idle)
Forget(S) == cache' = [k \in Keys |-> IF k \in S THEN {} ELSE cache[k]]

Begin(h, r) ==
    /\ At(h, "idle")
    /\ Go(h, r)
    /\ calm' = (calm /\ \A g \in Requests \ {h} :
                          ~At(g, "idle") => {r.op, req[g].op} = {"read"})
    /\ UNCHANGED <<rows, cache>>

(* get_user and get_users_by_ids, list_users, authenticate_user.           *)
Read(h, k) == Begin(h, [Idle EXCEPT !.op = "read", !.at = "look", !.key = k])
Create(h, e, p) ==
    Begin(h, [Idle EXCEPT !.op = "create", !.at = "look", !.key = ByEmail(e),
                          !.email = {e}, !.by = {p}])
Update(h, i, e) ==
    Begin(h, [Idle EXCEPT !.op = "update", !.at = "look", !.key = ById(i),
                          !.id = i, !.email = {e}])
Delete(h, i) == Begin(h, [Idle EXCEPT !.op = "delete", !.at = "old", !.id = i])

-----------------------------------------------------------------------------
(* What a request does with the answer S to its lookup. A sign-up goes on  *)
(* if the address is free, a change if the user exists and a new address   *)
(* is free; all other requests end.                                        *)
Continue(r, S) ==
    IF r.op = "create" /\ S = {} THEN Resume(r, "insert")
    ELSE IF r.op = "update" /\ r.key = ById(r.id) /\ S # {}
         THEN IF \A u \in S : r.email = {u.email}
              THEN Resume(r, "old")
              ELSE [Resume(r, "look") EXCEPT !.key = ByEmail(CHOOSE e \in r.email : TRUE)]
    ELSE IF r.op = "update" /\ r.key # ById(r.id) /\ S = {} THEN Resume(r, "old")
    ELSE Idle

(* A lookup: the cached answer, unless there is none or the request says   *)
(* no-cache (the lookups of a change never do), or the table's answer,     *)
(* which is cached, but for the absence of an id.                          *)
Look(h, bypass) ==
    /\ At(h, "look")
    /\ bypass => req[h].op = "read"
    /\ IF bypass \/ cache[req[h].key] = {}
       THEN Go(h, [req[h] EXCEPT !.at = "select"])
       ELSE \E s \in cache[req[h].key] : Go(h, Continue(req[h], s))
    /\ UNCHANGED <<rows, cache, calm>>

Select(h) ==
    /\ At(h, "select")
    /\ Go(h, [req[h] EXCEPT !.at = "fill", !.found = Answer(req[h].key)])
    /\ UNCHANGED <<rows, cache, calm>>

Fill(h) ==
    /\ At(h, "fill")
    /\ IF req[h].found = {} /\ \E i \in Ids : req[h].key = ById(i)
       THEN UNCHANGED cache
       ELSE cache' = [cache EXCEPT ![req[h].key] = {req[h].found}]
    /\ Go(h, Continue(req[h], req[h].found))
    /\ UNCHANGED <<rows, calm>>

-----------------------------------------------------------------------------
(* The row is inserted if the address is free in the table.                *)
InsertUnchecked(h) ==
    /\ At(h, "insert")
    /\ \E i \in Ids, e \in req[h].email, p \in req[h].by :
         /\ IsNextId(i)
         /\ rows' = rows \cup {[id |-> i, email |-> e, by |-> p]}
         /\ Go(h, [Idle EXCEPT !.op = "create", !.at = "read_back", !.id = i])
    /\ UNCHANGED <<cache, calm>>
Insert(h) ==
    /\ At(h, "insert")
    /\ \/ \E i \in Ids, e \in req[h].email, p \in req[h].by :
            /\ IsNextId(i) /\ ~Taken(e)
            /\ rows' = rows \cup {[id |-> i, email |-> e, by |-> p]}
            /\ Go(h, [Idle EXCEPT !.op = "create", !.at = "read_back", !.id = i])
       \/ /\ (\E e \in req[h].email : Taken(e)) \/ (\A i \in Ids : ~IsNextId(i))
          /\ Finish(h)
          /\ UNCHANGED rows
    /\ UNCHANGED <<cache, calm>>

(* update_user and delete_user of the repository ask for the user's        *)
(* address, the cache first, and forget his entries before the statement.  *)
LookOld(h) ==
    /\ At(h, "old")
    /\ IF cache[ById(req[h].id)] = {}
       THEN Goto(h, "select_old") /\ UNCHANGED cache
       ELSE /\ Forget(UNION {KeysOf(u) \ {All} : u \in UNION cache[ById(req[h].id)]})
            /\ Goto(h, "write")
    /\ UNCHANGED <<rows, calm>>

SelectOld(h) ==
    /\ At(h, "select_old")
    /\ Go(h, [req[h] EXCEPT !.at = "forget_old", !.found = Answer(ById(req[h].id))])
    /\ UNCHANGED <<rows, cache, calm>>

ForgetOld(h) ==
    /\ At(h, "forget_old")
    /\ Forget(UNION {KeysOf(u) \ {All} : u \in req[h].found})
    /\ Goto(h, "write")
    /\ UNCHANGED <<rows, calm>>

(* UPDATE fails if another row has the address, and changes nothing if the *)
(* row is gone. The password stays.                                        *)
WriteUpdate(h) ==
    /\ At(h, "write") /\ req[h].op = "update"
    /\ \E e \in req[h].email :
         LET mine == Answer(ById(req[h].id))
             others == rows \ mine IN
         \/ mine = {} /\ Goto(h, "forget_all") /\ UNCHANGED rows
         \/ mine # {} /\ (\E u \in others : u.email = e) /\ Finish(h) /\ UNCHANGED rows
         \/ /\ mine # {} /\ \A u \in others : u.email # e
            /\ rows' = others \cup {[u EXCEPT !.email = e] : u \in mine}
            /\ Goto(h, "read_back")
    /\ UNCHANGED <<cache, calm>>

(* DELETE; its cascades are in Sessions, ChatRooms and Messages.           *)
WriteDelete(h) ==
    /\ At(h, "write") /\ req[h].op = "delete"
    /\ rows' = {u \in rows : u.id # req[h].id}
    /\ Goto(h, "forget_all")
    /\ UNCHANGED <<cache, calm>>

(* The row is read back; a sign-up that does not find it ends with an      *)
(* error, a change forgets only the list of all users.                     *)
ReadBack(h) ==
    /\ At(h, "read_back")
    /\ IF Answer(ById(req[h].id)) # {}
       THEN Go(h, [req[h] EXCEPT !.at = "forget_new", !.found = Answer(ById(req[h].id))])
       ELSE IF req[h].op = "update" THEN Goto(h, "forget_all") ELSE Finish(h)
    /\ UNCHANGED <<rows, cache, calm>>

ForgetIdOnly(h) ==
    /\ At(h, "forget_new")
    /\ Forget({ById(u.id) : u \in req[h].found} \cup {All})
    /\ Finish(h)
    /\ UNCHANGED <<rows, calm>>
ForgetNew(h) ==
    /\ At(h, "forget_new")
    /\ Forget(UNION {KeysOf(u) : u \in req[h].found})
    /\ Finish(h)
    /\ UNCHANGED <<rows, calm>>

ForgetAll(h) ==
    /\ At(h, "forget_all")
    /\ Forget({All})
    /\ Finish(h)
    /\ UNCHANGED <<rows, calm>>

-----------------------------------------------------------------------------
(* The caller disconnects, or a statement fails.                           *)
Drop(h) ==
    /\ ~At(h, "idle")
    /\ Finish(h)
    /\ calm' = (calm /\ req[h].at \notin Written)
    /\ UNCHANGED <<rows, cache>>

(* A time to live (300 s, 60 s with passwords and for the list) runs out,  *)
(* or the entry is evicted.                                                *)
ExpirePresent(k) ==
    /\ cache[k] \notin {{}, {{}}}
    /\ cache' = [cache EXCEPT ![k] = {}]
    /\ UNCHANGED <<rows, req, calm>>
Expire(k) ==
    /\ cache[k] # {}
    /\ cache' = [cache EXCEPT ![k] = {}]
    /\ UNCHANGED <<rows, req, calm>>

Restart ==
    /\ cache' = [k \in Keys |-> {}]
    /\ req' = [h \in Requests |-> Idle]
    /\ calm' = TRUE
    /\ UNCHANGED rows

Start(h) ==
    \/ "read" \in May[h] /\ \E k \in Looked : Read(h, k)
    \/ "create" \in May[h] /\ \E e \in Emails, p \in People : Create(h, e, p)
    \/ "update" \in May[h] /\ \E i \in Ids, e \in Emails : Update(h, i, e)
    \/ "delete" \in May[h] /\ \E i \in Ids : Delete(h, i)
Change(h) ==
    \/ Insert(h) \/ LookOld(h) \/ SelectOld(h) \/ ForgetOld(h)
    \/ WriteUpdate(h) \/ WriteDelete(h) \/ ReadBack(h) \/ ForgetNew(h) \/ ForgetAll(h)
Next ==
    \/ \E h \in Requests :
         Start(h) \/ Select(h) \/ Fill(h) \/ Change(h) \/ Drop(h)
         \/ \E bypass \in BOOLEAN : Look(h, bypass)
    \/ \E k \in Keys : Expire(k)
    \/ Restart

Spec == Init /\ [][Next]_vars

(* What was read is cached, and no entry outlives its time.                *)
FairSpec ==
    /\ Spec
    /\ \A h \in Requests : WF_vars(Fill(h))
    /\ \A k \in Keys : WF_vars(Expire(k))

-----------------------------------------------------------------------------
(* Invalidation is complete: as long as changes of accounts do not overlap *)
(* other requests and are not cut short, every cached answer is the        *)
(* table's, refusals and reused ids included, but while a change is on its *)
(* way from its statement to its last invalidation.                        *)
Fresh(k) == cache[k] \subseteq {Answer(k)}
CalmIsFresh ==
    calm /\ (\A h \in Requests : req[h].at \notin Written) => \A k \in Keys : Fresh(k)

(* Without that, stale answers still end: once no account changes any      *)
(* more, nobody keeps answering for a deleted user, an old address or the  *)
(* absence of a new one, although lookups may cache what they read before  *)
(* the last change after its invalidation.                                 *)
StaleAnswersEnd == <>[][FALSE]_rows => \A k \in Keys : <>[]Fresh(k)
=============================================================================
