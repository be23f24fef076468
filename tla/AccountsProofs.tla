---------------------------- MODULE AccountsProofs ----------------------------
(***************************************************************************)
(* Unique accounts, and caches that are complete in calm times, proved for *)
(* every number of addresses, people, requests and ids.                    *)
(***************************************************************************)
EXTENDS Accounts, TLAPS

Reading == {"look", "select", "fill"}

(* How far a request of each kind gets, and what it keeps.                 *)
ReqOK(r) ==
    /\ r.op = "none" => r.at = "idle"
    /\ r.at = "idle" => r.op = "none"
    /\ r.op = "read" => r.at \in Reading
    /\ r.op = "create" => r.at \in Reading \cup {"insert", "read_back", "forget_new"}
    /\ r.op = "delete" => r.at \in {"old", "select_old", "forget_old", "write", "forget_all"}
    /\ r.op = "update" => r.at # "insert" /\ \E e \in Emails : r.email = {e}
    /\ r.op \in {"update", "delete"} => r.id \in Ids
    /\ r.at \in {"read_back", "forget_new"} => r.id \in Ids
    /\ r.at = "fill" => \A u \in r.found : r.key \in KeysOf(u)

Ans(k, R) == {u \in R : k \in KeysOf(u)}
FreshIn(k, R, C) == C[k] \subseteq {Ans(k, R)}

(* What a request r knows in calm times of the rows R and the caches C. In *)
(* its last steps only the entries it is about to forget may be stale.     *)
Fits(r, R, C) ==
    /\ r.at = "fill" => r.found = Ans(r.key, R)
    /\ r.at \in {"forget_old", "forget_new"} => r.found = Ans(ById(r.id), R)
    /\ r.at = "write" => \A u \in Ans(ById(r.id), R) : \A k \in KeysOf(u) \ {All} : C[k] = {}
    /\ r.at \in {"read_back", "forget_new"} => Ans(ById(r.id), R) # {}
    /\ r.at \in {"read_back", "forget_new"} =>
         \A k \in Keys : FreshIn(k, R, C) \/ \E u \in Ans(ById(r.id), R) : k \in KeysOf(u)
    /\ r.at = "forget_all" => \A k \in Keys : FreshIn(k, R, C) \/ k = All

Alone == \A g, h \in Requests :
    g # h /\ req[g].at # "idle" /\ req[h].at # "idle" => req[g].op = "read" /\ req[h].op = "read"
Tidy == (\A h \in Requests : req[h].at \notin Written) => \A k \in Keys : FreshIn(k, rows, cache)
CalmOK == calm => Alone /\ Tidy /\ \A h \in Requests : Fits(req[h], rows, cache)

Inv == TypeOK /\ (\A h \in Requests : ReqOK(req[h])) /\ CalmOK

-----------------------------------------------------------------------------
LEMMA KeyFacts ==
    /\ \A i, u : ById(i) \in KeysOf(u) <=> u.id = i
    /\ \A e, u : ByEmail(e) \in KeysOf(u) <=> u.email = e
    /\ \A i, e : ById(i) # ByEmail(e) /\ ById(i) # WithPassword(e)
    /\ \A i : ById(i) # All
    /\ All \in Keys
    /\ \A u : All \in KeysOf(u)
    /\ \A i \in Ids : ById(i) \in Keys
    /\ \A e \in Emails : ByEmail(e) \in Keys
    /\ \A u \in User : KeysOf(u) \subseteq Keys
BY DEF KeysOf, ById, ByEmail, WithPassword, All, Keys, User

LEMMA AnswerIs == \A k : Answer(k) = Ans(k, rows) /\ (Fresh(k) <=> FreshIn(k, rows, cache))
BY DEF Answer, Ans, Fresh, FreshIn

LEMMA IdleFacts == Idle \in Request /\ ReqOK(Idle) /\ Idle.at = "idle"
<1>1. All \in Keys
  BY KeyFacts
<1> QED
  BY <1>1 DEF Idle, Request, ReqOK, Written, Kinds

(* In calm times, a request that changes accounts is alone.                *)
LEMMA OthersIdle ==
    ASSUME Inv, calm, NEW h \in Requests, req[h].op \in Changes,
           NEW g \in Requests, g # h
    PROVE  req[g].at = "idle" /\ \A R, C : Fits(req[g], R, C)
<1>1. req[h].at # "idle" /\ req[h].op # "read"
  BY DEF Inv, ReqOK, Changes
<1>2. req[g].at = "idle"
  BY <1>1 DEF Inv, CalmOK, Alone
<1> QED
  BY <1>2 DEF Fits

(* In calm times all is fresh for a request that has not written yet.      *)
LEMMA FreshBefore ==
    ASSUME Inv, calm, NEW h \in Requests, req[h].at # "idle", req[h].at \notin Written
    PROVE  \A k \in Keys : FreshIn(k, rows, cache)
<1>1. ASSUME NEW g \in Requests, req[g].at \in Written PROVE FALSE
  <2>1. g # h /\ req[g].at # "idle" /\ req[g].op # "read"
    BY <1>1 DEF Inv, ReqOK, Written, Reading
  <2> QED
    BY <2>1 DEF Inv, CalmOK, Alone
<1> QED
  BY <1>1 DEF Inv, CalmOK, Tidy

(* A lookup knows nothing of the caches.                                   *)
LEMMA ReaderFits ==
    ASSUME NEW r, r.at \in Reading \cup {"idle"}, NEW R, NEW C, NEW D, Fits(r, R, C)
    PROVE  Fits(r, R, D)
BY DEF Fits, Reading

(* What is left to show of a step of request h that turns it into r.       *)
LEMMA StepOf ==
    ASSUME Inv, NEW h \in Requests, req[h].at # "idle", NEW r,
           req' = [req EXCEPT ![h] = r],
           r = Idle \/ (r \in Request /\ ReqOK(r) /\ r.op = req[h].op),
           calm' => calm, calm' \in BOOLEAN,
           rows' \subseteq User,
           \A u, v \in rows' : u.id = v.id \/ u.email = v.email => u = v,
           cache' \in [Keys -> SUBSET SUBSET User],
           \A k \in Keys : \A s \in cache'[k] : \A u \in s : k \in KeysOf(u),
           \A i \in Ids : {} \notin cache'[ById(i)],
           calm' => Fits(r, rows', cache'),
           calm' /\ r.at \notin Written => \A k \in Keys : FreshIn(k, rows', cache'),
           calm' => \A g \in Requests : g # h => Fits(req[g], rows', cache')
    PROVE  Inv'
<1>1. r \in Request /\ ReqOK(r) /\ (r.at = "idle" \/ r.op = req[h].op)
  BY IdleFacts
<1>2. req' \in [Requests -> Request] /\ req'[h] = r /\ \A g \in Requests : g # h => req'[g] = req[g]
  BY <1>1 DEF Inv, TypeOK
<1>3. TypeOK'
  BY <1>2 DEF TypeOK
<1>4. \A g \in Requests : ReqOK(req'[g])
  BY <1>1, <1>2 DEF Inv
<1>5. ASSUME calm' PROVE (Alone /\ Tidy /\ \A g \in Requests : Fits(req[g], rows, cache))'
  <2>1. Alone'
    <3>1. Alone
      BY <1>5 DEF Inv, CalmOK
    <3> QED
      BY <1>1, <1>2, <3>1 DEF Alone
  <2>2. Tidy'
    BY <1>2, <1>5 DEF Tidy
  <2>3. \A g \in Requests : Fits(req'[g], rows', cache')
    BY <1>2, <1>5
  <2> QED
    BY <2>1, <2>2, <2>3
<1> QED
  BY <1>3, <1>4, <1>5 DEF Inv, CalmOK

(* The same for a step that changes neither rows nor caches.               *)
LEMMA QuietStep ==
    ASSUME Inv, NEW h \in Requests, req[h].at # "idle", NEW r,
           req' = [req EXCEPT ![h] = r],
           r = Idle \/ (r \in Request /\ ReqOK(r) /\ r.op = req[h].op),
           UNCHANGED <<rows, cache>>,
           calm' => calm, calm' \in BOOLEAN,
           calm' => Fits(r, rows, cache),
           calm' /\ r.at \notin Written => \A k \in Keys : FreshIn(k, rows, cache)
    PROVE  Inv'
<1>1. calm' => \A g \in Requests : g # h => Fits(req[g], rows', cache')
  BY DEF Inv, CalmOK
<1>2. calm' => Fits(r, rows', cache')
  OBVIOUS
<1>3. calm' /\ r.at \notin Written => \A k \in Keys : FreshIn(k, rows', cache')
  OBVIOUS
<1>4. /\ rows' \subseteq User
      /\ \A u, v \in rows' : u.id = v.id \/ u.email = v.email => u = v
      /\ cache' \in [Keys -> SUBSET SUBSET User]
      /\ \A k \in Keys : \A s \in cache'[k] : \A u \in s : k \in KeysOf(u)
      /\ \A i \in Ids : {} \notin cache'[ById(i)]
  BY DEF Inv, TypeOK
<1> QED
  BY <1>1, <1>2, <1>3, <1>4, StepOf

-----------------------------------------------------------------------------
(* The empty caches of a fresh start satisfy the invariant.                *)
THEOREM InitInv == Init => Inv
<1> SUFFICES ASSUME Init PROVE Inv
  OBVIOUS
<1>1. \A i \in Ids : ById(i) \in Keys
  BY KeyFacts
<1>2. TypeOK
  BY <1>1, IdleFacts DEF Init, TypeOK
<1>3. \A h \in Requests : req[h] = Idle
  BY DEF Init
<1>4. CalmOK
  <2>1. Alone /\ Tidy
    BY <1>3, IdleFacts DEF Alone, Tidy, FreshIn, Init
  <2>2. \A h \in Requests : Fits(req[h], rows, cache)
    BY <1>3, IdleFacts DEF Fits
  <2> QED
    BY <2>1, <2>2 DEF CalmOK
<1> QED
  BY <1>2, <1>3, <1>4, IdleFacts DEF Inv

LEMMA BeginInv ==
    ASSUME Inv, NEW h \in Requests, NEW r, Begin(h, r), r \in Request, ReqOK(r),
           r.at \in {"look", "old"}
    PROVE  Inv'
<1>1. req' \in [Requests -> Request] /\ req'[h] = r /\ \A g \in Requests : g # h => req'[g] = req[g]
  BY DEF Begin, Go, Inv, TypeOK
<1>2. TypeOK'
  BY <1>1 DEF Begin, Inv, TypeOK
<1>3. \A g \in Requests : ReqOK(req'[g])
  BY <1>1 DEF Inv
<1>4. ASSUME calm' PROVE (Alone /\ Tidy /\ \A g \in Requests : Fits(req[g], rows, cache))'
  <2>1. calm /\ \A g \in Requests \ {h} : req[g].at # "idle" => r.op = "read" /\ req[g].op = "read"
    <3>1. calm /\ \A g \in Requests \ {h} : ~At(g, "idle") => {r.op, req[g].op} = {"read"}
      BY <1>4 DEF Begin
    <3>2. \A x, y : {x, y} = {"read"} => x = "read" /\ y = "read"
      OBVIOUS
    <3> QED
      BY <3>1, <3>2 DEF At
  <2>2. Alone'
    <3>1. Alone
      BY <2>1 DEF Inv, CalmOK
    <3> QED
      BY <1>1, <2>1, <3>1 DEF Alone
  <2>3. Tidy'
    <3>1. ASSUME \A g \in Requests : req'[g].at \notin Written
          PROVE  \A g \in Requests : req[g].at \notin Written
      BY <1>1, <3>1 DEF Begin, At, Written
    <3> QED
      BY <2>1, <3>1 DEF Inv, CalmOK, Tidy, Begin
  <2>4. Fits(r, rows, cache)
    BY DEF Fits
  <2>5. \A g \in Requests : Fits(req'[g], rows, cache)
    BY <1>1, <2>1, <2>4 DEF Inv, CalmOK
  <2> QED
    BY <2>2, <2>3, <2>5 DEF Begin
<1> QED
  BY <1>2, <1>3, <1>4 DEF Inv, CalmOK

LEMMA StartInv ==
    ASSUME Inv, NEW h \in Requests, Start(h)
    PROVE  Inv'
<1>1. ASSUME NEW k \in Looked, Read(h, k) PROVE Inv'
  <2> DEFINE r == [Idle EXCEPT !.op = "read", !.at = "look", !.key = k]
  <2>1. r \in Request /\ ReqOK(r) /\ r.at = "look"
    BY LookedAssumption DEF Idle, Request, ReqOK, Kinds, Reading
  <2>2. Begin(h, r)
    BY <1>1 DEF Read
  <2> QED
    BY <2>1, <2>2, BeginInv
<1>2. ASSUME NEW e \in Emails, NEW p \in People, Create(h, e, p) PROVE Inv'
  <2> DEFINE r == [Idle EXCEPT !.op = "create", !.at = "look", !.key = ByEmail(e),
                               !.email = {e}, !.by = {p}]
  <2>1. r \in Request /\ ReqOK(r) /\ r.at = "look"
    <3>1. ByEmail(e) \in Keys
      BY KeyFacts
    <3> QED
      BY <3>1 DEF Idle, Request, ReqOK, Kinds, Changes, Reading
  <2>2. Begin(h, r)
    BY <1>2 DEF Create
  <2> QED
    BY <2>1, <2>2, BeginInv
<1>3. ASSUME NEW i \in Ids, NEW e \in Emails, Update(h, i, e) PROVE Inv'
  <2> DEFINE r == [Idle EXCEPT !.op = "update", !.at = "look", !.key = ById(i),
                               !.id = i, !.email = {e}]
  <2>1. r \in Request /\ ReqOK(r) /\ r.at = "look"
    <3>1. ById(i) \in Keys
      BY KeyFacts
    <3> QED
      BY <3>1 DEF Idle, Request, ReqOK, Kinds, Changes, Reading
  <2>2. Begin(h, r)
    BY <1>3 DEF Update
  <2> QED
    BY <2>1, <2>2, BeginInv
<1>4. ASSUME NEW i \in Ids, Delete(h, i) PROVE Inv'
  <2> DEFINE r == [Idle EXCEPT !.op = "delete", !.at = "old", !.id = i]
  <2>1. r \in Request /\ ReqOK(r) /\ r.at = "old"
    <3>1. All \in Keys
      BY KeyFacts
    <3> QED
      BY <3>1 DEF Idle, Request, ReqOK, Kinds, Changes, Reading
  <2>2. Begin(h, r)
    BY <1>4 DEF Delete
  <2> QED
    BY <2>1, <2>2, BeginInv
<1> QED
  BY <1>1, <1>2, <1>3, <1>4 DEF Start

-----------------------------------------------------------------------------
LEMMA ResumeFacts ==
    ASSUME NEW r \in Request, ReqOK(r), r.op \in Changes,
           NEW s \in {"look", "insert", "old", "write", "forget_all", "read_back"},
           r.op = "create" => s \in {"look", "insert", "read_back"},
           r.op = "delete" => s \in {"old", "write", "forget_all"},
           r.op = "update" => s # "insert",
           s = "read_back" => r.id \in Ids
    PROVE  /\ Resume(r, s) \in Request /\ ReqOK(Resume(r, s))
           /\ Resume(r, s).op = r.op /\ Resume(r, s).at = s /\ Resume(r, s).id = r.id
<1>1. All \in Keys
  BY KeyFacts
<1>2. Resume(r, s) \in Request
  BY <1>1 DEF Resume, Request, Written
<1>3. /\ Resume(r, s).op = r.op /\ Resume(r, s).at = s /\ Resume(r, s).id = r.id
      /\ Resume(r, s).email = r.email
  BY DEF Resume, Request
<1>4. ReqOK(Resume(r, s))
  <2> HIDE DEF Resume
  <2> QED
    BY <1>3 DEF ReqOK, Changes, Reading
<1> QED
  BY <1>2, <1>3, <1>4

LEMMA ContinueFacts ==
    ASSUME NEW r \in Request, ReqOK(r), r.at \in {"look", "fill"}, NEW S, S \subseteq User
    PROVE  LET c == Continue(r, S) IN
           \/ c = Idle
           \/ c \in Request /\ ReqOK(c) /\ c.op = r.op /\ c.at \in {"look", "insert", "old"}
<1>1. CASE r.op = "create" /\ S = {}
  <2>1. Continue(r, S) = Resume(r, "insert")
    BY <1>1 DEF Continue
  <2> QED
    BY <1>1, <2>1, ResumeFacts DEF Changes
<1>2. CASE r.op = "update" /\ r.key = ById(r.id) /\ S # {}
  <2>1. CASE \A u \in S : r.email = {u.email}
    <3>1. Continue(r, S) = Resume(r, "old")
      BY <1>2, <2>1 DEF Continue
    <3> QED
      BY <1>2, <3>1, ResumeFacts DEF Changes
  <2>2. CASE ~ \A u \in S : r.email = {u.email}
    <3> DEFINE k == ByEmail(CHOOSE e \in r.email : TRUE)
    <3> DEFINE l == Resume(r, "look")
    <3>1. k \in Keys
      <4>1. PICK e \in Emails : r.email = {e}
        BY <1>2 DEF ReqOK
      <4>2. (CHOOSE d \in r.email : TRUE) \in Emails
        BY <4>1
      <4> QED
        BY <4>2, KeyFacts
    <3>2. Continue(r, S) = [l EXCEPT !.key = k]
      BY <1>2, <2>2 DEF Continue
    <3>3. l \in Request /\ ReqOK(l) /\ l.op = r.op /\ l.at = "look"
      BY <1>2, ResumeFacts DEF Changes
    <3> HIDE DEF k, l
    <3> QED
      BY <3>1, <3>2, <3>3 DEF ReqOK, Request
  <2> QED
    BY <2>1, <2>2
<1>3. CASE r.op = "update" /\ r.key # ById(r.id) /\ S = {}
  <2>1. Continue(r, S) = Resume(r, "old")
    BY <1>3 DEF Continue
  <2> QED
    BY <1>3, <2>1, ResumeFacts DEF Changes
<1>4. CASE /\ ~ (r.op = "create" /\ S = {})
           /\ ~ (r.op = "update" /\ r.key = ById(r.id) /\ S # {})
           /\ ~ (r.op = "update" /\ r.key # ById(r.id) /\ S = {})
  BY <1>4 DEF Continue
<1> QED
  BY <1>1, <1>2, <1>3, <1>4

LEMMA EarlyFits ==
    ASSUME NEW r, r.at \in {"idle", "look", "select", "insert", "old", "select_old"}
    PROVE  (\A R, C : Fits(r, R, C)) /\ r.at \notin Written
BY DEF Fits, Written

LEMMA LookInv ==
    ASSUME Inv, NEW h \in Requests, NEW bypass \in BOOLEAN, Look(h, bypass)
    PROVE  Inv'
<1> DEFINE q == req[h]
<1>1. q \in Request /\ ReqOK(q) /\ q.at = "look" /\ q.key \in Keys
  BY DEF Look, At, Inv, TypeOK, Request
<1>2. UNCHANGED <<rows, cache>> /\ calm' = calm /\ calm \in BOOLEAN /\ q.at # "idle"
  BY <1>1 DEF Look, Inv, TypeOK
<1>3. calm => \A k \in Keys : FreshIn(k, rows, cache)
  BY <1>1, FreshBefore DEF Written
<1>4. ASSUME NEW r, req' = [req EXCEPT ![h] = r],
             r = Idle \/ (r \in Request /\ ReqOK(r) /\ r.op = q.op
                          /\ r.at \in {"look", "select", "insert", "old"})
      PROVE Inv'
  <2>1. Fits(r, rows, cache)
    BY <1>4, EarlyFits, IdleFacts
  <2> HIDE DEF q
  <2> QED
    BY <1>2, <1>3, <1>4, <2>1, QuietStep DEF q
<1>5. CASE bypass \/ cache[q.key] = {}
  <2> DEFINE r == [q EXCEPT !.at = "select"]
  <2>1. r \in Request /\ ReqOK(r) /\ r.op = q.op /\ r.at = "select"
    <3> HIDE DEF q
    <3> QED
      BY <1>1 DEF Request, ReqOK, Reading
  <2>2. req' = [req EXCEPT ![h] = r]
    BY <1>5 DEF Look, Go
  <2> HIDE DEF r, q
  <2> QED
    BY <2>1, <2>2, <1>4
<1>6. CASE ~ (bypass \/ cache[q.key] = {})
  <2>1. PICK s \in cache[q.key] : req' = [req EXCEPT ![h] = Continue(q, s)]
    BY <1>6 DEF Look, Go
  <2>2. s \subseteq User
    BY <1>1 DEF Inv, TypeOK
  <2>3. \/ Continue(q, s) = Idle
        \/ Continue(q, s) \in Request /\ ReqOK(Continue(q, s)) /\ Continue(q, s).op = q.op
           /\ Continue(q, s).at \in {"look", "insert", "old"}
    BY <1>1, <2>2, ContinueFacts
  <2> HIDE DEF q
  <2> QED
    BY <2>1, <2>3, <1>4
<1> QED
  BY <1>5, <1>6

LEMMA SelectInv ==
    ASSUME Inv, NEW h \in Requests, Select(h)
    PROVE  Inv'
<1> DEFINE q == req[h]
<1> DEFINE S == Ans(q.key, rows)
<1> DEFINE r == [q EXCEPT !.at = "fill", !.found = S]
<1>1. q \in Request /\ ReqOK(q) /\ q.at = "select" /\ q.key \in Keys
  BY DEF Select, At, Inv, TypeOK, Request
<1>2. S \subseteq User /\ \A u \in S : q.key \in KeysOf(u)
  BY DEF Inv, TypeOK, Ans
<1>3. req' = [req EXCEPT ![h] = r] /\ UNCHANGED <<rows, cache>> /\ calm' = calm
  BY AnswerIs DEF Select, Go
<1>4. /\ r \in Request /\ ReqOK(r) /\ r.op = q.op /\ r.at = "fill"
      /\ r.key = q.key /\ r.found = S
  <2> HIDE DEF q, S
  <2> QED
    BY <1>1, <1>2 DEF Request, ReqOK, Reading
<1>5. Fits(r, rows, cache)
  <2> HIDE DEF r
  <2> QED
    BY <1>4 DEF Fits
<1>6. calm => \A k \in Keys : FreshIn(k, rows, cache)
  BY <1>1, FreshBefore DEF Written
<1>7. calm \in BOOLEAN /\ q.at # "idle"
  BY <1>1 DEF Inv, TypeOK
<1> HIDE DEF r
<1> QED
  BY <1>3, <1>4, <1>5, <1>6, <1>7, QuietStep

LEMMA FillInv ==
    ASSUME Inv, NEW h \in Requests, Fill(h)
    PROVE  Inv'
<1> DEFINE q == req[h]
<1> DEFINE c == Continue(q, q.found)
<1>1. q \in Request /\ ReqOK(q) /\ q.at = "fill" /\ q.key \in Keys /\ q.found \subseteq User
  BY DEF Fill, At, Inv, TypeOK, Request
<1>2. rows' = rows /\ calm' = calm /\ calm \in BOOLEAN /\ req' = [req EXCEPT ![h] = c]
  BY DEF Fill, Go, Inv, TypeOK
<1>3. c = Idle \/ (c \in Request /\ ReqOK(c) /\ c.op = q.op /\ c.at \in {"look", "insert", "old"})
  BY <1>1, ContinueFacts
<1> HIDE DEF c
<1>4. \/ cache' = cache
      \/ /\ cache' = [cache EXCEPT ![q.key] = {q.found}]
         /\ q.found # {} \/ \A i \in Ids : q.key # ById(i)
  BY DEF Fill
<1>5. /\ cache' \in [Keys -> SUBSET SUBSET User]
      /\ \A k \in Keys : cache'[k] = cache[k] \/ (k = q.key /\ cache'[k] = {q.found})
  BY <1>1, <1>4 DEF Inv, TypeOK
<1>6. \A k \in Keys : \A s \in cache'[k] : \A u \in s : k \in KeysOf(u)
  <2>1. \A u \in q.found : q.key \in KeysOf(u)
    BY <1>1 DEF ReqOK
  <2> QED
    BY <1>5, <2>1 DEF Inv, TypeOK
<1>7. \A i \in Ids : {} \notin cache'[ById(i)]
  BY <1>1, <1>4, KeyFacts DEF Inv, TypeOK
<1>8. ASSUME calm
      PROVE  /\ Fits(c, rows', cache')
             /\ c.at \notin Written
             /\ \A k \in Keys : FreshIn(k, rows', cache')
             /\ \A g \in Requests : g # h => Fits(req[g], rows', cache')
  <2>1. Fits(c, rows', cache') /\ c.at \notin Written
    BY <1>3, EarlyFits, IdleFacts
  <2>2. \A k \in Keys : FreshIn(k, rows, cache)
    BY <1>1, <1>8, FreshBefore DEF Written
  <2>3. q.found = Ans(q.key, rows)
    BY <1>1, <1>8 DEF Inv, CalmOK, Fits
  <2>4. \A k \in Keys : FreshIn(k, rows', cache')
    BY <1>2, <1>5, <2>2, <2>3 DEF FreshIn
  <2>5. ASSUME NEW g \in Requests, g # h PROVE Fits(req[g], rows', cache')
    <3>1. Fits(req[g], rows, cache)
      BY <1>8 DEF Inv, CalmOK
    <3>2. req[g].at \in Reading \cup {"idle"}
      <4>1. req[g].at = "idle" \/ req[g].op = "read"
        BY <1>1, <1>8, <2>5 DEF Inv, CalmOK, Alone
      <4> QED
        BY <4>1 DEF Inv, ReqOK
    <3> QED
      BY <1>2, <3>1, <3>2, ReaderFits
  <2> QED
    BY <2>1, <2>4, <2>5
<1>9. rows' \subseteq User /\ \A u, v \in rows' : u.id = v.id \/ u.email = v.email => u = v
  BY <1>2 DEF Inv, TypeOK
<1>10. q.at # "idle" /\ (c = Idle \/ (c \in Request /\ ReqOK(c) /\ c.op = q.op))
  BY <1>1, <1>3
<1> QED
  BY <1>2, <1>5, <1>6, <1>7, <1>8, <1>9, <1>10, StepOf

-----------------------------------------------------------------------------
LEMMA ForgetFacts ==
    ASSUME Inv, NEW S, Forget(S)
    PROVE  /\ cache' \in [Keys -> SUBSET SUBSET User]
           /\ \A k \in Keys : \A s \in cache'[k] : \A u \in s : k \in KeysOf(u)
           /\ \A i \in Ids : {} \notin cache'[ById(i)]
           /\ \A k \in Keys : cache'[k] = IF k \in S THEN {} ELSE cache[k]
<1>1. cache \in [Keys -> SUBSET SUBSET User]
  BY DEF Inv, TypeOK
<1>2. \A k \in Keys : cache'[k] = IF k \in S THEN {} ELSE cache[k]
  BY DEF Forget
<1>3. cache' \in [Keys -> SUBSET SUBSET User]
  BY <1>1 DEF Forget
<1>4. \A k \in Keys : \A s \in cache'[k] : \A u \in s : k \in KeysOf(u)
  BY <1>2 DEF Inv, TypeOK
<1>5. \A i \in Ids : {} \notin cache'[ById(i)]
  BY <1>2, KeyFacts DEF Inv, TypeOK
<1> QED
  BY <1>2, <1>3, <1>4, <1>5

(* A request that changes accounts forgets the entries S.                  *)
LEMMA ForgetStep ==
    ASSUME Inv, NEW h \in Requests, req[h].op \in Changes, NEW S, Forget(S), NEW r,
           req' = [req EXCEPT ![h] = r],
           r = Idle \/ (r \in Request /\ ReqOK(r) /\ r.op = req[h].op),
           UNCHANGED <<rows, calm>>,
           calm => Fits(r, rows, cache'),
           calm => \A k \in Keys \ S : FreshIn(k, rows, cache)
    PROVE  Inv'
<1>1. /\ cache' \in [Keys -> SUBSET SUBSET User]
      /\ \A k \in Keys : \A s \in cache'[k] : \A u \in s : k \in KeysOf(u)
      /\ \A i \in Ids : {} \notin cache'[ById(i)]
      /\ \A k \in Keys : cache'[k] = IF k \in S THEN {} ELSE cache[k]
  BY ForgetFacts
<1>2. /\ rows' \subseteq User /\ calm' = calm /\ calm \in BOOLEAN
      /\ \A u, v \in rows' : u.id = v.id \/ u.email = v.email => u = v
      /\ req[h].at # "idle"
  BY DEF Inv, TypeOK, ReqOK, Changes
<1>3. calm' /\ r.at \notin Written => \A k \in Keys : FreshIn(k, rows', cache')
  BY <1>1, <1>2 DEF FreshIn
<1>4. calm' => \A g \in Requests : g # h => Fits(req[g], rows', cache')
  BY <1>2, OthersIdle
<1>5. calm' => Fits(r, rows', cache')
  BY <1>2
<1>6. (calm' => calm) /\ calm' \in BOOLEAN
  BY <1>2
<1>7. /\ cache' \in [Keys -> SUBSET SUBSET User]
      /\ \A k \in Keys : \A s \in cache'[k] : \A u \in s : k \in KeysOf(u)
      /\ \A i \in Ids : {} \notin cache'[ById(i)]
  BY <1>1
<1> QED
  BY <1>2, <1>3, <1>4, <1>5, <1>6, <1>7, StepOf

LEMMA LookOldInv ==
    ASSUME Inv, NEW h \in Requests, LookOld(h)
    PROVE  Inv'
<1> DEFINE q == req[h]
<1> DEFINE k0 == ById(q.id)
<1>1. q \in Request /\ ReqOK(q) /\ q.at = "old"
  BY DEF LookOld, At, Inv, TypeOK
<1>2. q.op \in {"update", "delete"} /\ q.op \in Changes /\ q.id \in Ids
  BY <1>1 DEF ReqOK, Request, Kinds, Changes, Reading
<1>3. calm => \A k \in Keys : FreshIn(k, rows, cache)
  BY <1>1, FreshBefore DEF Written
<1>4. k0 \in Keys
  BY <1>2, KeyFacts
<1>5. CASE cache[k0] = {}
  <2> DEFINE r == Resume(q, "select_old")
  <2>1. req' = [req EXCEPT ![h] = r] /\ UNCHANGED <<rows, cache, calm>>
    BY <1>5 DEF LookOld, Goto, Go
  <2>2. r \in Request /\ ReqOK(r) /\ r.op = q.op /\ r.at = "select_old"
    <3>1. All \in Keys
      BY KeyFacts
    <3> HIDE DEF q
    <3> QED
      BY <1>1, <1>2, <3>1 DEF Resume, Request, ReqOK, Reading
  <2>3. Fits(r, rows, cache)
    <3> HIDE DEF r
    <3> QED
      BY <2>2, EarlyFits
  <2>4. calm \in BOOLEAN
    BY DEF Inv, TypeOK
  <2> HIDE DEF r
  <2> QED
    BY <1>1, <1>3, <2>1, <2>2, <2>3, <2>4, QuietStep
<1>6. CASE cache[k0] # {}
  <2> DEFINE S == UNION {KeysOf(u) \ {All} : u \in UNION cache[k0]}
  <2> DEFINE r == Resume(q, "write")
  <2>1. req' = [req EXCEPT ![h] = r] /\ Forget(S) /\ UNCHANGED <<rows, calm>>
    BY <1>6 DEF LookOld, Goto, Go
  <2>2. r \in Request /\ ReqOK(r) /\ r.op = q.op /\ r.at = "write" /\ r.id = q.id
    BY <1>1, <1>2, ResumeFacts
  <2>3. ASSUME calm PROVE Fits(r, rows, cache')
    <3>1. ASSUME NEW u \in Ans(k0, rows), NEW k \in KeysOf(u) \ {All} PROVE cache'[k] = {}
      <4>1. u \in UNION cache[k0]
        BY <1>3, <1>4, <1>6, <2>3 DEF FreshIn
      <4>2. k \in S
        BY <3>1, <4>1
      <4>3. k \in Keys
        BY <3>1, KeyFacts DEF Ans, Inv, TypeOK
      <4> QED
        BY <2>1, <4>2, <4>3, ForgetFacts
    <3> HIDE DEF r
    <3> QED
      BY <2>2, <3>1 DEF Fits
  <2> HIDE DEF r, S
  <2> QED
    BY <1>2, <1>3, <2>1, <2>2, <2>3, ForgetStep
<1> QED
  BY <1>5, <1>6

LEMMA SelectOldInv ==
    ASSUME Inv, NEW h \in Requests, SelectOld(h)
    PROVE  Inv'
<1> DEFINE q == req[h]
<1> DEFINE S == Ans(ById(q.id), rows)
<1> DEFINE r == [q EXCEPT !.at = "forget_old", !.found = S]
<1>1. q \in Request /\ ReqOK(q) /\ q.at = "select_old"
  BY DEF SelectOld, At, Inv, TypeOK
<1>2. S \subseteq User
  BY DEF Inv, TypeOK, Ans
<1>3. req' = [req EXCEPT ![h] = r] /\ UNCHANGED <<rows, cache>> /\ calm' = calm
  BY AnswerIs DEF SelectOld, Go
<1>4. /\ r \in Request /\ ReqOK(r) /\ r.op = q.op /\ r.at = "forget_old"
      /\ r.id = q.id /\ r.found = S
  <2> HIDE DEF q, S
  <2> QED
    BY <1>1, <1>2 DEF Request, ReqOK, Reading
<1>5. Fits(r, rows, cache)
  <2> HIDE DEF r
  <2> QED
    BY <1>4 DEF Fits
<1>6. calm => \A k \in Keys : FreshIn(k, rows, cache)
  BY <1>1, FreshBefore DEF Written
<1>7. calm \in BOOLEAN /\ q.at # "idle"
  BY <1>1 DEF Inv, TypeOK
<1> HIDE DEF r
<1> QED
  BY <1>3, <1>4, <1>5, <1>6, <1>7, QuietStep

LEMMA ForgetOldInv ==
    ASSUME Inv, NEW h \in Requests, ForgetOld(h)
    PROVE  Inv'
<1> DEFINE q == req[h]
<1> DEFINE S == UNION {KeysOf(u) \ {All} : u \in q.found}
<1> DEFINE r == Resume(q, "write")
<1>1. q \in Request /\ ReqOK(q) /\ q.at = "forget_old"
  BY DEF ForgetOld, At, Inv, TypeOK
<1>2. q.op \in {"update", "delete"} /\ q.op \in Changes /\ q.id \in Ids
  BY <1>1 DEF ReqOK, Request, Kinds, Changes, Reading
<1>3. calm => \A k \in Keys : FreshIn(k, rows, cache)
  BY <1>1, FreshBefore DEF Written
<1>4. req' = [req EXCEPT ![h] = r] /\ Forget(S) /\ UNCHANGED <<rows, calm>>
  BY DEF ForgetOld, Goto, Go
<1>5. r \in Request /\ ReqOK(r) /\ r.op = q.op /\ r.at = "write" /\ r.id = q.id
  BY <1>1, <1>2, ResumeFacts
<1>6. ASSUME calm PROVE Fits(r, rows, cache')
  <2>1. q.found = Ans(ById(q.id), rows)
    BY <1>1, <1>6 DEF Inv, CalmOK, Fits
  <2>2. ASSUME NEW u \in Ans(ById(q.id), rows), NEW k \in KeysOf(u) \ {All} PROVE cache'[k] = {}
    <3>1. k \in S
      BY <2>1, <2>2
    <3>2. k \in Keys
      BY <2>2, KeyFacts DEF Ans, Inv, TypeOK
    <3> QED
      BY <1>4, <3>1, <3>2, ForgetFacts
  <2> HIDE DEF r
  <2> QED
    BY <1>5, <2>2 DEF Fits
<1> HIDE DEF r, S
<1> QED
  BY <1>2, <1>3, <1>4, <1>5, <1>6, ForgetStep

LEMMA ReadBackInv ==
    ASSUME Inv, NEW h \in Requests, ReadBack(h)
    PROVE  Inv'
<1> DEFINE q == req[h]
<1> DEFINE S == Ans(ById(q.id), rows)
<1>1. q \in Request /\ ReqOK(q) /\ q.at = "read_back"
  BY DEF ReadBack, At, Inv, TypeOK
<1>2. UNCHANGED <<rows, cache>> /\ calm' = calm /\ calm \in BOOLEAN /\ q.at # "idle"
  BY <1>1 DEF ReadBack, Inv, TypeOK
<1>3. calm => Fits(q, rows, cache)
  BY DEF Inv, CalmOK
<1>4. CASE S # {}
  <2> DEFINE r == [q EXCEPT !.at = "forget_new", !.found = S]
  <2>1. req' = [req EXCEPT ![h] = r]
    BY <1>4, AnswerIs DEF ReadBack, Go
  <2>2. S \subseteq User
    BY DEF Inv, TypeOK, Ans
  <2>3. /\ r \in Request /\ ReqOK(r) /\ r.op = q.op /\ r.at = "forget_new"
        /\ r.id = q.id /\ r.found = S
    <3> HIDE DEF q, S
    <3> QED
      BY <1>1, <2>2 DEF Request, Written, ReqOK, Reading
  <2>4. calm => Fits(r, rows, cache)
    <3> HIDE DEF r
    <3> QED
      BY <1>1, <1>3, <2>3 DEF Fits
  <2>5. r.at \in Written
    BY <2>3 DEF Written
  <2> HIDE DEF r
  <2> QED
    BY <1>2, <2>1, <2>3, <2>4, <2>5, QuietStep
<1>5. CASE S = {}
  <2>1. ~calm
    BY <1>1, <1>3, <1>5 DEF Fits
  <2>2. CASE q.op = "update"
    <3> DEFINE r == Resume(q, "forget_all")
    <3>1. req' = [req EXCEPT ![h] = r]
      BY <1>5, <2>2, AnswerIs DEF ReadBack, Goto, Go
    <3>2. r \in Request /\ ReqOK(r) /\ r.op = q.op
      BY <1>1, <2>2, ResumeFacts DEF Changes
    <3> HIDE DEF r
    <3> QED
      BY <1>2, <2>1, <3>1, <3>2, QuietStep
  <2>3. CASE q.op # "update"
    <3>1. req' = [req EXCEPT ![h] = Idle]
      BY <1>5, <2>3, AnswerIs DEF ReadBack, Finish, Go
    <3> QED
      BY <1>2, <2>1, <3>1, QuietStep
  <2> QED
    BY <2>2, <2>3
<1> QED
  BY <1>4, <1>5

LEMMA ForgetNewInv ==
    ASSUME Inv, NEW h \in Requests, ForgetNew(h)
    PROVE  Inv'
<1> DEFINE q == req[h]
<1> DEFINE S == UNION {KeysOf(u) : u \in q.found}
<1>1. q \in Request /\ ReqOK(q) /\ q.at = "forget_new"
  BY DEF ForgetNew, At, Inv, TypeOK
<1>2. q.op \in Changes
  BY <1>1 DEF ReqOK, Request, Kinds, Changes, Reading
<1>3. req' = [req EXCEPT ![h] = Idle] /\ Forget(S) /\ UNCHANGED <<rows, calm>>
  BY DEF ForgetNew, Finish, Go
<1>4. ASSUME calm, NEW k \in Keys \ S PROVE FreshIn(k, rows, cache)
  <2>1. Fits(q, rows, cache)
    BY <1>4 DEF Inv, CalmOK
  <2>2. q.found = Ans(ById(q.id), rows)
    BY <1>1, <2>1 DEF Fits
  <2>3. ~ \E u \in Ans(ById(q.id), rows) : k \in KeysOf(u)
    BY <1>4, <2>2
  <2> QED
    BY <1>1, <2>1, <2>3 DEF Fits
<1>5. Fits(Idle, rows, cache')
  BY IdleFacts, EarlyFits
<1> HIDE DEF S
<1> QED
  BY <1>2, <1>3, <1>4, <1>5, ForgetStep

LEMMA ForgetAllInv ==
    ASSUME Inv, NEW h \in Requests, ForgetAll(h)
    PROVE  Inv'
<1> DEFINE q == req[h]
<1>1. q \in Request /\ ReqOK(q) /\ q.at = "forget_all"
  BY DEF ForgetAll, At, Inv, TypeOK
<1>2. q.op \in Changes
  BY <1>1 DEF ReqOK, Request, Kinds, Changes, Reading
<1>3. req' = [req EXCEPT ![h] = Idle] /\ Forget({All}) /\ UNCHANGED <<rows, calm>>
  BY DEF ForgetAll, Finish, Go
<1>4. ASSUME calm, NEW k \in Keys \ {All} PROVE FreshIn(k, rows, cache)
  <2>1. Fits(q, rows, cache)
    BY <1>4 DEF Inv, CalmOK
  <2> QED
    BY <1>1, <2>1, <1>4 DEF Fits
<1>5. Fits(Idle, rows, cache')
  BY IdleFacts, EarlyFits
<1> QED
  BY <1>2, <1>3, <1>4, <1>5, ForgetStep

-----------------------------------------------------------------------------
(* A request of a change carries out its statement.                        *)
LEMMA WriteStep ==
    ASSUME Inv, NEW h \in Requests, req[h].op \in Changes, NEW r,
           req' = [req EXCEPT ![h] = r],
           r \in Request, ReqOK(r), r.op = req[h].op, r.at \in Written,
           UNCHANGED <<cache, calm>>,
           rows' \subseteq User,
           \A u, v \in rows' : u.id = v.id \/ u.email = v.email => u = v,
           calm => Fits(r, rows', cache)
    PROVE  Inv'
<1>1. /\ cache' \in [Keys -> SUBSET SUBSET User]
      /\ \A k \in Keys : \A s \in cache'[k] : \A u \in s : k \in KeysOf(u)
      /\ \A i \in Ids : {} \notin cache'[ById(i)]
      /\ calm' = calm /\ calm' \in BOOLEAN
  BY DEF Inv, TypeOK
<1>2. req[h].at # "idle"
  BY DEF Inv, ReqOK, Changes
<1>3. calm' => \A g \in Requests : g # h => Fits(req[g], rows', cache')
  BY <1>1, OthersIdle
<1>4. calm' => Fits(r, rows', cache')
  BY <1>1
<1>5. calm' /\ r.at \notin Written => \A k \in Keys : FreshIn(k, rows', cache')
  OBVIOUS
<1>6. calm' => calm
  BY <1>1
<1> QED
  BY <1>1, <1>2, <1>3, <1>4, <1>5, <1>6, StepOf

(* Adding and removing users leaves the answers they are not part of.      *)
LEMMA Unaffected ==
    ASSUME NEW R, NEW A, NEW D, NEW k, \A u \in A \cup D : k \notin KeysOf(u),
           NEW C, FreshIn(k, R, C)
    PROVE  FreshIn(k, (R \ D) \cup A, C)
<1>1. Ans(k, (R \ D) \cup A) = Ans(k, R)
  BY DEF Ans
<1> QED
  BY <1>1 DEF FreshIn

LEMMA InsertInv ==
    ASSUME Inv, NEW h \in Requests, Insert(h)
    PROVE  Inv'
<1> DEFINE q == req[h]
<1>1. q \in Request /\ ReqOK(q) /\ q.at = "insert" /\ UNCHANGED <<cache, calm>>
  BY DEF Insert, At, Inv, TypeOK
<1>2. q.op = "create" /\ q.op \in Changes /\ q.email \subseteq Emails /\ q.by \subseteq People
  BY <1>1 DEF ReqOK, Request, Kinds, Changes, Reading
<1>3. calm => \A k \in Keys : FreshIn(k, rows, cache)
  BY <1>1, FreshBefore DEF Written
<1>4. CASE Finish(h) /\ UNCHANGED rows
  <2>1. Fits(Idle, rows, cache)
    BY IdleFacts, EarlyFits
  <2>2. calm \in BOOLEAN
    BY DEF Inv, TypeOK
  <2>3. req' = [req EXCEPT ![h] = Idle]
    BY <1>4 DEF Finish, Go
  <2> QED
    BY <1>1, <1>3, <1>4, <2>1, <2>2, <2>3, QuietStep
<1>5. ASSUME NEW i \in Ids, NEW e \in q.email, NEW p \in q.by, IsNextId(i), ~Taken(e),
             rows' = rows \cup {[id |-> i, email |-> e, by |-> p]},
             Go(h, [Idle EXCEPT !.op = "create", !.at = "read_back", !.id = i])
      PROVE  Inv'
  <2> DEFINE v == [id |-> i, email |-> e, by |-> p]
  <2> DEFINE r == [Idle EXCEPT !.op = "create", !.at = "read_back", !.id = i]
  <2>1. v \in User /\ v.id = i /\ v.email = e
    BY <1>2, <1>5 DEF User
  <2>2. r \in Request /\ ReqOK(r) /\ r.op = q.op /\ r.at = "read_back" /\ r.id = i
    <3>1. All \in Keys
      BY KeyFacts
    <3> QED
      BY <1>2, <3>1 DEF Idle, Request, ReqOK, Written, Kinds, Changes, Reading
  <2> HIDE DEF r
  <2>3. rows' \subseteq User
    BY <1>5, <2>1 DEF Inv, TypeOK
  <2>4. \A u, w \in rows' : u.id = w.id \/ u.email = w.email => u = w
    <3>1. \A u \in rows : u.id # i /\ u.email # e
      <4>1. \A u \in rows : u.id \in Nat /\ i \in Nat
        BY <1>5, MaxIdAssumption DEF Inv, TypeOK, User, Ids
      <4> QED
        BY <1>5, <4>1 DEF IsNextId, Taken
    <3> QED
      BY <1>5, <2>1, <3>1 DEF Inv, TypeOK
  <2>5. ASSUME calm PROVE Fits(r, rows', cache)
    <3> HIDE DEF v
    <3>1. v \in Ans(ById(i), rows')
      BY <1>5, <2>1, KeyFacts DEF Ans, v
    <3>2. ASSUME NEW k \in Keys, k \notin KeysOf(v) PROVE FreshIn(k, rows', cache)
      <4>1. rows' = (rows \ {}) \cup {v}
        BY <1>5 DEF v
      <4>2. FreshIn(k, rows, cache)
        BY <1>3, <2>5
      <4>3. \A u \in {v} \cup {} : k \notin KeysOf(u)
        BY <3>2
      <4> QED
        BY <4>1, <4>2, <4>3, Unaffected
    <3>3. \A k \in Keys : FreshIn(k, rows', cache) \/ \E u \in Ans(ById(i), rows') : k \in KeysOf(u)
      BY <3>1, <3>2
    <3> QED
      BY <2>2, <3>1, <3>3 DEF Fits
  <2>6. req' = [req EXCEPT ![h] = r]
    BY <1>5 DEF Go, r
  <2>7. r.at \in Written
    BY <2>2 DEF Written
  <2> QED
    BY <1>1, <1>2, <2>2, <2>3, <2>4, <2>5, <2>6, <2>7, WriteStep
<1> QED
  BY <1>4, <1>5 DEF Insert

LEMMA WriteDeleteInv ==
    ASSUME Inv, NEW h \in Requests, WriteDelete(h)
    PROVE  Inv'
<1> DEFINE q == req[h]
<1> DEFINE D == Ans(ById(q.id), rows)
<1> DEFINE r == Resume(q, "forget_all")
<1>1. q \in Request /\ ReqOK(q) /\ q.at = "write" /\ q.op = "delete" /\ q.op \in Changes
  BY DEF WriteDelete, At, Inv, TypeOK, Changes
<1>2. rows' = (rows \ D) \cup {}
  BY KeyFacts DEF WriteDelete, Ans
<1>3. req' = [req EXCEPT ![h] = r] /\ UNCHANGED <<cache, calm>>
  BY DEF WriteDelete, Goto, Go
<1>4. r \in Request /\ ReqOK(r) /\ r.op = q.op /\ r.at = "forget_all"
  BY <1>1, ResumeFacts
<1>5. rows' \subseteq User /\ \A u, v \in rows' : u.id = v.id \/ u.email = v.email => u = v
  BY <1>2 DEF Inv, TypeOK
<1>6. ASSUME calm PROVE Fits(r, rows', cache)
  <2>1. ASSUME NEW k \in Keys, k # All PROVE FreshIn(k, rows', cache)
    <3>1. FreshIn(k, rows, cache)
      BY <1>1, <1>6, FreshBefore DEF Written
    <3>2. CASE \E u \in D : k \in KeysOf(u)
      <4>1. cache[k] = {}
        BY <1>1, <1>6, <2>1, <3>2 DEF Inv, CalmOK, Fits
      <4> QED
        BY <4>1 DEF FreshIn
    <3>3. CASE ~ \E u \in D : k \in KeysOf(u)
      <4>1. \A u \in {} \cup D : k \notin KeysOf(u)
        BY <3>3
      <4> HIDE DEF D
      <4> QED
        BY <1>2, <3>1, <4>1, Unaffected
    <3> QED
      BY <3>2, <3>3
  <2> HIDE DEF r
  <2> QED
    BY <1>4, <2>1 DEF Fits
<1>7. r.at \in Written
  BY <1>4 DEF Written
<1> HIDE DEF r
<1> QED
  BY <1>1, <1>3, <1>4, <1>5, <1>6, <1>7, WriteStep

LEMMA WriteUpdateInv ==
    ASSUME Inv, NEW h \in Requests, WriteUpdate(h)
    PROVE  Inv'
<1> DEFINE q == req[h]
<1> DEFINE D == Ans(ById(q.id), rows)
<1>1. q \in Request /\ ReqOK(q) /\ q.at = "write" /\ q.op = "update" /\ q.op \in Changes
  BY DEF WriteUpdate, At, Inv, TypeOK, Changes
<1>2. UNCHANGED <<cache, calm>> /\ calm \in BOOLEAN /\ q.at # "idle"
  BY <1>1 DEF WriteUpdate, Inv, TypeOK
<1>3. calm => \A k \in Keys : FreshIn(k, rows, cache)
  BY <1>1, FreshBefore DEF Written
<1>4. PICK e \in q.email :
        \/ D = {} /\ Goto(h, "forget_all") /\ UNCHANGED rows
        \/ Finish(h) /\ UNCHANGED rows
        \/ /\ D # {} /\ \A u \in rows \ D : u.email # e
           /\ rows' = (rows \ D) \cup {[u EXCEPT !.email = e] : u \in D}
           /\ Goto(h, "read_back")
  BY AnswerIs DEF WriteUpdate
<1>5. CASE D = {} /\ Goto(h, "forget_all") /\ UNCHANGED rows
  <2> DEFINE r == Resume(q, "forget_all")
  <2>1. req' = [req EXCEPT ![h] = r]
    BY <1>5 DEF Goto, Go
  <2>2. r \in Request /\ ReqOK(r) /\ r.op = q.op /\ r.at = "forget_all"
    BY <1>1, ResumeFacts
  <2> HIDE DEF r
  <2>3. calm => Fits(r, rows, cache)
    BY <1>3, <2>2 DEF Fits
  <2> QED
    BY <1>2, <1>3, <1>5, <2>1, <2>2, <2>3, QuietStep
<1>6. CASE Finish(h) /\ UNCHANGED rows
  <2>1. Fits(Idle, rows, cache)
    BY IdleFacts, EarlyFits
  <2>2. req' = [req EXCEPT ![h] = Idle]
    BY <1>6 DEF Finish, Go
  <2> QED
    BY <1>2, <1>3, <1>6, <2>1, <2>2, QuietStep
<1>7. ASSUME D # {}, \A u \in rows \ D : u.email # e,
             rows' = (rows \ D) \cup {[u EXCEPT !.email = e] : u \in D},
             Goto(h, "read_back")
      PROVE  Inv'
  <2> DEFINE r == Resume(q, "read_back")
  <2>1. req' = [req EXCEPT ![h] = r]
    BY <1>7 DEF Goto, Go
  <2>2. q.id \in Ids /\ e \in Emails
    BY <1>1 DEF ReqOK, Request
  <2>3. r \in Request /\ ReqOK(r) /\ r.op = q.op /\ r.at = "read_back" /\ r.id = q.id
    BY <1>1, <2>2, ResumeFacts
  <2> HIDE DEF r
  <2>4. PICK old \in rows : D = {old} /\ old.id = q.id
    BY <1>7, KeyFacts DEF Inv, TypeOK, Ans
  <2> DEFINE v == [old EXCEPT !.email = e]
  <2>5. v \in User /\ v.id = q.id /\ v.email = e
    BY <2>2, <2>4 DEF Inv, TypeOK, User
  <2>6. rows' = (rows \ {old}) \cup {v}
    BY <1>7, <2>4
  <2> HIDE DEF v
  <2>7. rows' \subseteq User
    BY <2>5, <2>6 DEF Inv, TypeOK
  <2>8. \A u, w \in rows' : u.id = w.id \/ u.email = w.email => u = w
    <3>1. \A u \in rows \ {old} : u.email # e /\ u.id # q.id
      BY <1>7, <2>4 DEF Inv, TypeOK
    <3> QED
      BY <2>5, <2>6, <3>1 DEF Inv, TypeOK
  <2>9. ASSUME calm PROVE Fits(r, rows', cache)
    <3>1. v \in Ans(ById(q.id), rows')
      BY <2>5, <2>6, KeyFacts DEF Ans
    <3>2. ASSUME NEW k \in Keys, k \notin KeysOf(v) PROVE FreshIn(k, rows', cache)
      <4>1. FreshIn(k, rows, cache)
        BY <1>3, <2>9
      <4>2. CASE k \in KeysOf(old)
        <5>1. k # All
          BY <3>2, KeyFacts
        <5>2. cache[k] = {}
          BY <1>1, <2>4, <2>9, <4>2, <5>1 DEF Inv, CalmOK, Fits
        <5> QED
          BY <5>2 DEF FreshIn
      <4>3. CASE k \notin KeysOf(old)
        <5>1. \A u \in {v} \cup {old} : k \notin KeysOf(u)
          BY <3>2, <4>3
        <5> QED
          BY <2>6, <4>1, <5>1, Unaffected
      <4> QED
        BY <4>2, <4>3
    <3>3. \A k \in Keys : FreshIn(k, rows', cache) \/ \E u \in Ans(ById(q.id), rows') : k \in KeysOf(u)
      BY <3>1, <3>2
    <3> QED
      BY <2>3, <3>1, <3>3 DEF Fits
  <2>10. r.at \in Written
    BY <2>3 DEF Written
  <2> QED
    BY <1>1, <1>2, <2>1, <2>3, <2>7, <2>8, <2>9, <2>10, WriteStep
<1> QED
  BY <1>4, <1>5, <1>6, <1>7

-----------------------------------------------------------------------------
LEMMA DropInv ==
    ASSUME Inv, NEW h \in Requests, Drop(h)
    PROVE  Inv'
<1>1. req[h].at # "idle" /\ req' = [req EXCEPT ![h] = Idle] /\ UNCHANGED <<rows, cache>>
  BY DEF Drop, At, Finish, Go
<1>2. (calm' => calm /\ req[h].at \notin Written) /\ calm' \in BOOLEAN
  BY DEF Drop, Inv, TypeOK
<1>3. calm' => \A k \in Keys : FreshIn(k, rows, cache)
  BY <1>1, <1>2, FreshBefore
<1>4. Fits(Idle, rows, cache)
  BY IdleFacts, EarlyFits
<1> QED
  BY <1>1, <1>2, <1>3, <1>4, QuietStep

LEMMA ExpireInv ==
    ASSUME Inv, NEW k \in Keys, Expire(k)
    PROVE  Inv'
<1>1. Forget({k}) /\ UNCHANGED <<rows, req, calm>>
  BY DEF Expire, Forget, Inv, TypeOK
<1>2. /\ cache' \in [Keys -> SUBSET SUBSET User]
      /\ \A j \in Keys : \A s \in cache'[j] : \A u \in s : j \in KeysOf(u)
      /\ \A i \in Ids : {} \notin cache'[ById(i)]
      /\ \A j \in Keys : cache'[j] = IF j \in {k} THEN {} ELSE cache[j]
  BY <1>1, ForgetFacts
<1>3. TypeOK'
  BY <1>1, <1>2 DEF Inv, TypeOK
<1>4. \A j \in Keys : FreshIn(j, rows, cache) => FreshIn(j, rows', cache')
  BY <1>1, <1>2 DEF FreshIn
<1>5. ASSUME CalmOK PROVE CalmOK'
  <2>1. ASSUME NEW h \in Requests, Fits(req[h], rows, cache) PROVE Fits(req[h], rows', cache')
    <3>1. \A u \in rows, j \in Keys : cache[j] = {} => cache'[j] = {}
      BY <1>2
    <3>2. \A u \in rows : KeysOf(u) \subseteq Keys
      BY KeyFacts DEF Inv, TypeOK
    <3>3. Ans(ById(req[h].id), rows) \subseteq rows /\ rows' = rows
      BY <1>1 DEF Ans
    <3>4. req[h].at = "write" => \A u \in Ans(ById(req[h].id), rows) :
             \A j \in KeysOf(u) \ {All} : cache'[j] = {}
      BY <2>1, <3>1, <3>2, <3>3 DEF Fits
    <3> QED
      BY <1>4, <2>1, <3>3, <3>4 DEF Fits
  <2>2. CASE ~calm
    BY <1>1, <2>2 DEF CalmOK
  <2>3. CASE calm
    <3>1. Alone /\ Tidy /\ \A h \in Requests : Fits(req[h], rows, cache)
      BY <1>5, <2>3 DEF CalmOK
    <3>2. Alone'
      BY <1>1, <3>1 DEF Alone
    <3>3. Tidy'
      BY <1>1, <1>4, <3>1 DEF Tidy
    <3>4. \A h \in Requests : Fits(req'[h], rows', cache')
      BY <1>1, <2>1, <3>1
    <3> QED
      BY <3>2, <3>3, <3>4 DEF CalmOK
  <2> QED
    BY <2>2, <2>3
<1> QED
  BY <1>1, <1>3, <1>5 DEF Inv

LEMMA RestartInv ==
    ASSUME Inv, Restart
    PROVE  Inv'
<1>1. \A h \in Requests : req'[h] = Idle
  BY DEF Restart
<1>2. \A k \in Keys : cache'[k] = {}
  BY DEF Restart
<1>3. TypeOK'
  <2>1. \A i \in Ids : ById(i) \in Keys
    BY KeyFacts
  <2> QED
    BY <1>2, <2>1, IdleFacts DEF Restart, Inv, TypeOK
<1>4. (\A h \in Requests : ReqOK(req[h]))'
  BY <1>1, IdleFacts
<1>5. CalmOK'
  <2>1. Alone'
    BY <1>1, IdleFacts DEF Alone
  <2>2. Tidy'
    BY <1>2 DEF Tidy, FreshIn
  <2>3. \A h \in Requests : Fits(req'[h], rows', cache')
    BY <1>1, IdleFacts, EarlyFits
  <2> QED
    BY <2>1, <2>2, <2>3 DEF CalmOK
<1> QED
  BY <1>3, <1>4, <1>5 DEF Inv

LEMMA StutterInv ==
    ASSUME Inv, UNCHANGED vars
    PROVE  Inv'
<1>1. rows' = rows /\ cache' = cache /\ req' = req /\ calm' = calm
  BY DEF vars
<1>2. TypeOK'
  BY <1>1 DEF Inv, TypeOK
<1>3. CalmOK'
  BY <1>1 DEF Inv, CalmOK, Alone, Tidy
<1> QED
  BY <1>1, <1>2, <1>3 DEF Inv

(* The inductive invariant: what requests in progress know of the table,   *)
(* and which entries may be stale while a change is on its way.            *)
THEOREM Invariance == Spec => []Inv
<1>1. Inv /\ [Next]_vars => Inv'
  <2> SUFFICES ASSUME Inv, [Next]_vars PROVE Inv'
    OBVIOUS
  <2>1. ASSUME NEW h \in Requests, Change(h) PROVE Inv'
    BY <2>1, InsertInv, LookOldInv, SelectOldInv, ForgetOldInv, WriteUpdateInv,
       WriteDeleteInv, ReadBackInv, ForgetNewInv, ForgetAllInv DEF Change
  <2>2. ASSUME NEW h \in Requests, NEW bypass \in BOOLEAN, Look(h, bypass) PROVE Inv'
    BY <2>2, LookInv
  <2> QED
    BY <2>1, <2>2, StartInv, SelectInv, FillInv, DropInv, ExpireInv, RestartInv, StutterInv
       DEF Next
<1> QED
  BY <1>1, InitInv, PTL DEF Spec

(* Types; ids and addresses are unique for any number of sign-ups and      *)
(* changes at once, and no entry answers another key than its own.         *)
THEOREM AccountTyping == Spec => []TypeOK
<1>1. Inv => TypeOK
  BY DEF Inv
<1> QED
  BY <1>1, Invariance, PTL

(* As long as changes neither overlap other requests nor are cut short,    *)
(* create_user, update_user and delete_user forget every entry they make   *)
(* stale, for any number of accounts, addresses and concurrent lookups.    *)
THEOREM CalmCaches == Spec => []CalmIsFresh
<1>1. Inv => CalmIsFresh
  BY AnswerIs DEF Inv, CalmOK, Tidy, CalmIsFresh
<1> QED
  BY <1>1, Invariance, PTL
=============================================================================
