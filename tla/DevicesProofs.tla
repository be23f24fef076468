--------------------------- MODULE DevicesProofs ----------------------------
(***************************************************************************)
(* The device limit, proved for every number of users, of device ids, of   *)
(* concurrent requests and for every limit.                                *)
(***************************************************************************)
EXTENDS Devices, FiniteSetTheorems, TLAPS

(* A request is about one device.                                          *)
OneEach == \A h \in Handlers : \A p, q \in req[h].who : p = q

(* The devices on their way into a user's rows. The limit bounds them      *)
(* together with his rows, which alone is not inductive.                   *)
Coming(u) == {d \in Ids : \E h \in Handlers : At(h, "insert") /\ <<u, d>> \in req[h].who}
Known(u) == devices[u] \cup Coming(u)
Budget == \A u \in Users :
    /\ IsFiniteSet(Known(u))
    /\ Cardinality(Known(u)) <= Max - 1 + Cardinality(Handlers)

-----------------------------------------------------------------------------
(* A handler's next request.                                               *)
LEMMA GoTyped ==
    ASSUME TypeOK, OneEach, NEW h \in Handlers, NEW s \in Steps,
           NEW u \in Users, NEW d \in Ids, Go(h, s, u, d)
    PROVE  /\ req' \in [Handlers -> Request]
           /\ OneEach'
           /\ req'[h] = [at |-> s, who |-> {<<u, d>>}]
           /\ \A g \in Handlers \ {h} : req'[g] = req[g]
<1> DEFINE r == [at |-> s, who |-> {<<u, d>>}]
<1>1. r \in Request
  BY DEF Request
<1>2. req' = [req EXCEPT ![h] = r] /\ req \in [Handlers -> Request]
  BY DEF Go, TypeOK
<1>3. r.who = {<<u, d>>}
  OBVIOUS
<1> HIDE DEF r
<1>4. /\ req' \in [Handlers -> Request] /\ req'[h] = r
      /\ \A g \in Handlers \ {h} : req'[g] = req[g]
  BY <1>1, <1>2
<1>5. OneEach'
  BY <1>3, <1>4 DEF OneEach
<1> QED
  BY <1>4, <1>5 DEF r

LEMMA FinishTyped ==
    ASSUME TypeOK, OneEach, NEW h \in Handlers, Finish(h)
    PROVE  /\ req' \in [Handlers -> Request]
           /\ OneEach'
           /\ req'[h] = Idle
           /\ \A g \in Handlers \ {h} : req'[g] = req[g]
<1>1. Idle \in Request
  BY DEF Idle, Request, Steps
<1>2. req' = [req EXCEPT ![h] = Idle] /\ req \in [Handlers -> Request]
  BY DEF Finish, TypeOK
<1>3. /\ req' \in [Handlers -> Request] /\ req'[h] = Idle
      /\ \A g \in Handlers \ {h} : req'[g] = req[g]
  BY <1>1, <1>2
<1>4. OneEach'
  BY <1>3 DEF OneEach, Idle
<1> QED
  BY <1>3, <1>4

LEMMA Whose ==
    ASSUME TypeOK, NEW h \in Handlers, NEW p \in req[h].who
    PROVE  p \in Users \X Ids /\ p[1] \in Users /\ p[2] \in Ids /\ p = <<p[1], p[2]>>
<1>1. p \in Users \X Ids
  BY DEF TypeOK, Request
<1> QED
  BY <1>1

-----------------------------------------------------------------------------
LEMMA TypeStep ==
    ASSUME TypeOK, OneEach, [Next]_vars
    PROVE  TypeOK' /\ OneEach'
<1>1. CASE UNCHANGED vars
  BY <1>1 DEF vars, TypeOK, OneEach
<1>2. ASSUME NEW h \in Handlers, NEW u \in Users, NEW d \in Ids,
             Find(h, u, d) \/ DeleteKeys(h, u, d) \/ Belongs(h, u, d)
      PROVE  TypeOK' /\ OneEach'
  <2>1. PICK s \in Steps : Go(h, s, u, d)
    BY <1>2 DEF Find, DeleteKeys, Belongs, Steps
  <2>2. req' \in [Handlers -> Request] /\ OneEach'
    BY <2>1, GoTyped
  <2>3. UNCHANGED <<users, devices>> /\ keys' \subseteq keys
    BY <1>2 DEF Find, DeleteKeys, Belongs
  <2> QED
    BY <2>2, <2>3 DEF TypeOK
<1>3. ASSUME NEW h \in Handlers, Count(h) PROVE TypeOK' /\ OneEach'
  <2>1. PICK p \in req[h].who : Finish(h) \/ Go(h, "insert", p[1], p[2])
    BY <1>3 DEF Count
  <2>2. p[1] \in Users /\ p[2] \in Ids
    BY Whose
  <2>3. req' \in [Handlers -> Request] /\ OneEach'
    BY <2>1, <2>2, GoTyped, FinishTyped DEF Steps
  <2> QED
    BY <1>3, <2>3 DEF TypeOK, Count
<1>4. ASSUME NEW h \in Handlers, Insert(h) PROVE TypeOK' /\ OneEach'
  <2>1. PICK p \in req[h].who :
          devices' = IF p[1] \in users THEN [devices EXCEPT ![p[1]] = @ \cup {p[2]}] ELSE devices
    BY <1>4 DEF Insert
  <2>2. p[1] \in Users /\ p[2] \in Ids
    BY Whose
  <2>3. req' \in [Handlers -> Request] /\ OneEach' /\ UNCHANGED <<users, keys>>
    BY <1>4, FinishTyped DEF Insert
  <2>4. devices' \in [Users -> SUBSET Ids] /\ \A u \in Users : devices[u] \subseteq devices'[u]
    BY <2>1, <2>2 DEF TypeOK
  <2> QED
    BY <2>3, <2>4 DEF TypeOK
<1>5. ASSUME NEW h \in Handlers, DeleteDevice(h) PROVE TypeOK' /\ OneEach'
  <2>1. PICK p \in req[h].who : /\ devices' = [devices EXCEPT ![p[1]] = @ \ {p[2]}]
                                /\ keys' = keys \ {p}
    BY <1>5 DEF DeleteDevice
  <2>2. p[1] \in Users /\ p[2] \in Ids /\ p = <<p[1], p[2]>>
    BY Whose
  <2>3. req' \in [Handlers -> Request] /\ OneEach' /\ UNCHANGED users
    BY <1>5, FinishTyped DEF DeleteDevice
  <2>4. devices' \in [Users -> SUBSET Ids]
    BY <2>1, <2>2 DEF TypeOK
  <2>5. ASSUME NEW q \in keys' PROVE q \in Users \X Ids /\ q[2] \in devices'[q[1]]
    <3>1. q \in Users \X Ids /\ q[2] \in devices[q[1]] /\ q # p
      BY <2>1, <2>5 DEF TypeOK
    <3>2. ~(q[1] = p[1] /\ q[2] = p[2])
      BY <2>2, <3>1
    <3> QED
      BY <2>1, <2>2, <3>1, <3>2 DEF TypeOK
  <2> QED
    BY <2>3, <2>4, <2>5 DEF TypeOK
<1>6. ASSUME NEW h \in Handlers, Store(h) PROVE TypeOK' /\ OneEach'
  <2>1. PICK p \in req[h].who : keys' = IF p[2] \in devices[p[1]] THEN keys \cup {p} ELSE keys
    BY <1>6 DEF Store
  <2>2. p \in Users \X Ids
    BY Whose
  <2>3. req' \in [Handlers -> Request] /\ OneEach' /\ UNCHANGED <<users, devices>>
    BY <1>6, FinishTyped DEF Store
  <2> QED
    BY <2>1, <2>2, <2>3 DEF TypeOK
<1>7. ASSUME NEW h \in Handlers, Drop(h) PROVE TypeOK' /\ OneEach'
  BY <1>7, FinishTyped DEF Drop, TypeOK
<1>8. ASSUME NEW u \in Users, DeleteUser(u) PROVE TypeOK' /\ OneEach'
  <2>1. devices' \in [Users -> SUBSET Ids] /\ \A v \in Users \ {u} : devices'[v] = devices[v]
    BY <1>8 DEF DeleteUser, TypeOK
  <2>2. \A q \in keys' : q \in keys /\ q[1] # u
    BY <1>8 DEF DeleteUser
  <2>3. \A q \in keys' : q \in Users \X Ids /\ q[2] \in devices'[q[1]]
    BY <2>1, <2>2 DEF TypeOK
  <2> QED
    BY <1>8, <2>1, <2>3 DEF DeleteUser, TypeOK, OneEach
<1>9. CASE Restart
  <2>1. req' = [h \in Handlers |-> Idle] /\ Idle \in Request /\ Idle.who = {}
    BY <1>9 DEF Restart, Idle, Request, Steps
  <2> QED
    BY <1>9, <2>1 DEF Restart, TypeOK, OneEach
<1> QED
  BY <1>1, <1>2, <1>3, <1>4, <1>5, <1>6, <1>7, <1>8, <1>9 DEF Next, Handler

LEMMA InitTyped == Init => TypeOK /\ OneEach
BY DEF Init, TypeOK, OneEach, Idle, Request, Steps

(* Types, and that every copy of a key is one for a registered device.     *)
THEOREM DevicesTyping == Spec => []TypeOK
<1>1. TypeOK /\ OneEach /\ [Next]_vars => (TypeOK /\ OneEach)'
  BY TypeStep
<1> QED
  BY <1>1, InitTyped, PTL DEF Spec

-----------------------------------------------------------------------------
(* There are never more devices on their way than requests in progress.    *)
LEMMA ComingFew ==
    ASSUME NEW r, \A h \in Handlers : \A p, q \in r[h].who : p = q, NEW u \in Users
    PROVE  LET C == {d \in Ids : \E h \in Handlers : r[h].at = "insert" /\ <<u, d>> \in r[h].who}
           IN  IsFiniteSet(C) /\ Cardinality(C) <= Cardinality(Handlers)
<1> DEFINE C == {d \in Ids : \E h \in Handlers : r[h].at = "insert" /\ <<u, d>> \in r[h].who}
           f == [h \in Handlers |-> CHOOSE d \in Ids : <<u, d>> \in r[h].who]
           T == {f[h] : h \in Handlers}
<1>1. f \in Surjection(Handlers, T)
  BY DEF Surjection
<1>2. IsFiniteSet(T) /\ Cardinality(T) <= Cardinality(Handlers)
  BY <1>1, LimitAssumption, FS_Surjection
<1>3. ASSUME NEW d \in C PROVE d \in T
  <2>1. PICK h \in Handlers : <<u, d>> \in r[h].who
    OBVIOUS
  <2>2. f[h] \in Ids /\ <<u, f[h]>> \in r[h].who
    BY <2>1
  <2>3. f[h] = d
    BY <2>1, <2>2
  <2> QED
    BY <2>3
<1>4. C \in SUBSET T
  BY <1>3
<1> HIDE DEF C, T, f
<1>5. IsFiniteSet(C) /\ Cardinality(C) <= Cardinality(T)
  BY <1>2, <1>4, FS_Subset
<1>6. Cardinality(C) \in Nat /\ Cardinality(T) \in Nat /\ Cardinality(Handlers) \in Nat
  BY <1>2, <1>5, LimitAssumption, FS_CardinalityType
<1>7. Cardinality(C) <= Cardinality(Handlers)
  BY <1>2, <1>5, <1>6
<1> QED
  BY <1>5, <1>7 DEF C

(* A user with fewer devices than the limit may get one from every request *)
(* in progress.                                                            *)
LEMMA Fits ==
    ASSUME NEW S, IsFiniteSet(S), NEW T, IsFiniteSet(T), Cardinality(S) < Max,
           Cardinality(T) <= Cardinality(Handlers)
    PROVE  IsFiniteSet(S \cup T) /\ Cardinality(S \cup T) <= Max - 1 + Cardinality(Handlers)
<1>1. /\ IsFiniteSet(S \cup T)
      /\ Cardinality(S \cup T) = Cardinality(S) + Cardinality(T) - Cardinality(S \cap T)
  BY FS_Union
<1>2. IsFiniteSet(S \cap T)
  BY FS_Intersection
<1>3. Cardinality(S) \in Nat /\ Cardinality(T) \in Nat /\ Cardinality(S \cap T) \in Nat
      /\ Cardinality(Handlers) \in Nat /\ Max \in Nat
  BY <1>2, LimitAssumption, FS_CardinalityType
<1> QED
  BY <1>1, <1>3

(* What does not make a user's devices more keeps the bound.               *)
LEMMA Fewer ==
    ASSUME Budget, \A u \in Users : Known(u)' \subseteq Known(u)
    PROVE  Budget'
<1>1. ASSUME NEW u \in Users
      PROVE  /\ IsFiniteSet(Known(u)')
             /\ Cardinality(Known(u)') <= Max - 1 + Cardinality(Handlers)
  <2>1. /\ IsFiniteSet(Known(u)) /\ Known(u)' \in SUBSET Known(u)
        /\ Cardinality(Known(u)) <= Max - 1 + Cardinality(Handlers)
    BY DEF Budget
  <2>2. IsFiniteSet(Known(u)') /\ Cardinality(Known(u)') <= Cardinality(Known(u))
    BY <2>1, FS_Subset
  <2>3. /\ Cardinality(Known(u)') \in Nat /\ Cardinality(Known(u)) \in Nat
        /\ Cardinality(Handlers) \in Nat /\ Max \in Nat
    BY <2>1, <2>2, LimitAssumption, FS_CardinalityType
  <2> QED
    BY <2>1, <2>2, <2>3
<1> QED
  BY <1>1 DEF Budget

(* A handler that does not come to insert brings no device.                *)
LEMMA ComingKept ==
    ASSUME NEW h \in Handlers, req'[h].at # "insert",
           \A g \in Handlers \ {h} : req'[g] = req[g], NEW u \in Users
    PROVE  Coming(u)' \subseteq Coming(u)
BY DEF Coming, At

LEMMA BudgetStep ==
    ASSUME TypeOK, OneEach, Budget, [Next]_vars
    PROVE  Budget'
<1>0. OneEach'
  BY TypeStep
<1>1. CASE UNCHANGED vars
  BY <1>1, Fewer DEF vars, Known, Coming, At
<1>2. ASSUME NEW h \in Handlers, NEW u \in Users, NEW d \in Ids, Find(h, u, d)
      PROVE  Budget'
  <2>1. PICK s \in {"insert", "count"} : Go(h, s, u, d) /\ (s = "insert" => d \in devices[u])
    BY <1>2 DEF Find
  <2>2. /\ req'[h] = [at |-> s, who |-> {<<u, d>>}]
        /\ \A g \in Handlers \ {h} : req'[g] = req[g]
    BY <2>1, GoTyped DEF Steps
  <2>3. devices' = devices
    BY <1>2 DEF Find
  <2>4. ASSUME NEW v \in Users, NEW e \in Known(v)' PROVE e \in Known(v)
    <3>1. CASE e \in devices'[v]
      BY <2>3, <3>1 DEF Known
    <3>2. CASE e \in Coming(v)'
      <4>1. PICK g \in Handlers : req'[g].at = "insert" /\ <<v, e>> \in req'[g].who
        BY <3>2 DEF Coming, At
      <4>2. CASE g = h
        BY <2>1, <2>2, <4>1, <4>2 DEF Known
      <4>3. CASE g # h
        BY <2>2, <3>2, <4>1, <4>3 DEF Known, Coming, At
      <4> QED
        BY <4>2, <4>3
    <3> QED
      BY <2>4, <3>1, <3>2 DEF Known
  <2> QED
    BY <2>4, Fewer
<1>3. ASSUME NEW h \in Handlers, NEW u \in Users, NEW d \in Ids,
             DeleteKeys(h, u, d) \/ Belongs(h, u, d)
      PROVE  Budget'
  <2>1. PICK s \in {"forget", "store"} : Go(h, s, u, d)
    BY <1>3 DEF DeleteKeys, Belongs
  <2>2. req'[h].at # "insert" /\ \A g \in Handlers \ {h} : req'[g] = req[g]
    <3>1. s \in Steps /\ s # "insert"
      BY DEF Steps
    <3>2. req'[h] = [at |-> s, who |-> {<<u, d>>}] /\ \A g \in Handlers \ {h} : req'[g] = req[g]
      BY <2>1, <3>1, GoTyped
    <3> QED
      BY <3>1, <3>2
  <2>3. devices' = devices
    BY <1>3 DEF DeleteKeys, Belongs
  <2> QED
    BY <2>2, <2>3, ComingKept, Fewer DEF Known
<1>4. ASSUME NEW h \in Handlers, Count(h) PROVE Budget'
  <2>1. PICK p \in req[h].who :
          IF Cardinality(devices[p[1]]) >= Max THEN Finish(h) ELSE Go(h, "insert", p[1], p[2])
    BY <1>4 DEF Count
  <2>2. p[1] \in Users /\ p[2] \in Ids /\ devices' = devices
    BY <1>4, Whose DEF Count
  <2>3. CASE Finish(h)
    <3>1. req'[h].at # "insert" /\ \A g \in Handlers \ {h} : req'[g] = req[g]
      BY <2>3, FinishTyped DEF Idle
    <3> QED
      BY <2>2, <3>1, ComingKept, Fewer DEF Known
  <2>4. CASE Go(h, "insert", p[1], p[2]) /\ ~(Cardinality(devices[p[1]]) >= Max)
    <3>1. /\ req'[h] = [at |-> "insert", who |-> {<<p[1], p[2]>>}]
          /\ \A g \in Handlers \ {h} : req'[g] = req[g]
      BY <2>2, <2>4, GoTyped DEF Steps
    <3>2. ASSUME NEW v \in Users
          PROVE  /\ IsFiniteSet(Known(v)')
                 /\ Cardinality(Known(v)') <= Max - 1 + Cardinality(Handlers)
      <4>1. IsFiniteSet(Known(v)) /\ devices[v] \in SUBSET Known(v)
        BY DEF Budget, Known
      <4>2. CASE v = p[1]
        <5>1. IsFiniteSet(devices[v])
          BY <4>1, FS_Subset
        <5>2. Cardinality(devices[v]) < Max
          BY <2>4, <4>2, <5>1, LimitAssumption, FS_CardinalityType
        <5>3. IsFiniteSet(Coming(v)') /\ Cardinality(Coming(v)') <= Cardinality(Handlers)
          BY <1>0, ComingFew DEF OneEach, Coming, At
        <5> QED
          BY <2>2, <5>1, <5>2, <5>3, Fits DEF Known
      <4>3. CASE v # p[1]
        <5>1. Coming(v)' \subseteq Coming(v)
          BY <3>1, <4>3 DEF Coming, At
        <5>2. Known(v)' \in SUBSET Known(v)
          BY <2>2, <5>1 DEF Known
        <5>3. IsFiniteSet(Known(v)') /\ Cardinality(Known(v)') <= Cardinality(Known(v))
          BY <4>1, <5>2, FS_Subset
        <5>4. /\ Cardinality(Known(v)') \in Nat /\ Cardinality(Known(v)) \in Nat
              /\ Cardinality(Handlers) \in Nat /\ Max \in Nat
          BY <4>1, <5>3, LimitAssumption, FS_CardinalityType
        <5> QED
          BY <5>3, <5>4 DEF Budget
      <4> QED
        BY <4>2, <4>3
    <3> QED
      BY <3>2 DEF Budget
  <2> QED
    BY <2>1, <2>3, <2>4
<1>5. ASSUME NEW h \in Handlers, Insert(h) PROVE Budget'
  <2>1. PICK p \in req[h].who :
          devices' = IF p[1] \in users THEN [devices EXCEPT ![p[1]] = @ \cup {p[2]}] ELSE devices
    BY <1>5 DEF Insert
  <2>2. p[1] \in Users /\ p[2] \in Ids /\ p = <<p[1], p[2]>>
    BY Whose
  <2>3. p[2] \in Coming(p[1])
    BY <1>5, <2>2 DEF Coming, Insert
  <2>4. req'[h].at # "insert" /\ \A g \in Handlers \ {h} : req'[g] = req[g]
    BY <1>5, FinishTyped DEF Insert, Idle
  <2>5. ASSUME NEW v \in Users PROVE devices'[v] \subseteq Known(v)
    <3>1. devices'[v] \subseteq devices[v] \cup (IF v = p[1] THEN {p[2]} ELSE {})
      BY <2>1, <2>2 DEF TypeOK
    <3> QED
      BY <2>3, <3>1 DEF Known
  <2> QED
    BY <2>4, <2>5, ComingKept, Fewer DEF Known
<1>6. ASSUME NEW h \in Handlers, DeleteDevice(h) \/ Store(h) \/ Drop(h) PROVE Budget'
  <2>1. req'[h].at # "insert" /\ \A g \in Handlers \ {h} : req'[g] = req[g]
    BY <1>6, FinishTyped DEF DeleteDevice, Store, Drop, Idle
  <2>2. ASSUME NEW v \in Users PROVE devices'[v] \subseteq devices[v]
    <3>1. CASE DeleteDevice(h)
      <4>1. PICK p \in req[h].who : devices' = [devices EXCEPT ![p[1]] = @ \ {p[2]}]
        BY <3>1 DEF DeleteDevice
      <4> QED
        BY <4>1, Whose DEF TypeOK
    <3>2. CASE Store(h) \/ Drop(h)
      BY <3>2 DEF Store, Drop
    <3> QED
      BY <1>6, <3>1, <3>2
  <2> QED
    BY <2>1, <2>2, ComingKept, Fewer DEF Known
<1>7. ASSUME NEW u \in Users, DeleteUser(u) PROVE Budget'
  <2>1. req' = req /\ \A v \in Users : devices'[v] \subseteq devices[v]
    BY <1>7 DEF DeleteUser, TypeOK
  <2> QED
    BY <2>1, Fewer DEF Known, Coming, At
<1>8. CASE Restart
  <2>1. devices' = devices /\ \A h \in Handlers : req'[h].at # "insert"
    BY <1>8 DEF Restart, Idle
  <2> QED
    BY <2>1, Fewer DEF Known, Coming, At
<1> QED
  BY <1>1, <1>2, <1>3, <1>4, <1>5, <1>6, <1>7, <1>8 DEF Next, Handler

(* No user ever has more devices than the limit, but for the requests that *)
(* were in progress when it was reached.                                   *)
THEOREM DevicesLimit == Spec => []LimitBounded
<1>1. Init => Budget
  <2>1. SUFFICES ASSUME Init, NEW u \in Users
                 PROVE  /\ IsFiniteSet(Known(u))
                        /\ Cardinality(Known(u)) <= Max - 1 + Cardinality(Handlers)
    BY DEF Budget
  <2>2. Known(u) = {}
    BY <2>1 DEF Init, Known, Coming, At, Idle
  <2> QED
    BY <2>2, FS_EmptySet, FS_CardinalityType, LimitAssumption
<1>2. TypeOK /\ OneEach /\ Budget /\ [Next]_vars => (TypeOK /\ OneEach /\ Budget)'
  BY TypeStep, BudgetStep
<1>3. Budget => LimitBounded
  <2>1. SUFFICES ASSUME Budget, NEW u \in Users
                 PROVE  Cardinality(devices[u]) <= Max - 1 + Cardinality(Handlers)
    BY DEF LimitBounded
  <2>2. IsFiniteSet(Known(u)) /\ devices[u] \in SUBSET Known(u)
    BY <2>1 DEF Budget, Known
  <2>3. IsFiniteSet(devices[u]) /\ Cardinality(devices[u]) <= Cardinality(Known(u))
    BY <2>2, FS_Subset
  <2>4. /\ Cardinality(devices[u]) \in Nat /\ Cardinality(Known(u)) \in Nat
        /\ Cardinality(Handlers) \in Nat /\ Max \in Nat
    BY <2>2, <2>3, LimitAssumption, FS_CardinalityType
  <2> QED
    BY <2>1, <2>3, <2>4 DEF Budget
<1> QED
  BY <1>1, <1>2, <1>3, InitTyped, PTL DEF Spec
=============================================================================
