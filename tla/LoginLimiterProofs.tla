------------------------- MODULE LoginLimiterProofs -------------------------
(***************************************************************************)
(* The login limit, proved for every number of accounts, of concurrent     *)
(* logins, of permitted failures and of ticks.                             *)
(***************************************************************************)
EXTENDS LoginLimiter, FiniteSetTheorems, TLAPS

(* The counts, ages and attempts in progress keep their types.             *)
THEOREM LimiterTyping == Spec => []TypeOK
<1>1. Init => TypeOK
  BY LimitsAssumption DEF Init, TypeOK
<1>2. TypeOK /\ [Next]_vars => TypeOK'
  <2> SUFFICES ASSUME TypeOK, [Next]_vars PROVE TypeOK'
    OBVIOUS
  <2> USE LimitsAssumption DEF TypeOK
  <2>1. CASE UNCHANGED vars
    BY <2>1 DEF vars
  <2>2. ASSUME NEW h \in Handlers, NEW k \in Keys, Submit(h, k) PROVE TypeOK'
    BY <2>2 DEF Submit
  <2>3. ASSUME NEW h \in Handlers, Reject(h) PROVE TypeOK'
    <3>1. PICK k \in trying[h] : Record(k)
      BY <2>3 DEF Reject
    <3>2. k \in Keys /\ trying' \in [Handlers -> {{}} \cup {{j} : j \in Keys}]
      BY <2>3 DEF Reject
    <3>3. attempts' \in [Keys -> Nat] /\ age' \in [Keys -> 0 .. Window]
      BY <3>1, <3>2 DEF Record
    <3> QED BY <3>2, <3>3
  <2>4. ASSUME NEW h \in Handlers, Accept(h) PROVE TypeOK'
    BY <2>4 DEF Accept
  <2>5. ASSUME NEW h \in Handlers, Drop(h) PROVE TypeOK'
    BY <2>5 DEF Drop
  <2>6. CASE Tick
    BY <2>6 DEF Tick, Running
  <2>7. CASE Restart
    BY <2>7 DEF Restart
  <2> QED BY <2>1, <2>2, <2>3, <2>4, <2>5, <2>6, <2>7 DEF Next, Handler
<1> QED BY <1>1, <1>2, PTL DEF Spec

-----------------------------------------------------------------------------
(* The logins that passed the check for k and have not been counted yet.   *)
Trying(k) == {h \in Handlers : trying[h] = {k}}

(* What makes the bound inductive: while an entry's window runs, the       *)
(* failures it counted and those it may still have to count are bounded    *)
(* together.                                                               *)
Room == Max - 1 + Cardinality(Handlers)
Budget == \A k \in Keys :
    /\ attempts[k] <= Room
    /\ Running(k) => attempts[k] + Cardinality(Trying(k)) <= Room

LEMMA TryingFinite ==
    ASSUME NEW k \in Keys
    PROVE  /\ IsFiniteSet(Trying(k))
           /\ Cardinality(Trying(k)) \in Nat
           /\ Cardinality(Handlers) \in Nat
           /\ Cardinality(Trying(k)) <= Cardinality(Handlers)
<1>1. Trying(k) \subseteq Handlers
  BY DEF Trying
<1> QED BY <1>1, LimitsAssumption, FS_Subset, FS_CardinalityType

(* A handler tries at most one key.                                        *)
LEMMA TryingOne ==
    ASSUME TypeOK, NEW h \in Handlers, NEW k \in trying[h]
    PROVE  k \in Keys /\ trying[h] = {k}
<1>1. trying[h] = {} \/ \E j \in Keys : trying[h] = {j}
  BY DEF TypeOK
<1> QED BY <1>1

(* One login more, or one less, that is being tried for k.                 *)
LEMMA TryingGrows ==
    ASSUME TypeOK, NEW k \in Keys, NEW h \in Handlers, trying[h] = {},
           trying' = [trying EXCEPT ![h] = {k}]
    PROVE  /\ Cardinality(Trying(k)') = Cardinality(Trying(k)) + 1
           /\ \A j \in Keys \ {k} : Trying(j)' = Trying(j)
<1>1. Trying(k)' = Trying(k) \cup {h} /\ h \notin Trying(k)
  BY DEF Trying, TypeOK
<1>2. \A j \in Keys \ {k} : Trying(j)' = Trying(j)
  BY DEF Trying, TypeOK
<1> QED BY <1>1, <1>2, TryingFinite, FS_AddElement

LEMMA TryingShrinks ==
    ASSUME TypeOK, NEW k \in Keys, NEW h \in Handlers, trying[h] = {k},
           trying' = [trying EXCEPT ![h] = {}]
    PROVE  /\ Cardinality(Trying(k)') = Cardinality(Trying(k)) - 1
           /\ \A j \in Keys \ {k} : Trying(j)' = Trying(j)
<1>1. Trying(k)' = Trying(k) \ {h} /\ h \in Trying(k)
  BY DEF Trying, TypeOK
<1>2. \A j \in Keys \ {k} : Trying(j)' = Trying(j)
  BY DEF Trying, TypeOK
<1> QED BY <1>1, <1>2, TryingFinite, FS_RemoveElement

(* Concurrent logins can exceed the limit by at most their number less     *)
(* one: is_allowed and record_attempt are never further apart than that.   *)
THEOREM LimiterOverrun == Spec => []OverrunBounded
<1>1. Init => Budget
  <2> SUFFICES ASSUME Init, NEW k \in Keys
               PROVE  attempts[k] <= Room /\ ~Running(k)
    BY DEF Budget
  <2> QED BY TryingFinite, LimitsAssumption DEF Init, Running, Room
<1>2. TypeOK /\ TypeOK' /\ Budget /\ [Next]_vars => Budget'
  <2> SUFFICES ASSUME TypeOK, TypeOK', Budget, [Next]_vars PROVE Budget'
    OBVIOUS
  <2>0. /\ Max \in Nat \ {0} /\ Window \in Nat \ {0}
        /\ \A k \in Keys : attempts[k] \in Nat /\ age[k] \in 0 .. Window
    BY LimitsAssumption DEF TypeOK
  <2>1. CASE UNCHANGED vars
    BY <2>1 DEF vars, Budget, Trying, Running, Room
  <2>2. ASSUME NEW h \in Handlers, NEW j \in Keys, Submit(h, j) PROVE Budget'
    <3>1. /\ Cardinality(Trying(j)') = Cardinality(Trying(j)) + 1
          /\ \A k \in Keys \ {j} : Trying(k)' = Trying(k)
      BY <2>2, TryingGrows DEF Submit
    <3>2. Cardinality(Trying(j)') <= Cardinality(Handlers)
      <4>1. Trying(j)' \subseteq Handlers
        BY DEF Trying
      <4> QED BY <4>1, LimitsAssumption, FS_Subset
    <3>3. attempts' = attempts /\ age' = age /\ (Running(j) => attempts[j] < Max)
      BY <2>2 DEF Submit, Allowed, Running
    <3> QED BY <2>0, <3>1, <3>2, <3>3, TryingFinite DEF Budget, Running, Room
  <2>3. ASSUME NEW h \in Handlers, Reject(h) PROVE Budget'
    <3>0. PICK j \in trying[h] : Record(j)
      BY <2>3 DEF Reject
    <3>1. j \in Keys /\ trying[h] = {j} /\ Record(j)
      BY <3>0, TryingOne
    <3>2. /\ Cardinality(Trying(j)') = Cardinality(Trying(j)) - 1
          /\ \A k \in Keys \ {j} : Trying(k)' = Trying(k)
      BY <2>3, <3>1, TryingShrinks DEF Reject
    <3>3. \A k \in Keys \ {j} : attempts'[k] = attempts[k] /\ age'[k] = age[k]
      BY <3>1 DEF Record, TypeOK
    <3>4. /\ attempts'[j] = 1 \/ (Running(j) /\ attempts'[j] = attempts[j] + 1)
          /\ attempts'[j] \in Nat
      BY <2>0, <3>1 DEF Record, TypeOK, Running
    <3>5. attempts'[j] + Cardinality(Trying(j)') <= Room
      <4>1. /\ Cardinality(Trying(j)) \in Nat /\ Cardinality(Handlers) \in Nat
            /\ Cardinality(Trying(j)) <= Cardinality(Handlers)
        BY <3>1, TryingFinite
      <4>2. CASE attempts'[j] = 1
        BY <2>0, <3>2, <4>1, <4>2 DEF Room
      <4>3. CASE Running(j) /\ attempts'[j] = attempts[j] + 1
        <5>1. attempts[j] + Cardinality(Trying(j)) <= Room /\ attempts[j] \in Nat
          BY <2>0, <3>1, <4>3 DEF Budget
        <5> QED BY <2>0, <3>2, <4>1, <4>3, <5>1 DEF Room
      <4> QED BY <3>4, <4>2, <4>3
    <3>6. Cardinality(Trying(j)') \in Nat
      <4>1. Trying(j)' \subseteq Handlers
        BY DEF Trying
      <4> QED BY <4>1, LimitsAssumption, FS_Subset, FS_CardinalityType
    <3> QED BY <2>0, <3>2, <3>3, <3>4, <3>5, <3>6, TryingFinite DEF Budget, Running, Room
  <2>4. ASSUME NEW h \in Handlers, Accept(h) PROVE Budget'
    <3>0. PICK j \in trying[h] : /\ attempts' = [attempts EXCEPT ![j] = 0]
                                 /\ age' = [age EXCEPT ![j] = 0]
      BY <2>4 DEF Accept
    <3>1. j \in Keys /\ trying[h] = {j}
      BY TryingOne
    <3>2. \A k \in Keys \ {j} : Trying(k)' = Trying(k)
      BY <2>4, <3>1, TryingShrinks DEF Accept
    <3>3. attempts'[j] = 0
      BY <3>0, <3>1 DEF TypeOK
    <3> QED BY <2>0, <3>0, <3>1, <3>2, <3>3, TryingFinite DEF Budget, Running, Room, TypeOK
  <2>5. ASSUME NEW h \in Handlers, Drop(h) PROVE Budget'
    <3>0. PICK j \in trying[h] : TRUE
      BY <2>5 DEF Drop
    <3>1. j \in Keys /\ trying[h] = {j}
      BY TryingOne
    <3>2. /\ Cardinality(Trying(j)') = Cardinality(Trying(j)) - 1
          /\ \A k \in Keys \ {j} : Trying(k)' = Trying(k)
      BY <2>5, <3>1, TryingShrinks DEF Drop
    <3> QED BY <2>0, <2>5, <3>2, TryingFinite DEF Drop, Budget, Running, Room
  <2>6. CASE Tick
    <3>1. \A k \in Keys : Trying(k)' = Trying(k) /\ attempts'[k] = attempts[k]
      BY <2>6 DEF Tick, Trying
    <3>2. \A k \in Keys : Running(k)' => Running(k)
      BY <2>0, <2>6 DEF Tick, Running, TypeOK
    <3> QED BY <3>1, <3>2 DEF Budget, Room
  <2>7. CASE Restart
    BY <2>0, <2>7, TryingFinite DEF Restart, Budget, Running, Room
  <2> QED BY <2>1, <2>2, <2>3, <2>4, <2>5, <2>6, <2>7 DEF Next, Handler
<1>3. Budget => OverrunBounded
  BY DEF Budget, OverrunBounded, Room
<1> QED BY <1>1, <1>2, <1>3, LimiterTyping, PTL DEF Spec

-----------------------------------------------------------------------------
(* No failure moves the start of the lockout of a key that stays locked.   *)
THEOREM LimiterLockout == Spec => LockoutNotExtended
<1>1. TypeOK /\ [Next]_vars =>
        [\A k \in Keys : ~Allowed(k) /\ ~Allowed(k)' => age'[k] >= age[k]]_vars
  <2> SUFFICES ASSUME TypeOK, [Next]_vars, NEW k \in Keys, ~Allowed(k), ~Allowed(k)'
               PROVE  age'[k] >= age[k]
    OBVIOUS
  <2>0. /\ Max \in Nat \ {0} /\ Window \in Nat \ {0}
        /\ \A j \in Keys : attempts[j] \in Nat /\ age[j] \in 0 .. Window
        /\ attempts[k] > 0 /\ age[k] < Window /\ attempts'[k] > 0
    BY LimitsAssumption DEF TypeOK, Allowed
  <2>1. CASE age' = age
    BY <2>0, <2>1
  <2>2. ASSUME NEW h \in Handlers, Reject(h) PROVE age'[k] >= age[k]
    <3>0. PICK j \in trying[h] : Record(j)
      BY <2>2 DEF Reject
    <3>1. j \in Keys /\ Record(j)
      BY <3>0, TryingOne
    <3> QED BY <2>0, <3>1 DEF Record, TypeOK
  <2>3. ASSUME NEW h \in Handlers, Accept(h) PROVE age'[k] >= age[k]
    <3>0. PICK j \in trying[h] : /\ attempts' = [attempts EXCEPT ![j] = 0]
                                 /\ age' = [age EXCEPT ![j] = 0]
      BY <2>3 DEF Accept
    <3>1. /\ j \in Keys
          /\ attempts' = [attempts EXCEPT ![j] = 0]
          /\ age' = [age EXCEPT ![j] = 0]
      BY <3>0, TryingOne
    <3> QED BY <2>0, <3>1 DEF TypeOK
  <2>4. CASE Tick
    BY <2>0, <2>4 DEF Tick, Running, TypeOK
  <2>5. CASE Restart
    BY <2>0, <2>5 DEF Restart
  <2> QED BY <2>1, <2>2, <2>3, <2>4, <2>5 DEF Next, Handler, Submit, Drop, vars
<1> QED BY <1>1, LimiterTyping, PTL DEF Spec, LockoutNotExtended
=============================================================================
