---------------------------- MODULE LoginLimiter ----------------------------
(***************************************************************************)
(* The limit on failed logins: LoginRateLimiter and the login handler that *)
(* consults it. The handler asks is_allowed before it awaits the lookup    *)
(* and the verification of the password, and records or clears the account *)
(* after it: any number of other logins may pass in between.               *)
(***************************************************************************)
EXTENDS Integers, FiniteSets

CONSTANTS Keys,      \* the e-mail addresses logins are counted by
          Handlers,  \* login requests in progress at one time
          Max,       \* max_attempts
          Window     \* the length of the window, in ticks

ASSUME LimitsAssumption ==
    /\ Max \in Nat \ {0}
    /\ Window \in Nat \ {0}
    /\ IsFiniteSet(Handlers)

VARIABLES
    attempts,  \* key -> failures counted in its entry, 0 where it has no entry
    age,       \* key -> ticks since its entry's start, Window once they are over
    trying     \* handler -> the key whose password it is verifying, if any

vars == <<attempts, age, trying>>

TypeOK ==
    /\ attempts \in [Keys -> Nat]
    /\ age \in [Keys -> 0 .. Window]
    /\ trying \in [Handlers -> {{}} \cup {{k} : k \in Keys}]

Init ==
    /\ attempts = [k \in Keys |-> 0]
    /\ age = [k \in Keys |-> 0]
    /\ trying = [h \in Handlers |-> {}]

-----------------------------------------------------------------------------
(* is_allowed: a key without an entry, or with one whose window is over,   *)
(* is let through whatever it counted. (Before a definition stand its      *)
(* variants that PROJECT.json lists as mutants.)                           *)
AllowedEver(k) == attempts[k] < Max
AllowedAtMax(k) == attempts[k] > 0 /\ age[k] < Window => attempts[k] <= Max
Allowed(k) == attempts[k] > 0 /\ age[k] < Window => attempts[k] < Max

(* A refused login (429) changes nothing, so it needs no action.           *)
Submit(h, k) ==
    /\ trying[h] = {}
    /\ Allowed(k)
    /\ trying' = [trying EXCEPT ![h] = {k}]
    /\ UNCHANGED <<attempts, age>>

(* record_attempt                                                          *)
RecordSliding(k) ==
    /\ attempts' = [attempts EXCEPT ![k] = IF age[k] = Window THEN 1 ELSE @ + 1]
    /\ age' = [age EXCEPT ![k] = 0]
Record(k) ==
    IF attempts[k] = 0 \/ age[k] = Window
      THEN /\ attempts' = [attempts EXCEPT ![k] = 1]
           /\ age' = [age EXCEPT ![k] = 0]
      ELSE /\ attempts' = [attempts EXCEPT ![k] = @ + 1]
           /\ UNCHANGED age

(* No account, or not its password.                                        *)
Reject(h) ==
    /\ \E k \in trying[h] : Record(k)
    /\ trying' = [trying EXCEPT ![h] = {}]

AcceptOne(h) ==
    /\ \E k \in trying[h] : attempts' = [attempts EXCEPT ![k] = @ - 1]
    /\ trying' = [trying EXCEPT ![h] = {}]
    /\ UNCHANGED age

(* clear: the account's entry is removed before its session is stored.     *)
Accept(h) ==
    /\ \E k \in trying[h] : /\ attempts' = [attempts EXCEPT ![k] = 0]
                            /\ age' = [age EXCEPT ![k] = 0]
    /\ trying' = [trying EXCEPT ![h] = {}]

(* The lookup fails, or the caller disconnects while it runs.              *)
Drop(h) ==
    /\ trying[h] # {}
    /\ trying' = [trying EXCEPT ![h] = {}]
    /\ UNCHANGED <<attempts, age>>

-----------------------------------------------------------------------------
(* Time passes for every entry alike.                                      *)
Running(k) == attempts[k] > 0 /\ age[k] < Window
Tick ==
    /\ \E k \in Keys : Running(k)
    /\ age' = [k \in Keys |-> IF Running(k) THEN age[k] + 1 ELSE age[k]]
    /\ UNCHANGED <<attempts, trying>>

(* The limiter lives in memory.                                            *)
Restart ==
    /\ attempts' = [k \in Keys |-> 0]
    /\ age' = [k \in Keys |-> 0]
    /\ trying' = [h \in Handlers |-> {}]

Handler(h) == (\E k \in Keys : Submit(h, k)) \/ Reject(h) \/ Accept(h) \/ Drop(h)
Next == (\E h \in Handlers : Handler(h)) \/ Tick \/ Restart

Spec == Init /\ [][Next]_vars

(* Time does not stop. Nothing is assumed of the handlers.                 *)
FairSpec == Spec /\ WF_vars(Tick)

-----------------------------------------------------------------------------
(* The check and the count are two critical sections with an await between *)
(* them, so the limit is soft: the logins in progress when it is reached   *)
(* still count. It is never exceeded by more than those.                   *)
OverrunBounded == \A k \in Keys : attempts[k] <= Max - 1 + Cardinality(Handlers)

(* The window is fixed by its first failure: while a key stays locked, no  *)
(* failure of a login already in progress moves the start of its lockout.  *)
LockoutNotExtended ==
    [][\A k \in Keys : ~Allowed(k) /\ ~Allowed(k)' => age'[k] >= age[k]]_vars

(* Nobody is locked out for good, however often and however badly someone  *)
(* tries to log in to the account.                                         *)
LockoutEnds == \A k \in Keys : ~Allowed(k) ~> Allowed(k)
=============================================================================
