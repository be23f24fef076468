--------------------------- MODULE SessionsProofs ---------------------------
(***************************************************************************)
(* The session cache, proved for every number of users, tokens and         *)
(* requests in progress: no valid session is refused, and an ended one     *)
(* that nothing grants any more stays refused.                             *)
(***************************************************************************)
EXTENDS Sessions, TLAPS

(* A request carries at most one token, one that was stored; and only a    *)
(* token that some browser holds is logged out.                            *)
InFlight == \A h \in Handlers :
    /\ \A s, t \in req[h].token : s = t
    /\ req[h].token \subseteq issued
    /\ At(h, "forget") => req[h].token \subseteq given

(* Nothing is known of a token before its login stored it: that is why no  *)
(* refusal can be waiting for it.                                          *)
Unknown == \A t \in Tokens \ issued : sessions[t] = "none" /\ session_by_token[t] = {}

Inv == TypeOK /\ InFlight /\ Unknown /\ LiveNotRefused

LEMMA InitInv == ASSUME Init PROVE Inv
BY DEF Init, Inv, TypeOK, InFlight, Unknown, LiveNotRefused, Idle, Steps, At

(* The handlers' steps, one lemma each.                                    *)
LEMMA LoginInv ==
    ASSUME Inv, NEW h \in Handlers, NEW t \in Tokens, Login(h, t) PROVE Inv'
<1> USE DEF Login, Begin
<1>1. TypeOK'
  BY DEF Inv, TypeOK, Steps
<1>2. InFlight'
  BY DEF Inv, TypeOK, InFlight, At
<1>3. Unknown'
  BY DEF Inv, TypeOK, Unknown
<1>4. LiveNotRefused'
  <2>1. session_by_token[t] = {} /\ \A g \in Handlers : t \notin req[g].token
    BY DEF Inv, InFlight, Unknown
  <2>2. \A g \in Handlers \ {h} : req'[g] = req[g]
    BY DEF Inv, TypeOK
  <2>3. req'[h].found = {}
    BY DEF Inv, TypeOK
  <2> QED BY <2>1, <2>2, <2>3 DEF Inv, TypeOK, LiveNotRefused
<1> QED BY <1>1, <1>2, <1>3, <1>4 DEF Inv

LEMMA LogoutInv ==
    ASSUME Inv, NEW h \in Handlers, NEW t \in Tokens, Logout(h, t) PROVE Inv'
<1> USE DEF Logout, Begin
<1>1. TypeOK'
  BY DEF Inv, TypeOK, Steps
<1>2. InFlight'
  BY DEF Inv, TypeOK, InFlight, At
<1>3. Unknown'
  BY DEF Inv, TypeOK, Unknown
<1>4. LiveNotRefused'
  BY DEF Inv, TypeOK, LiveNotRefused
<1> QED BY <1>1, <1>2, <1>3, <1>4 DEF Inv

LEMMA LookInv ==
    ASSUME Inv, NEW h \in Handlers, NEW t \in Tokens, NEW b \in BOOLEAN, Look(h, t, b)
    PROVE  Inv'
<1> USE DEF Look, Begin
<1>1. TypeOK'
  BY DEF Inv, TypeOK, Steps
<1>2. InFlight'
  BY DEF Inv, TypeOK, InFlight, At
<1>3. Unknown'
  BY DEF Inv, TypeOK, Unknown
<1>4. LiveNotRefused'
  BY DEF Inv, TypeOK, LiveNotRefused
<1> QED BY <1>1, <1>2, <1>3, <1>4 DEF Inv

LEMMA AnswerInv ==
    ASSUME Inv, NEW h \in Handlers, Answer(h) PROVE Inv'
<1> USE DEF Answer, Finish, Idle
<1>0. req[h].token \subseteq issued
  BY DEF Inv, InFlight
<1>1. TypeOK'
  BY <1>0 DEF Inv, TypeOK, Steps
<1>2. InFlight'
  BY DEF Inv, TypeOK, InFlight, At
<1>3. Unknown'
  BY DEF Inv, TypeOK, Unknown
<1>4. LiveNotRefused'
  BY DEF Inv, TypeOK, LiveNotRefused
<1> QED BY <1>1, <1>2, <1>3, <1>4 DEF Inv

LEMMA SelectInv ==
    ASSUME Inv, NEW h \in Handlers, Select(h) PROVE Inv'
<1> USE DEF Select, At
<1>1. TypeOK'
  <2>1. {sessions[t] = "live" : t \in req[h].token} \in SUBSET BOOLEAN
    OBVIOUS
  <2> QED BY <2>1 DEF Inv, TypeOK, Steps
<1>2. InFlight'
  BY DEF Inv, TypeOK, InFlight
<1>3. Unknown'
  BY DEF Inv, TypeOK, Unknown
<1>4. LiveNotRefused'
  <2>1. ASSUME NEW t \in req[h].token, sessions[t] = "live"
        PROVE  \A s \in req[h].token : (sessions[s] = "live") = TRUE
    BY <2>1 DEF Inv, InFlight
  <2>2. req'[h].token = req[h].token
        /\ req'[h].found = {sessions[s] = "live" : s \in req[h].token}
    BY DEF Inv, TypeOK
  <2>3. \A g \in Handlers \ {h} : req'[g] = req[g]
    BY DEF Inv, TypeOK
  <2>4. \A t \in req[h].token : sessions[t] = "live" => FALSE \notin req'[h].found
    BY <2>1, <2>2
  <2> QED BY <2>2, <2>3, <2>4 DEF Inv, LiveNotRefused
<1> QED BY <1>1, <1>2, <1>3, <1>4 DEF Inv

LEMMA FillInv ==
    ASSUME Inv, NEW h \in Handlers, Fill(h) PROVE Inv'
<1> USE DEF Fill, Finish, Idle
<1>1. TypeOK'
  BY DEF Inv, TypeOK, Steps
<1>2. InFlight'
  BY DEF Inv, TypeOK, InFlight, At
<1>3. Unknown'
  BY DEF Inv, TypeOK, InFlight, Unknown
<1>4. LiveNotRefused'
  BY DEF Inv, TypeOK, LiveNotRefused
<1> QED BY <1>1, <1>2, <1>3, <1>4 DEF Inv

LEMMA ForgetInv ==
    ASSUME Inv, NEW h \in Handlers, Forget(h) PROVE Inv'
<1> USE DEF Forget, Finish, Idle
<1>0. req[h].token \subseteq given
  BY DEF Inv, InFlight
<1>1. TypeOK'
  BY <1>0 DEF Inv, TypeOK, Steps
<1>2. InFlight'
  BY DEF Inv, TypeOK, InFlight, At
<1>3. Unknown'
  BY DEF Inv, TypeOK, Unknown
<1>4. LiveNotRefused'
  BY DEF Inv, TypeOK, LiveNotRefused
<1> QED BY <1>1, <1>2, <1>3, <1>4 DEF Inv

LEMMA DropInv ==
    ASSUME Inv, NEW h \in Handlers, Drop(h) PROVE Inv'
BY DEF Drop, Finish, Idle, Inv, TypeOK, InFlight, Unknown, LiveNotRefused, Steps, At

(* The world around them.                                                  *)
LEMMA EnvironmentInv ==
    ASSUME Inv,
           \/ \E t \in Tokens : Age(t) \/ Expire(t)
           \/ \E u \in Users : DeleteUser(u)
           \/ Restart
           \/ UNCHANGED vars
    PROVE  Inv'
<1> USE DEF Inv, TypeOK, InFlight, Unknown, LiveNotRefused, Steps, At
<1>1. ASSUME NEW t \in Tokens, Age(t) PROVE Inv'
  BY <1>1 DEF Age
<1>2. ASSUME NEW t \in Tokens, Expire(t) PROVE Inv'
  BY <1>2 DEF Expire
<1>3. ASSUME NEW u \in Users, DeleteUser(u) PROVE Inv'
  BY <1>3 DEF DeleteUser
<1>4. CASE Restart
  BY <1>4 DEF Restart, Idle
<1>5. CASE UNCHANGED vars
  BY <1>5 DEF vars
<1> QED BY <1>1, <1>2, <1>3, <1>4, <1>5

LEMMA NextInv == ASSUME Inv, [Next]_vars PROVE Inv'
BY LoginInv, LogoutInv, LookInv, AnswerInv, SelectInv, FillInv, ForgetInv, DropInv,
   EnvironmentInv DEF Next, Handler

LEMMA Invariance == Spec => []Inv
<1>1. Init => Inv
  BY InitInv
<1>2. Inv /\ [Next]_vars => Inv'
  BY NextInv
<1> QED BY <1>1, <1>2, PTL DEF Spec

(* Rows, cookies, cached answers and requests keep their types; a browser  *)
(* holds only tokens that were stored, and logs out only those.            *)
THEOREM SessionTyping == Spec => []TypeOK
BY Invariance, PTL DEF Inv

(* No refusal of a valid session is ever cached or about to be: a login is *)
(* not undone by the refusals the session cache keeps.                     *)
THEOREM SessionLive == Spec => []LiveNotRefused
BY Invariance, PTL DEF Inv

-----------------------------------------------------------------------------
(* That a refused session stays refused. Logged out means without a live   *)
(* row, from the statement that deletes the row on: no token is issued     *)
(* twice, so no row of that token is stored again.                         *)
Gone ==
    \A t \in Tokens :
      /\ t \in out => sessions[t] # "live"
      /\ \A h \in Handlers : At(h, "forget") /\ t \in req[h].token => sessions[t] # "live"

LEMMA GoneHandler ==
    ASSUME Inv, Gone, NEW h \in Handlers, Handler(h) PROVE Gone'
<1> USE DEF Inv, TypeOK, InFlight, Gone, At
<1>1. ASSUME NEW t \in Tokens, Login(h, t) PROVE Gone'
  <2>1. t \notin out /\ \A g \in Handlers : At(g, "forget") => t \notin req[g].token
    BY <1>1 DEF Login
  <2> QED BY <1>1, <2>1 DEF Login, Begin
<1>2. ASSUME NEW t \in Tokens, Logout(h, t) PROVE Gone'
  BY <1>2 DEF Logout, Begin
<1>3. ASSUME NEW t \in Tokens, NEW b \in BOOLEAN, Look(h, t, b) PROVE Gone'
  BY <1>3 DEF Look, Begin
<1>4. CASE Answer(h)
  BY <1>4 DEF Answer, Finish, Idle
<1>5. CASE Select(h)
  BY <1>5 DEF Select
<1>6. CASE Fill(h)
  BY <1>6 DEF Fill, Finish, Idle
<1>7. CASE Forget(h)
  BY <1>7 DEF Forget, Finish, Idle
<1>8. CASE Drop(h)
  BY <1>8 DEF Drop, Finish, Idle
<1> QED BY <1>1, <1>2, <1>3, <1>4, <1>5, <1>6, <1>7, <1>8 DEF Handler

LEMMA GoneStep == ASSUME Inv, Gone, [Next]_vars PROVE Gone'
<1> USE DEF Inv, TypeOK, Gone, At
<1>1. ASSUME NEW h \in Handlers, Handler(h) PROVE Gone'
  BY <1>1, GoneHandler
<1>2. ASSUME NEW t \in Tokens, Age(t) \/ Expire(t) PROVE Gone'
  BY <1>2 DEF Age, Expire
<1>3. ASSUME NEW u \in Users, DeleteUser(u) PROVE Gone'
  BY <1>3 DEF DeleteUser
<1>4. CASE Restart
  BY <1>4 DEF Restart, Idle
<1>5. CASE UNCHANGED vars
  BY <1>5 DEF vars
<1> QED BY <1>1, <1>2, <1>3, <1>4, <1>5 DEF Next

(* What has ended stays ended: a row becomes live only with its login.     *)
LEMMA EndedStays ==
    ASSUME Inv, [Next]_vars, NEW t \in Tokens, Ended(t) PROVE Ended(t)'
<1>1. out \subseteq out' /\ issued \subseteq issued'
  BY DEF Next, Handler, Login, Logout, Look, Answer, Select, Fill, Forget, Drop, Age,
         DeleteUser, Expire, Restart, vars
<1>2. t \in issued /\ sessions[t] # "live" => sessions'[t] # "live"
  BY DEF Next, Handler, Login, Logout, Look, Answer, Select, Fill, Forget, Drop, Age,
         DeleteUser, Expire, Restart, vars, Inv, TypeOK
<1> QED BY <1>1, <1>2 DEF Ended

(* Only a look at a live row finds that the session is granted.            *)
LEMMA StillRefused ==
    ASSUME Inv, Gone, [Next]_vars, NEW t \in Tokens, Refused(t)
    PROVE  /\ TRUE \notin session_by_token'[t]
           /\ \A h \in Handlers : t \in req'[h].token => TRUE \notin req'[h].found
<1> DEFINE Silent ==
             /\ TRUE \notin session_by_token'[t]
             /\ \A h \in Handlers : t \in req'[h].token => TRUE \notin req'[h].found
<1>0. sessions[t] # "live"
  BY DEF Refused, Ended, Gone
<1> USE DEF Refused, Inv, TypeOK
<1>1. ASSUME NEW h \in Handlers, NEW s \in Tokens,
             Login(h, s) \/ Logout(h, s) \/ \E b \in BOOLEAN : Look(h, s, b)
      PROVE  Silent
  <2>1. /\ req'[h].found = {} /\ \A g \in Handlers \ {h} : req'[g] = req[g]
        /\ session_by_token' = session_by_token
    BY <1>1 DEF Login, Logout, Look, Begin
  <2> QED BY <2>1
<1>2. ASSUME NEW h \in Handlers, Answer(h) \/ Drop(h) PROVE Silent
  <2>1. /\ req'[h].found = {} /\ \A g \in Handlers \ {h} : req'[g] = req[g]
        /\ session_by_token' = session_by_token
    BY <1>2 DEF Answer, Drop, Finish, Idle
  <2> QED BY <2>1
<1>3. ASSUME NEW h \in Handlers, Select(h) PROVE Silent
  <2>1. /\ req'[h].token = req[h].token
        /\ req'[h].found = {sessions[s] = "live" : s \in req[h].token}
        /\ \A g \in Handlers \ {h} : req'[g] = req[g]
        /\ session_by_token' = session_by_token
    BY <1>3 DEF Select
  <2>2. t \in req[h].token => \A s \in req[h].token : (sessions[s] = "live") = FALSE
    BY <1>0 DEF InFlight
  <2>3. t \in req'[h].token => TRUE \notin req'[h].found
    BY <2>1, <2>2
  <2> QED BY <2>1, <2>3
<1>4. ASSUME NEW h \in Handlers, Fill(h) \/ Forget(h) PROVE Silent
  <2>1. req'[h].found = {} /\ \A g \in Handlers \ {h} : req'[g] = req[g]
    BY <1>4 DEF Fill, Forget, Finish, Idle
  <2>2. TRUE \notin session_by_token'[t]
    BY <1>4 DEF Fill, Forget
  <2> QED BY <2>1, <2>2
<1>5. ASSUME NEW s \in Tokens, Age(s) \/ Expire(s) PROVE Silent
  BY <1>5 DEF Age, Expire
<1>6. ASSUME NEW u \in Users, DeleteUser(u) PROVE Silent
  BY <1>6 DEF DeleteUser
<1>7. CASE Restart
  BY <1>7 DEF Restart, Idle
<1>8. CASE UNCHANGED vars
  BY <1>8 DEF vars
<1> QED BY <1>1, <1>2, <1>3, <1>4, <1>5, <1>6, <1>7, <1>8 DEF Next, Handler

(* A session that has ended, once no granting answer is cached or in       *)
(* flight, is refused for ever.                                            *)
THEOREM SessionRefusedForGood == Spec => RefusedForGood
<1>1. Init => Gone
  BY DEF Init, Gone, At, Idle
<1>2. Inv /\ Gone /\ [Next]_vars => Gone'
  BY GoneStep
<1>3. Inv /\ Gone /\ [Next]_vars => [\A t \in Tokens : Refused(t) => Refused(t)']_vars
  <2>1. SUFFICES ASSUME Inv, Gone, [Next]_vars, NEW t \in Tokens, Refused(t)
                 PROVE  Refused(t)'
    OBVIOUS
  <2>2. Ended(t)'
    BY <2>1, EndedStays DEF Refused
  <2> QED BY <2>1, <2>2, StillRefused DEF Refused
<1> QED BY <1>1, <1>2, <1>3, Invariance, PTL DEF Spec, RefusedForGood
=============================================================================
