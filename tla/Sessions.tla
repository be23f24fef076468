------------------------------ MODULE Sessions ------------------------------
(***************************************************************************)
(* Login sessions: the rows of the sessions table, the session cache that  *)
(* validate_session keeps in front of them, and the requests that store,   *)
(* check and end a session. Every await of a handler separates two         *)
(* actions. A token is drawn at random for one login: no browser presents  *)
(* it before the response that sets its cookie.                            *)
(***************************************************************************)
CONSTANTS Users, Tokens, Handlers,
          Owner   \* token -> the user who logs in with it

ASSUME OwnerAssumption == Owner \in [Tokens -> Users]

VARIABLES
    users,             \* rows of users
    sessions,          \* token -> its row: none, live, or older than 30 days
    issued,            \* tokens a login ever stored
    given,             \* tokens a browser ever received
    out,               \* tokens whose logout was answered
    session_by_token,  \* token -> the cached answer, {} where there is none:
                       \* TRUE for Some(user), FALSE for None
    req                \* handler -> where it is, its token, the answer in flight

vars == <<users, sessions, issued, given, out, session_by_token, req>>

Steps == {"idle", "cookie", "select", "fill", "forget"}
Idle == [at |-> "idle", token |-> {}, found |-> {}]

TypeOK ==
    /\ users \subseteq Users
    /\ sessions \in [Tokens -> {"none", "live", "old"}]
    /\ issued \subseteq Tokens
    /\ given \subseteq issued
    /\ out \subseteq given
    /\ session_by_token \in [Tokens -> SUBSET BOOLEAN]
    /\ req \in [Handlers -> [at : Steps, token : SUBSET Tokens, found : SUBSET BOOLEAN]]

Init ==
    /\ users = Users
    /\ sessions = [t \in Tokens |-> "none"]
    /\ issued = {}
    /\ given = {}
    /\ out = {}
    /\ session_by_token = [t \in Tokens |-> {}]
    /\ req = [h \in Handlers |-> Idle]

-----------------------------------------------------------------------------
At(h, step) == req[h].at = step
Begin(h, step, t) ==
    req' = [req EXCEPT ![h] = [at |-> step, token |-> {t}, found |-> {}]]
Finish(h) == req' = [req EXCEPT ![h] = Idle]

(* create_session_and_redirect, for a login or a new account: the row is   *)
(* stored before the cookie is set. The foreign key needs the user. (Before *)
(* a definition stand its variants that PROJECT.json lists as mutants.)    *)
LoginCookieFirst(h, t) ==
    /\ At(h, "idle")
    /\ t \notin issued
    /\ Owner[t] \in users
    /\ \/ /\ t \notin given
          /\ given' = given \cup {t}
          /\ UNCHANGED <<sessions, issued, req>>
       \/ /\ t \in given
          /\ sessions' = [sessions EXCEPT ![t] = "live"]
          /\ issued' = issued \cup {t}
          /\ UNCHANGED <<given, req>>
    /\ UNCHANGED <<users, out, session_by_token>>
Login(h, t) ==
    /\ At(h, "idle")
    /\ t \notin issued
    /\ Owner[t] \in users
    /\ sessions' = [sessions EXCEPT ![t] = "live"]
    /\ issued' = issued \cup {t}
    /\ Begin(h, "cookie", t)
    /\ UNCHANGED <<users, given, out, session_by_token>>

Answer(h) ==
    /\ At(h, "cookie")
    /\ given' = given \cup req[h].token
    /\ Finish(h)
    /\ UNCHANGED <<users, sessions, issued, out, session_by_token>>

-----------------------------------------------------------------------------
(* validate_session. An answer from the cache changes nothing.             *)
Look(h, t, bypass) ==
    /\ At(h, "idle")
    /\ t \in given
    /\ bypass \/ session_by_token[t] = {}
    /\ Begin(h, "select", t)
    /\ UNCHANGED <<users, sessions, issued, given, out, session_by_token>>

SelectAnyAge(h) ==
    /\ At(h, "select")
    /\ req' = [req EXCEPT ![h].at = "fill",
                          ![h].found = {sessions[t] # "none" : t \in req[h].token}]
    /\ UNCHANGED <<users, sessions, issued, given, out, session_by_token>>
Select(h) ==
    /\ At(h, "select")
    /\ req' = [req EXCEPT ![h].at = "fill",
                          ![h].found = {sessions[t] = "live" : t \in req[h].token}]
    /\ UNCHANGED <<users, sessions, issued, given, out, session_by_token>>

Fill(h) ==
    /\ At(h, "fill")
    /\ session_by_token' = [t \in Tokens |-> IF t \in req[h].token THEN req[h].found
                                                                  ELSE session_by_token[t]]
    /\ Finish(h)
    /\ UNCHANGED <<users, sessions, issued, given, out>>

-----------------------------------------------------------------------------
(* logout: the row, then the cache, then the answer.                       *)
Logout(h, t) ==
    /\ At(h, "idle")
    /\ t \in given
    /\ sessions' = [sessions EXCEPT ![t] = "none"]
    /\ Begin(h, "forget", t)
    /\ UNCHANGED <<users, issued, given, out, session_by_token>>

Forget(h) ==
    /\ At(h, "forget")
    /\ session_by_token' = [t \in Tokens |-> IF t \in req[h].token THEN {}
                                                                  ELSE session_by_token[t]]
    /\ out' = out \cup req[h].token
    /\ Finish(h)
    /\ UNCHANGED <<users, sessions, issued, given>>

(* The caller disconnects, or a statement fails.                           *)
Drop(h) ==
    /\ ~At(h, "idle")
    /\ Finish(h)
    /\ UNCHANGED <<users, sessions, issued, given, out, session_by_token>>

-----------------------------------------------------------------------------
(* A row passes its thirty days.                                           *)
Age(t) ==
    /\ sessions[t] = "live"
    /\ sessions' = [sessions EXCEPT ![t] = "old"]
    /\ UNCHANGED <<users, issued, given, out, session_by_token, req>>

(* DELETE FROM users cascades to the sessions; their cache is not told.    *)
DeleteUser(u) ==
    /\ u \in users
    /\ users' = users \ {u}
    /\ sessions' = [t \in Tokens |-> IF Owner[t] = u THEN "none" ELSE sessions[t]]
    /\ UNCHANGED <<issued, given, out, session_by_token, req>>

(* An entry's time to live runs out, or the cache evicts it.               *)
Expire(t) ==
    /\ session_by_token[t] # {}
    /\ session_by_token' = [session_by_token EXCEPT ![t] = {}]
    /\ UNCHANGED <<users, sessions, issued, given, out, req>>

Restart ==
    /\ session_by_token' = [t \in Tokens |-> {}]
    /\ req' = [h \in Handlers |-> Idle]
    /\ UNCHANGED <<users, sessions, issued, given, out>>

Handler(h) ==
    \/ \E t \in Tokens : Login(h, t) \/ Logout(h, t) \/ \E bypass \in BOOLEAN : Look(h, t, bypass)
    \/ Answer(h) \/ Select(h) \/ Fill(h) \/ Forget(h) \/ Drop(h)
Next ==
    \/ \E h \in Handlers : Handler(h)
    \/ \E t \in Tokens : Age(t) \/ Expire(t)
    \/ \E u \in Users : DeleteUser(u)
    \/ Restart

Spec == Init /\ [][Next]_vars

(* A handler that has its answer goes on, and entries do not outlive their *)
(* time to live.                                                           *)
FairSpec ==
    /\ Spec
    /\ \A h \in Handlers : WF_vars(Fill(h))
    /\ \A t \in Tokens : WF_vars(Expire(t))

-----------------------------------------------------------------------------
(* A valid session is never refused: no refusal of it is cached or on its  *)
(* way into the cache, although refusals are cached like answers.          *)
LiveNotRefused ==
    \A t \in Tokens : sessions[t] = "live" =>
      /\ FALSE \notin session_by_token[t]
      /\ \A h \in Handlers : t \in req[h].token => FALSE \notin req[h].found

(* A session that was logged out, that is over thirty days old or whose    *)
(* user was deleted is in the end refused for good, whatever answers were  *)
(* cached or in flight.                                                    *)
Ended(t) == t \in out \/ (t \in issued /\ sessions[t] # "live")
EndedIsRefused ==
    \A t \in Tokens : Ended(t) ~> [](TRUE \notin session_by_token[t])

(* The safety half of it: such a session, once no answer that grants it is *)
(* cached or in flight, never comes back, not from a later look at its row *)
(* nor by another login, a restart or a full cache.                        *)
Refused(t) ==
    /\ Ended(t)
    /\ TRUE \notin session_by_token[t]
    /\ \A h \in Handlers : t \in req[h].token => TRUE \notin req[h].found
RefusedForGood == [][\A t \in Tokens : Refused(t) => Refused(t)']_vars

(* "logout_invalidates_session": once the logout is answered, the token    *)
(* opens no page any more. The code does not keep this.                    *)
LoggedOutIsRefused == \A t \in out : TRUE \notin session_by_token[t]
=============================================================================
