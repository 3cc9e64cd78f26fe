---- MODULE BrowserSession ----
(***************************************************************************)
(* The session of one browser: the tabs of the SPA, what they share, and   *)
(* auth-user-service at the other end of /auth/refresh and /auth/logout.   *)
(* Tabs interleave at every await, and the cookies of an answer are in the *)
(* browser before the script that asked for it runs.                       *)
(*                                                                         *)
(*   store     localStorage: the access token ("old" once it has expired or*)
(*             is about to), the CSRF value, and whether there is a session*)
(*   cookie    the refresh cookie and the CSRF cookie that was set with it:*)
(*             one number for both, 0 when there are none                  *)
(*   active, rotated   the refresh tokens that are not revoked, and those  *)
(*             that were rotated and are still graced (see Sessions)       *)
(*   refresh   refreshPromise of each tab                                  *)
(*   call, exit   a request of each tab, and its logout                    *)
(*   user      whether AuthProvider of the tab has a user                  *)
(*   failed, crossed, lost, exited   history variables: a request failed;  *)
(*             two tabs, or a logout and a refresh, were at work at once; a*)
(*             tab gave the session up; the last thing done was a logout   *)
(***************************************************************************)
EXTENDS Naturals, FiniteSets

CONSTANTS
  Tabs,
  MaxIssued        \* bound on refresh tokens

ASSUME BrowserAssumption == MaxIssued \in Nat

VARIABLES store, cookie, active, rotated, issued, refresh, call, exit, user,
          failed, crossed, lost, exited

history     == <<failed, crossed, lost, exited>>
server      == <<active, rotated, issued>>
browserVars == <<store, cookie, server, refresh, call, exit, user, history>>

Token == 0 .. MaxIssued

Refresh == [pc : {"none", "sent", "answered", "stored", "rejected"}, header : Token,
            token : Token, answer : Token]
Call    == [pc : {"idle", "intercept", "wait", "send", "sent", "unauthorised"},
            bearer : {"none", "good", "old"}, retried : BOOLEAN]
Exit    == [pc : {"idle", "intercept", "wait", "send", "sent", "answered"},
            header : Token, token : Token]

NoRefresh == [pc |-> "none", header |-> 0, token |-> 0, answer |-> 0]
NoCall    == [pc |-> "idle", bearer |-> "none", retried |-> FALSE]
NoExit    == [pc |-> "idle", header |-> 0, token |-> 0]
SignedOut == [access |-> "none", csrf |-> 0, session |-> FALSE]

BrowserTypeOK ==
  /\ store \in [access : {"none", "good", "old"}, csrf : Token, session : BOOLEAN]
  /\ cookie \in Token /\ issued \in Token
  /\ active \subseteq 1 .. issued /\ rotated \subseteq 1 .. issued
  /\ refresh \in [Tabs -> Refresh] /\ call \in [Tabs -> Call] /\ exit \in [Tabs -> Exit]
  /\ user \in [Tabs -> BOOLEAN]
  /\ {failed, crossed, lost, exited} \subseteq BOOLEAN

BrowserInit ==
  /\ store = SignedOut /\ cookie = 0
  /\ active = {} /\ rotated = {} /\ issued = 0
  /\ refresh = [t \in Tabs |-> NoRefresh] /\ call = [t \in Tabs |-> NoCall]
  /\ exit = [t \in Tabs |-> NoExit] /\ user = [t \in Tabs |-> FALSE]
  /\ failed = FALSE /\ crossed = FALSE /\ lost = FALSE /\ exited = FALSE

Refreshing == {t \in Tabs : refresh[t].pc # "none"}
Leaving    == {t \in Tabs : exit[t].pc \notin {"idle", "intercept", "wait"}}

Crosses(t) == crossed' = (crossed \/ ((Refreshing \cup Leaving) \ {t} # {}) \/ t \in Leaving)
----
(* saveSession after a login: a new family of tokens.                      *)
SignIn(t) ==
  /\ ~user[t] /\ issued < MaxIssued
  /\ issued' = issued + 1 /\ active' = active \cup {issued + 1}
  /\ cookie' = issued + 1
  /\ store' = [access |-> "good", csrf |-> issued + 1, session |-> TRUE]
  /\ user' = [user EXCEPT ![t] = TRUE]
  /\ exited' = FALSE
  /\ crossed' = (crossed \/ (Refreshing \cup Leaving # {}) \/ active # {})
  /\ UNCHANGED <<rotated, refresh, call, exit, failed, lost>>

(* AuthProvider mounts.                                                    *)
LoadApp(t) ==
  /\ refresh[t].pc = "none" /\ call[t].pc = "idle" /\ exit[t].pc = "idle"
  /\ user' = [user EXCEPT ![t] = store.session]
  /\ store' = IF store.session THEN store ELSE SignedOut
  /\ UNCHANGED <<cookie, server, refresh, call, exit, history>>

AccessTokenExpires ==
  /\ store.access = "good"
  /\ store' = [store EXCEPT !.access = "old"]
  /\ call' = [t \in Tabs |-> IF call[t].bearer = "good" THEN [call[t] EXCEPT !.bearer = "old"]
                             ELSE call[t]]
  /\ UNCHANGED <<cookie, server, refresh, exit, user, history>>

----
(* refreshAccessToken: one promise for all who wait in the tab. Without a  *)
(* session it is rejected at once.                                         *)
AskedAnew(t) ==
  IF store.session THEN [pc |-> "sent", header |-> store.csrf, token |-> cookie, answer |-> 0]
  ELSE [NoRefresh EXCEPT !.pc = "rejected"]

RefreshAlways(t) == refresh' = [refresh EXCEPT ![t] = AskedAnew(t)]

RefreshAccessToken(t) ==
  refresh' = IF refresh[t].pc # "none" THEN refresh ELSE [refresh EXCEPT ![t] = AskedAnew(t)]

(* CsrfGuard, then rotateTokenPair or, for a graced token, its sibling.    *)
PassesCsrf(header, token) == token = 0 \/ header = token

AuthRefreshes(t) ==
  LET r == refresh[t] IN
  /\ r.pc = "sent"
  /\ IF PassesCsrf(r.header, r.token) /\ r.token \in active \cup rotated
     THEN /\ issued < MaxIssued
          /\ issued' = issued + 1
          /\ active' = (active \ {r.token}) \cup {issued + 1}
          /\ rotated' = rotated \cup {r.token}
          /\ refresh' = [refresh EXCEPT ![t] =
               [NoRefresh EXCEPT !.pc = "answered", !.answer = issued + 1]]
     ELSE /\ refresh' = [refresh EXCEPT ![t] = [NoRefresh EXCEPT !.pc = "rejected"]]
          /\ UNCHANGED server
  /\ UNCHANGED <<store, cookie, call, exit, user, history>>

(* No answer within ten seconds, or a 5xx, whatever the service did.       *)
RefreshFails(t) ==
  /\ refresh[t].pc \in {"sent", "answered"}
  /\ refresh' = [refresh EXCEPT ![t] = [NoRefresh EXCEPT !.pc = "rejected"]]
  /\ failed' = TRUE
  /\ UNCHANGED <<store, cookie, server, call, exit, user, crossed, lost, exited>>

CookiesArrive(t) ==
  /\ refresh[t].pc = "answered"
  /\ cookie' = refresh[t].answer
  /\ refresh' = [refresh EXCEPT ![t].pc = "stored"]
  /\ UNCHANGED <<store, server, call, exit, user, history>>

(* Those who waited go on: a request that was refused once is sent again,  *)
(* through the request interceptor.                                        *)
Resumed(slot) ==
  IF slot.pc # "wait" THEN slot
  ELSE [slot EXCEPT !.pc = IF "retried" \in DOMAIN slot /\ slot.retried THEN "intercept" ELSE "send"]

SaveSession(t) ==
  /\ refresh[t].pc = "stored"
  /\ store' = [access |-> "good", csrf |-> refresh[t].answer, session |-> TRUE]
  /\ refresh' = [refresh EXCEPT ![t] = NoRefresh]
  /\ call' = [call EXCEPT ![t] = Resumed(call[t])]
  /\ exit' = [exit EXCEPT ![t] = Resumed(exit[t])]
  /\ UNCHANGED <<cookie, server, user, history>>

(* Whatever the reason, the session is cleared, for all tabs. A request    *)
(* that waited is sent without a token; one that was refused is rejected.  *)
RefreshRejected(t) ==
  /\ refresh[t].pc = "rejected"
  /\ store' = SignedOut
  /\ user' = [user EXCEPT ![t] = FALSE]
  /\ refresh' = [refresh EXCEPT ![t] = NoRefresh]
  /\ call' = [call EXCEPT ![t] = IF @.pc = "wait" /\ @.retried THEN NoCall ELSE Resumed(@)]
  /\ exit' = [exit EXCEPT ![t] = Resumed(exit[t])]
  /\ lost' = (lost \/ cookie \in active)
  /\ UNCHANGED <<cookie, server, failed, crossed, exited>>

----
(* A request of a page.                                                    *)
StartCall(t) ==
  /\ user[t] /\ call[t].pc = "idle"
  /\ call' = [call EXCEPT ![t].pc = "intercept"]
  /\ UNCHANGED <<store, cookie, server, refresh, exit, user, history>>

Stale == store.session /\ store.access # "good"

(* Mutant of InterceptCall: a refresh under way is not waited for.         *)
InterceptCallAlways(t) ==
  /\ call[t].pc = "intercept"
  /\ IF Stale
     THEN /\ call' = [call EXCEPT ![t].pc = "wait"]
          /\ RefreshAlways(t) /\ Crosses(t)
     ELSE /\ call' = [call EXCEPT ![t].pc = "send"]
          /\ UNCHANGED <<refresh, crossed>>
  /\ UNCHANGED <<store, cookie, server, exit, user, failed, lost, exited>>

InterceptCall(t) ==
  /\ call[t].pc = "intercept"
  /\ IF Stale
     THEN /\ call' = [call EXCEPT ![t].pc = "wait"]
          /\ RefreshAccessToken(t) /\ Crosses(t)
     ELSE /\ call' = [call EXCEPT ![t].pc = "send"]
          /\ UNCHANGED <<refresh, crossed>>
  /\ UNCHANGED <<store, cookie, server, exit, user, failed, lost, exited>>

SendCall(t) ==
  /\ call[t].pc = "send"
  /\ call' = [call EXCEPT ![t].pc = "sent", ![t].bearer = store.access]
  /\ UNCHANGED <<store, cookie, server, refresh, exit, user, history>>

Served(t) ==
  /\ call[t].pc = "sent"
  /\ call' = [call EXCEPT ![t] = IF call[t].bearer = "good" THEN NoCall
                                 ELSE [call[t] EXCEPT !.pc = "unauthorised"]]
  /\ UNCHANGED <<store, cookie, server, refresh, exit, user, history>>

(* The response interceptor: a 401 is tried once more, after a refresh.    *)
Unauthorised(t) ==
  /\ call[t].pc = "unauthorised"
  /\ IF call[t].retried \/ ~store.session
     THEN call' = [call EXCEPT ![t] = NoCall] /\ UNCHANGED <<refresh, crossed>>
     ELSE /\ call' = [call EXCEPT ![t].pc = "wait", ![t].retried = TRUE]
          /\ RefreshAccessToken(t) /\ Crosses(t)
  /\ UNCHANGED <<store, cookie, server, exit, user, failed, lost, exited>>

----
(* logout: the CSRF header is read now, ...                                *)
Logout(t) ==
  /\ user[t] /\ exit[t].pc = "idle"
  /\ exit' = [exit EXCEPT ![t] = [pc |-> "intercept", header |-> store.csrf, token |-> 0]]
  /\ UNCHANGED <<store, cookie, server, refresh, call, user, history>>

(* ... the interceptor may rotate the cookies it belongs to, ...           *)
InterceptLogout(t) ==
  /\ exit[t].pc = "intercept"
  /\ IF Stale
     THEN /\ exit' = [exit EXCEPT ![t].pc = "wait"]
          /\ RefreshAccessToken(t) /\ Crosses(t)
     ELSE /\ exit' = [exit EXCEPT ![t].pc = "send"]
          /\ UNCHANGED <<refresh, crossed>>
  /\ UNCHANGED <<store, cookie, server, call, user, failed, lost, exited>>

SendLogout(t) ==
  /\ exit[t].pc = "send"
  /\ exit' = [exit EXCEPT ![t].pc = "sent", ![t].token = cookie]
  /\ crossed' = (crossed \/ Refreshing \cup (Leaving \ {t}) # {})
  /\ UNCHANGED <<store, cookie, server, refresh, call, user, failed, lost, exited>>

(* ... and the service revokes the token of the cookie, if the header is   *)
(* its own, and clears the cookies.                                        *)
AuthLogsOut(t) ==
  LET e == exit[t] IN
  /\ e.pc = "sent"
  /\ \/ /\ active' = IF PassesCsrf(e.header, e.token) THEN active \ {e.token} ELSE active
        /\ cookie' = IF PassesCsrf(e.header, e.token) THEN 0 ELSE cookie
        /\ UNCHANGED failed
     \/ failed' = TRUE /\ UNCHANGED <<active, cookie>>
  /\ exit' = [exit EXCEPT ![t] = [NoExit EXCEPT !.pc = "answered"]]
  /\ UNCHANGED <<store, rotated, issued, refresh, call, user, crossed, lost, exited>>

(* Every error is swallowed.                                               *)
LogoutReturns(t) ==
  /\ exit[t].pc = "answered"
  /\ store' = SignedOut
  /\ user' = [user EXCEPT ![t] = FALSE]
  /\ exit' = [exit EXCEPT ![t] = NoExit]
  /\ exited' = TRUE
  /\ UNCHANGED <<cookie, server, refresh, call, failed, crossed, lost>>

BrowserNext ==
  \/ \E t \in Tabs :
       \/ SignIn(t) \/ LoadApp(t)
       \/ AuthRefreshes(t) \/ RefreshFails(t) \/ CookiesArrive(t) \/ SaveSession(t)
       \/ RefreshRejected(t)
       \/ StartCall(t) \/ InterceptCall(t) \/ SendCall(t) \/ Served(t) \/ Unauthorised(t)
       \/ Logout(t) \/ InterceptLogout(t) \/ SendLogout(t) \/ AuthLogsOut(t) \/ LogoutReturns(t)
  \/ AccessTokenExpires

BrowserSpec == BrowserInit /\ [][BrowserNext]_browserVars

----
(* A session that the service would still honour is not given up by a tab, *)
(* however many requests find their token expired at once: unless an answer*)
(* was lost, or two tabs (or a logout) crossed, who share the cookies but  *)
(* not the promise.                                                        *)
SessionSurvives == lost => failed \/ crossed

(* "Access tokens (JWT) and refresh tokens, with logout": who has logged   *)
(* out holds no token that the service would accept. With an access token  *)
(* that has expired, the refresh before the request changes the CSRF cookie*)
(* and the request carries the old value: the guard refuses it, and nobody *)
(* is told.                                                                *)
LogoutEndsSession == exited /\ ~failed /\ ~crossed => active = {}
====
