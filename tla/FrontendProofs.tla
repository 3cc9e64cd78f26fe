---- MODULE FrontendProofs ----
(***************************************************************************)
(* The pages of web-frontend keep their promises whatever the constants: a *)
(* section for each, with the inductive invariant its promise needs, and at*)
(* the end the same of all of them side by side (MCFrontend).              *)
(***************************************************************************)
EXTENDS MCFrontend, FiniteSetTheorems, SequenceTheorems, WellFoundedInduction, TLAPS

----
(***************************************************************************)
(* The session of a browser.                                               *)
(***************************************************************************)

(* Those at work with the cookies: refreshing, or with a logout on its way.*)
LoggingOut == {t \in Tabs : exit[t].pc \in {"sent", "answered"}}
AtWork == Refreshing \cup LoggingOut

(* A browser in which no request has failed and no two were at work with   *)
(* the cookies at once: one tab at most is, and not for a refresh and a    *)
(* logout; what the store says belongs to the cookie, and the cookie to an *)
(* active token, as long as nobody has just logged out; a refresh carries  *)
(* that cookie; its answer is active, and so is the cookie it becomes. No  *)
(* refresh is ever rejected.                                               *)
OneAtWork ==
  /\ \A t, u \in Tabs : t \in AtWork /\ u \in AtWork => t = u
  /\ Refreshing \cap LoggingOut = {}

StoreIsCookies ==
  store.session /\ Refreshing = {} /\ (\A t \in Tabs : exit[t].pc # "answered")
    => store.csrf = cookie /\ cookie \in active

RefreshIsGood(t) ==
  /\ refresh[t].pc = "sent" => /\ refresh[t].header = cookie /\ refresh[t].token = cookie
                               /\ cookie \in active
  /\ refresh[t].pc = "answered" => refresh[t].answer \in active
  /\ refresh[t].pc = "stored" => refresh[t].answer = cookie /\ cookie \in active
  /\ refresh[t].pc # "rejected"

Calm == OneAtWork /\ StoreIsCookies /\ (\A t \in Tabs : RefreshIsGood(t)) /\ ~lost

BrowserInv == BrowserTypeOK /\ (~failed /\ ~crossed => Calm)

LEMMA ResumedTyped ==
  ASSUME BrowserTypeOK, NEW t \in Tabs
  PROVE  /\ Resumed(call[t]) \in Call
         /\ Resumed(exit[t]) \in Exit
         /\ Resumed(exit[t]).pc \in {"sent", "answered"} <=> exit[t].pc \in {"sent", "answered"}
         /\ Resumed(exit[t]).pc = "answered" <=> exit[t].pc = "answered"
<1>1. call[t] \in Call /\ exit[t] \in Exit
  BY DEF BrowserTypeOK
<1>2. Resumed(call[t]) \in Call
  BY <1>1 DEF Resumed, Call
<1>3. CASE exit[t].pc # "wait"
  BY <1>1, <1>2, <1>3 DEF Resumed, Exit
<1>4. CASE exit[t].pc = "wait"
  <2>1. Resumed(exit[t]) = [exit[t] EXCEPT !.pc = IF "retried" \in DOMAIN exit[t] /\ exit[t].retried
                                                  THEN "intercept" ELSE "send"]
    BY <1>4 DEF Resumed
  <2>2. Resumed(exit[t]) \in Exit /\ Resumed(exit[t]).pc \in {"intercept", "send"}
    BY <1>1, <2>1 DEF Exit
  <2> QED BY <1>2, <1>4, <2>2
<1> QED BY <1>3, <1>4

(* The types, action by action.                                            *)
LEMMA BrowserTypes == BrowserTypeOK /\ [BrowserNext]_browserVars => BrowserTypeOK'
<1> USE BrowserAssumption
<1> SUFFICES ASSUME BrowserTypeOK, [BrowserNext]_browserVars PROVE BrowserTypeOK'
  OBVIOUS
<1> DEFINE Bits == failed \in BOOLEAN /\ crossed \in BOOLEAN /\ lost \in BOOLEAN /\ exited \in BOOLEAN
           Rest1 == /\ store \in [access : {"none", "good", "old"}, csrf : Token, session : BOOLEAN]
                    /\ cookie \in Token /\ issued \in Token
                    /\ active \subseteq 1 .. issued /\ rotated \subseteq 1 .. issued
           Rest2 == /\ refresh \in [Tabs -> Refresh] /\ call \in [Tabs -> Call]
                    /\ exit \in [Tabs -> Exit] /\ user \in [Tabs -> BOOLEAN]
<1>0. (Bits /\ Rest1 /\ Rest2 <=> BrowserTypeOK) /\ (Bits' /\ Rest1' /\ Rest2' => BrowserTypeOK')
  BY Zenon DEF BrowserTypeOK
<1>1. Bits /\ Rest1 /\ Rest2
  BY <1>0
<1>2. NoRefresh \in Refresh /\ NoCall \in Call /\ NoExit \in Exit /\ 0 \in Token
  BY DEF NoRefresh, NoCall, NoExit, Refresh, Call, Exit, Token
<1>3. SignedOut \in [access : {"none", "good", "old"}, csrf : Token, session : BOOLEAN]
  BY <1>2 DEF SignedOut
<1>4. \A t \in Tabs : AskedAnew(t) \in Refresh
  BY <1>1, <1>2 DEF AskedAnew, Refresh, NoRefresh
<1>5. \A t \in Tabs : RefreshAccessToken(t) => refresh' \in [Tabs -> Refresh]
  BY <1>1, <1>4 DEF RefreshAccessToken
<1>6. \A t \in Tabs : Crosses(t) => crossed' \in BOOLEAN
  BY Zenon DEF Crosses
<1>7. \A t \in Tabs : Resumed(call[t]) \in Call /\ Resumed(exit[t]) \in Exit
  BY ResumedTyped
<1>8. \A n \in Token : n < MaxIssued => n + 1 \in Token /\ 1 .. n \subseteq 1 .. (n + 1) /\ n + 1 \in 1 .. (n + 1)
  BY DEF Token
<1>9. CASE UNCHANGED browserVars
  <2>1. UNCHANGED <<store, cookie, active, rotated, issued, refresh, call, exit, user, failed,
                    crossed, lost, exited>>
    BY <1>9 DEF browserVars, server, history
  <2> QED BY <1>0, <1>1, <2>1, Zenon
<1>10. ASSUME NEW t \in Tabs, SignIn(t) PROVE BrowserTypeOK'
  <2>1. Rest1' /\ Rest2' BY <1>1, <1>8, <1>10 DEF SignIn
  <2>2. Bits' BY <1>1, <1>10, Zenon DEF SignIn
  <2> QED BY <1>0, <2>1, <2>2
<1>11. ASSUME NEW t \in Tabs, LoadApp(t) PROVE BrowserTypeOK'
  <2>1. Rest1' /\ Rest2' BY <1>1, <1>3, <1>11 DEF LoadApp, server
  <2>2. Bits' BY <1>1, <1>11, Zenon DEF LoadApp, history
  <2> QED BY <1>0, <2>1, <2>2
<1>12. ASSUME AccessTokenExpires PROVE BrowserTypeOK'
  <2>1. Rest1' /\ Rest2' BY <1>1, <1>12 DEF AccessTokenExpires, server, Call
  <2>2. Bits' BY <1>1, <1>12, Zenon DEF AccessTokenExpires, history
  <2> QED BY <1>0, <2>1, <2>2
<1>13. ASSUME NEW t \in Tabs, AuthRefreshes(t) PROVE BrowserTypeOK'
  <2>1. refresh[t] \in Refresh BY <1>1
  <2>2. Rest1' BY <1>1, <1>8, <1>13, <2>1 DEF AuthRefreshes, server, Refresh
  <2>5. [NoRefresh EXCEPT !.pc = "rejected"] \in Refresh BY <1>2 DEF NoRefresh, Refresh
  <2>6. issued < MaxIssued =>
          [NoRefresh EXCEPT !.pc = "answered", !.answer = issued + 1] \in Refresh
    BY <1>1, <1>2, <1>8 DEF NoRefresh, Refresh
  <2>3. Rest2' BY <1>1, <1>13, <2>5, <2>6 DEF AuthRefreshes
  <2>4. Bits' BY <1>1, <1>13, Zenon DEF AuthRefreshes, history
  <2> QED BY <1>0, <2>2, <2>3, <2>4
<1>14. ASSUME NEW t \in Tabs, RefreshFails(t) PROVE BrowserTypeOK'
  <2>1. Rest1' /\ Rest2' BY <1>1, <1>2, <1>14 DEF RefreshFails, server, NoRefresh, Refresh
  <2>2. Bits' BY <1>1, <1>14, Zenon DEF RefreshFails
  <2> QED BY <1>0, <2>1, <2>2
<1>15. ASSUME NEW t \in Tabs, CookiesArrive(t) PROVE BrowserTypeOK'
  <2>1. Rest1' /\ Rest2' BY <1>1, <1>15 DEF CookiesArrive, server, Refresh
  <2>2. Bits' BY <1>1, <1>15, Zenon DEF CookiesArrive, history
  <2> QED BY <1>0, <2>1, <2>2
<1>16. ASSUME NEW t \in Tabs, SaveSession(t) PROVE BrowserTypeOK'
  <2>1. refresh[t] \in Refresh BY <1>1
  <2>2. Rest1' BY <1>1, <1>16, <2>1 DEF SaveSession, server, Refresh
  <2>3. Rest2' BY <1>1, <1>2, <1>7, <1>16 DEF SaveSession
  <2>4. Bits' BY <1>1, <1>16, Zenon DEF SaveSession, history
  <2> QED BY <1>0, <2>2, <2>3, <2>4
<1>17. ASSUME NEW t \in Tabs, RefreshRejected(t) PROVE BrowserTypeOK'
  <2>1. Rest1' BY <1>1, <1>3, <1>17 DEF RefreshRejected, server
  <2>2. call' \in [Tabs -> Call] BY <1>1, <1>2, <1>7, <1>17 DEF RefreshRejected
  <2>3. Rest2' BY <1>1, <1>2, <1>7, <1>17, <2>2 DEF RefreshRejected
  <2>4. Bits' BY <1>1, <1>17, Zenon DEF RefreshRejected
  <2> QED BY <1>0, <2>1, <2>3, <2>4
<1>18. ASSUME NEW t \in Tabs, StartCall(t) PROVE BrowserTypeOK'
  <2>1. Rest1' /\ Rest2' BY <1>1, <1>18 DEF StartCall, server, Call
  <2>2. Bits' BY <1>1, <1>18, Zenon DEF StartCall, history
  <2> QED BY <1>0, <2>1, <2>2
<1>19. ASSUME NEW t \in Tabs, InterceptCall(t) PROVE BrowserTypeOK'
  <2>1. refresh' \in [Tabs -> Refresh] BY <1>1, <1>5, <1>19 DEF InterceptCall
  <2>2. Rest1' /\ Rest2' BY <1>1, <1>19, <2>1 DEF InterceptCall, server, Call
  <2>3. crossed' \in BOOLEAN BY <1>1, <1>6, <1>19 DEF InterceptCall
  <2>4. Bits' BY <1>1, <1>19, <2>3, Zenon DEF InterceptCall
  <2> QED BY <1>0, <2>2, <2>4
<1>20. ASSUME NEW t \in Tabs, SendCall(t) PROVE BrowserTypeOK'
  <2>1. Rest1' /\ Rest2' BY <1>1, <1>20 DEF SendCall, server, Call
  <2>2. Bits' BY <1>1, <1>20, Zenon DEF SendCall, history
  <2> QED BY <1>0, <2>1, <2>2
<1>21. ASSUME NEW t \in Tabs, Served(t) PROVE BrowserTypeOK'
  <2>1. Rest1' /\ Rest2' BY <1>1, <1>2, <1>21 DEF Served, server, Call
  <2>2. Bits' BY <1>1, <1>21, Zenon DEF Served, history
  <2> QED BY <1>0, <2>1, <2>2
<1>22. ASSUME NEW t \in Tabs, Unauthorised(t) PROVE BrowserTypeOK'
  <2>1. refresh' \in [Tabs -> Refresh] BY <1>1, <1>5, <1>22 DEF Unauthorised
  <2>2. Rest1' /\ Rest2' BY <1>1, <1>2, <1>22, <2>1 DEF Unauthorised, server, Call
  <2>3. crossed' \in BOOLEAN BY <1>1, <1>6, <1>22 DEF Unauthorised
  <2>4. Bits' BY <1>1, <1>22, <2>3, Zenon DEF Unauthorised
  <2> QED BY <1>0, <2>2, <2>4
<1>23. ASSUME NEW t \in Tabs, Logout(t) PROVE BrowserTypeOK'
  <2>1. Rest1' /\ Rest2' BY <1>1, <1>2, <1>23 DEF Logout, server, Exit
  <2>2. Bits' BY <1>1, <1>23, Zenon DEF Logout, history
  <2> QED BY <1>0, <2>1, <2>2
<1>24. ASSUME NEW t \in Tabs, InterceptLogout(t) PROVE BrowserTypeOK'
  <2>1. refresh' \in [Tabs -> Refresh] BY <1>1, <1>5, <1>24 DEF InterceptLogout
  <2>2. Rest1' /\ Rest2' BY <1>1, <1>24, <2>1 DEF InterceptLogout, server, Exit
  <2>3. crossed' \in BOOLEAN BY <1>1, <1>6, <1>24 DEF InterceptLogout
  <2>4. Bits' BY <1>1, <1>24, <2>3, Zenon DEF InterceptLogout
  <2> QED BY <1>0, <2>2, <2>4
<1>25. ASSUME NEW t \in Tabs, SendLogout(t) PROVE BrowserTypeOK'
  <2>1. Rest1' /\ Rest2' BY <1>1, <1>25 DEF SendLogout, server, Exit
  <2>2. Bits' BY <1>1, <1>25, Zenon DEF SendLogout
  <2> QED BY <1>0, <2>1, <2>2
<1>26. ASSUME NEW t \in Tabs, AuthLogsOut(t) PROVE BrowserTypeOK'
  <2>1. Rest1' /\ Rest2' BY <1>1, <1>2, <1>26 DEF AuthLogsOut, server, Exit, NoExit
  <2>2. Bits' BY <1>1, <1>26, Zenon DEF AuthLogsOut
  <2> QED BY <1>0, <2>1, <2>2
<1>27. ASSUME NEW t \in Tabs, LogoutReturns(t) PROVE BrowserTypeOK'
  <2>1. Rest1' /\ Rest2' BY <1>1, <1>2, <1>3, <1>27 DEF LogoutReturns, server
  <2>2. Bits' BY <1>1, <1>27, Zenon DEF LogoutReturns
  <2> QED BY <1>0, <2>1, <2>2
<1> QED
  BY <1>9, <1>10, <1>11, <1>12, <1>13, <1>14, <1>15, <1>16, <1>17, <1>18, <1>19, <1>20, <1>21, <1>22,
     <1>23, <1>24, <1>25, <1>26, <1>27 DEF BrowserNext

(* Who is at work, by the state of refresh and exit.                       *)
LEMMA WhoIsAtWork ==
  /\ LoggingOut \subseteq Leaving
  /\ \A t \in Tabs : t \in Refreshing <=> refresh[t].pc # "none"
  /\ \A t \in Tabs : t \in LoggingOut <=> exit[t].pc \in {"sent", "answered"}
  /\ \A t \in Tabs : t \in AtWork <=> t \in Refreshing \/ t \in LoggingOut
<1>1. LoggingOut \subseteq Leaving
  BY DEF LoggingOut, Leaving
<1>2. \A t \in Tabs : t \in Refreshing <=> refresh[t].pc # "none"
  BY DEF Refreshing
<1>3. \A t \in Tabs : t \in LoggingOut <=> exit[t].pc \in {"sent", "answered"}
  BY DEF LoggingOut
<1>4. \A t \in Tabs : t \in AtWork <=> t \in Refreshing \/ t \in LoggingOut
  BY DEF AtWork
<1> QED BY <1>1, <1>2, <1>3, <1>4

(* When one is at work, all others rest, and it does one thing.            *)
LEMMA OthersRest ==
  ASSUME OneAtWork, NEW t \in Tabs
  PROVE  /\ refresh[t].pc # "none" =>
              /\ exit[t].pc \notin {"sent", "answered"}
              /\ \A u \in Tabs : u # t => refresh[u].pc = "none" /\ exit[u].pc \notin {"sent", "answered"}
         /\ exit[t].pc \in {"sent", "answered"} =>
              /\ refresh[t].pc = "none"
              /\ \A u \in Tabs : u # t => refresh[u].pc = "none" /\ exit[u].pc \notin {"sent", "answered"}
<1>1. \A u \in Tabs : t \in AtWork /\ u # t => u \notin AtWork
  BY DEF OneAtWork
<1>2. ~(t \in Refreshing /\ t \in LoggingOut)
  BY DEF OneAtWork
<1> QED BY <1>1, <1>2, WhoIsAtWork

(* A step that changes no session, no cookie, no token and no refresh, and *)
(* sends no logout, leaves a calm browser calm.                            *)
LEMMA CalmStays ==
  ASSUME Calm, BrowserTypeOK, BrowserTypeOK', ~lost',
         UNCHANGED <<cookie, active, refresh>>,
         store'.session => store.session, store'.session => store'.csrf = store.csrf,
         \A t \in Tabs : exit'[t].pc \in {"sent", "answered"} => exit[t].pc = exit'[t].pc,
         \A t \in Tabs : exit[t].pc = "answered" => exit'[t].pc = "answered" \/ ~store'.session
  PROVE  Calm'
<1>1. Refreshing' = Refreshing /\ LoggingOut' \subseteq LoggingOut
  BY DEF Refreshing, LoggingOut
<1>2. AtWork' \subseteq AtWork
  BY <1>1 DEF AtWork
<1>3. OneAtWork'
  BY <1>1, <1>2 DEF Calm, OneAtWork
<1>4. StoreIsCookies'
  BY <1>1 DEF Calm, StoreIsCookies
<1>5. ASSUME NEW t \in Tabs PROVE RefreshIsGood(t)'
  BY DEF Calm, RefreshIsGood
<1> QED BY <1>3, <1>4, <1>5 DEF Calm

(* A refresh that is joined or begun while nobody else is at work.         *)
LEMMA RefreshBegins ==
  ASSUME Calm, BrowserTypeOK, BrowserTypeOK', NEW t \in Tabs,
         store.session, RefreshAccessToken(t), Crosses(t), ~crossed', ~lost',
         UNCHANGED <<store, cookie, active>>,
         \A u \in Tabs : exit'[u].pc \in {"sent", "answered"} <=> exit[u].pc \in {"sent", "answered"},
         \A u \in Tabs : exit'[u].pc = "answered" <=> exit[u].pc = "answered"
  PROVE  Calm'
<1>1. (Refreshing \cup Leaving) \ {t} = {} /\ t \notin Leaving
  BY DEF Crosses
<1>2. LoggingOut = {} /\ LoggingOut' = {}
  BY <1>1, WhoIsAtWork DEF LoggingOut
<1>3. \A u \in Tabs : u # t => refresh[u].pc = "none"
  BY <1>1, WhoIsAtWork
<1>4. CASE refresh[t].pc # "none"
  BY <1>4, CalmStays DEF RefreshAccessToken
<1>5. CASE refresh[t].pc = "none"
  <2>1. Refreshing = {}
    BY <1>3, <1>5 DEF Refreshing
  <2>2. store.csrf = cookie /\ cookie \in active
    BY <1>2, <2>1 DEF Calm, StoreIsCookies, LoggingOut
  <2>3. refresh' = [refresh EXCEPT ![t] = [pc |-> "sent", header |-> store.csrf, token |-> cookie, answer |-> 0]]
    BY <1>5 DEF RefreshAccessToken, AskedAnew
  <2>4. /\ refresh'[t] = [pc |-> "sent", header |-> store.csrf, token |-> cookie, answer |-> 0]
        /\ \A u \in Tabs : u # t => refresh'[u].pc = "none"
    BY <1>3, <2>3 DEF BrowserTypeOK
  <2>5. Refreshing' = {t}
    BY <2>4 DEF Refreshing
  <2>6. OneAtWork'
    BY <1>2, <2>5 DEF OneAtWork, AtWork
  <2>7. StoreIsCookies'
    BY <2>5 DEF StoreIsCookies
  <2>8. ASSUME NEW u \in Tabs PROVE RefreshIsGood(u)'
    BY <2>2, <2>4 DEF RefreshIsGood
  <2> QED BY <2>6, <2>7, <2>8 DEF Calm
<1> QED BY <1>4, <1>5

(* A calm browser stays calm until a request fails or two cross: no step   *)
(* gives a session up. Steps that touch neither sessions nor cookies are   *)
(* CalmStays, those that ask for a refresh RefreshBegins.                  *)
LEMMA CalmKept ==
  ASSUME BrowserInv, [BrowserNext]_browserVars, BrowserTypeOK', ~failed', ~crossed'
  PROVE  Calm'
<1>1. BrowserTypeOK /\ BrowserTypeOK'
  BY DEF BrowserInv
<1>2. {failed, crossed, lost, exited} \subseteq BOOLEAN
  BY <1>1, Zenon DEF BrowserTypeOK
<1>3. CASE UNCHANGED browserVars
  <2>1. UNCHANGED <<store, cookie, active, refresh, exit>> /\ UNCHANGED <<failed, crossed, lost>>
    BY <1>3 DEF browserVars, server, history
  <2>2. Calm BY <2>1 DEF BrowserInv
  <2> QED BY <1>1, <2>1, <2>2, CalmStays DEF Calm
<1>4. ASSUME NEW t \in Tabs, SignIn(t) PROVE Calm'
  <2>1. ~failed /\ ~crossed /\ ~lost' BY <1>4 DEF SignIn, BrowserInv, Calm
  <2>2. Refreshing = {} /\ Leaving = {} BY <1>4 DEF SignIn
  <2>3. Refreshing' = {} /\ LoggingOut' = {}
    BY <1>1, <1>4, <2>2, WhoIsAtWork DEF SignIn, Refreshing, LoggingOut
  <2>4. OneAtWork' BY <2>3 DEF OneAtWork, AtWork
  <2>5. StoreIsCookies' BY <1>4 DEF StoreIsCookies, SignIn
  <2>6. ASSUME NEW u \in Tabs PROVE RefreshIsGood(u)'
    <3>1. refresh'[u].pc = "none" BY <2>3 DEF Refreshing
    <3> QED BY <3>1 DEF RefreshIsGood
  <2> QED BY <2>1, <2>4, <2>5, <2>6 DEF Calm
<1>5. ASSUME NEW t \in Tabs, LoadApp(t) PROVE Calm'
  <2>1. ~failed /\ ~crossed /\ lost' = lost /\ UNCHANGED <<cookie, active, refresh, exit>>
    BY <1>5 DEF LoadApp, history, server
  <2>2. Calm BY <2>1 DEF BrowserInv
  <2>3. store'.session => store' = store BY <1>5 DEF LoadApp, SignedOut
  <2> QED BY <1>1, <2>1, <2>2, <2>3, CalmStays DEF Calm
<1>6. ASSUME AccessTokenExpires PROVE Calm'
  <2>1. ~failed /\ ~crossed /\ lost' = lost /\ UNCHANGED <<cookie, active, refresh, exit>>
    BY <1>6 DEF AccessTokenExpires, history, server
  <2>2. Calm BY <2>1 DEF BrowserInv
  <2>3. store'.session = store.session /\ store'.csrf = store.csrf
    BY <1>1, <1>6 DEF AccessTokenExpires, BrowserTypeOK
  <2> QED BY <1>1, <2>1, <2>2, <2>3, CalmStays DEF Calm
<1>7. ASSUME NEW t \in Tabs, AuthRefreshes(t) PROVE Calm'
  <2>1. ~failed /\ ~crossed /\ lost' = lost /\ UNCHANGED <<store, cookie, exit>>
    BY <1>7 DEF AuthRefreshes, history
  <2>2. Calm BY <2>1 DEF BrowserInv
  <2>3. refresh[t].pc = "sent" BY <1>7 DEF AuthRefreshes
  <2>4. refresh[t].header = cookie /\ refresh[t].token = cookie /\ cookie \in active
    BY <2>2, <2>3 DEF Calm, RefreshIsGood
  <2>5. /\ active' = (active \ {cookie}) \cup {issued + 1}
        /\ refresh' = [refresh EXCEPT ![t] =
             [NoRefresh EXCEPT !.pc = "answered", !.answer = issued + 1]]
    BY <1>7, <2>4 DEF AuthRefreshes, PassesCsrf
  <2>6. /\ refresh'[t].pc = "answered" /\ refresh'[t].answer = issued + 1
        /\ \A u \in Tabs : u # t => refresh'[u] = refresh[u]
    BY <1>1, <2>5 DEF BrowserTypeOK, NoRefresh
  <2>7. Refreshing' = Refreshing /\ LoggingOut' = LoggingOut
    BY <2>1, <2>3, <2>6 DEF Refreshing, LoggingOut
  <2>8. \A u \in Tabs : u # t => refresh'[u].pc = "none"
    BY <2>2, <2>3, <2>6, OthersRest DEF Calm
  <2>9. OneAtWork' BY <2>2, <2>7 DEF Calm, OneAtWork, AtWork
  <2>10. t \in Refreshing' BY <2>6 DEF Refreshing
  <2>11. StoreIsCookies' BY <2>10 DEF StoreIsCookies
  <2>12. ASSUME NEW u \in Tabs PROVE RefreshIsGood(u)'
    BY <2>5, <2>6, <2>8 DEF RefreshIsGood
  <2> QED BY <2>1, <2>2, <2>9, <2>11, <2>12 DEF Calm
<1>8. ASSUME NEW t \in Tabs, RefreshFails(t) PROVE Calm'
  BY <1>8 DEF RefreshFails
<1>9. ASSUME NEW t \in Tabs, CookiesArrive(t) PROVE Calm'
  <2>1. ~failed /\ ~crossed /\ lost' = lost /\ UNCHANGED <<store, active, exit>>
    BY <1>9 DEF CookiesArrive, history, server
  <2>2. Calm BY <2>1 DEF BrowserInv
  <2>3. refresh[t].pc = "answered" /\ refresh[t].answer \in active /\ cookie' = refresh[t].answer
    BY <1>9, <2>2 DEF CookiesArrive, Calm, RefreshIsGood
  <2>4. /\ refresh'[t].pc = "stored" /\ refresh'[t].answer = refresh[t].answer
        /\ \A u \in Tabs : u # t => refresh'[u] = refresh[u]
    BY <1>1, <1>9 DEF CookiesArrive, BrowserTypeOK, Refresh
  <2>5. Refreshing' = Refreshing /\ LoggingOut' = LoggingOut
    BY <2>1, <2>3, <2>4 DEF Refreshing, LoggingOut
  <2>6. \A u \in Tabs : u # t => refresh'[u].pc = "none"
    BY <2>2, <2>3, <2>4, OthersRest DEF Calm
  <2>7. OneAtWork' BY <2>2, <2>5 DEF Calm, OneAtWork, AtWork
  <2>8. t \in Refreshing' BY <2>4 DEF Refreshing
  <2>9. StoreIsCookies' BY <2>8 DEF StoreIsCookies
  <2>10. ASSUME NEW u \in Tabs PROVE RefreshIsGood(u)'
    BY <2>1, <2>3, <2>4, <2>6 DEF RefreshIsGood
  <2> QED BY <2>1, <2>2, <2>7, <2>9, <2>10 DEF Calm
<1>10. ASSUME NEW t \in Tabs, SaveSession(t) PROVE Calm'
  <2>1. ~failed /\ ~crossed /\ lost' = lost /\ UNCHANGED <<cookie, active>>
    BY <1>10 DEF SaveSession, history, server
  <2>2. Calm BY <2>1 DEF BrowserInv
  <2>3. refresh[t].pc = "stored" /\ refresh[t].answer = cookie /\ cookie \in active
    BY <1>10, <2>2 DEF SaveSession, Calm, RefreshIsGood
  <2>4. store'.csrf = cookie BY <1>10, <2>3 DEF SaveSession
  <2>5. \A u \in Tabs : u # t => refresh[u].pc = "none" /\ exit[u].pc \notin {"sent", "answered"}
    BY <2>2, <2>3, OthersRest DEF Calm
  <2>6. exit[t].pc \notin {"sent", "answered"}
    BY <2>2, <2>3, OthersRest DEF Calm
  <2>7. \A u \in Tabs : refresh'[u].pc = "none" /\ exit'[u].pc \notin {"sent", "answered"}
    BY <1>1, <1>10, <2>5, <2>6, ResumedTyped DEF SaveSession, BrowserTypeOK, NoRefresh
  <2>8. OneAtWork' BY <2>7 DEF OneAtWork, AtWork, Refreshing, LoggingOut
  <2>9. StoreIsCookies' BY <2>1, <2>3, <2>4 DEF StoreIsCookies
  <2>10. ASSUME NEW u \in Tabs PROVE RefreshIsGood(u)'
    BY <2>7 DEF RefreshIsGood
  <2> QED BY <2>1, <2>2, <2>8, <2>9, <2>10 DEF Calm
<1>11. ASSUME NEW t \in Tabs, RefreshRejected(t) PROVE Calm'
  <2>1. ~failed /\ ~crossed BY <1>11 DEF RefreshRejected
  <2>2. Calm BY <2>1 DEF BrowserInv
  <2> QED BY <1>11, <2>2 DEF RefreshRejected, Calm, RefreshIsGood
<1>12. ASSUME NEW t \in Tabs, StartCall(t) \/ SendCall(t) \/ Served(t) PROVE Calm'
  <2>1. UNCHANGED <<store, cookie, active, refresh, exit>> /\ ~failed /\ ~crossed /\ lost' = lost
    BY <1>12 DEF StartCall, SendCall, Served, history, server
  <2>2. Calm BY <2>1 DEF BrowserInv
  <2> QED BY <1>1, <2>1, <2>2, CalmStays DEF Calm
<1>13. ASSUME NEW t \in Tabs, InterceptCall(t) \/ Unauthorised(t) PROVE Calm'
  <2>1. /\ ~failed /\ ~crossed /\ lost' = lost
        /\ UNCHANGED <<store, cookie, active, exit>>
        /\ \/ UNCHANGED refresh
           \/ store.session /\ RefreshAccessToken(t) /\ Crosses(t)
    <3>1. Crosses(t) /\ ~crossed' => ~crossed BY DEF Crosses
    <3>2. CASE InterceptCall(t) BY <3>1, <3>2 DEF InterceptCall, Stale, server
    <3>3. CASE Unauthorised(t) BY <3>1, <3>3 DEF Unauthorised, server
    <3> QED BY <1>13, <3>2, <3>3
  <2>2. Calm BY <2>1 DEF BrowserInv
  <2>3. CASE UNCHANGED refresh
    BY <1>1, <2>1, <2>2, <2>3, CalmStays DEF Calm
  <2>4. CASE store.session /\ RefreshAccessToken(t) /\ Crosses(t)
    BY <1>1, <2>1, <2>2, <2>4, RefreshBegins DEF Calm
  <2> QED BY <2>1, <2>3, <2>4
<1>14. ASSUME NEW t \in Tabs, Logout(t) PROVE Calm'
  <2>1. UNCHANGED <<store, cookie, active, refresh>> /\ ~failed /\ ~crossed /\ lost' = lost
    BY <1>14 DEF Logout, history, server
  <2>2. /\ exit[t].pc = "idle" /\ exit'[t].pc = "intercept"
        /\ \A u \in Tabs : u # t => exit'[u] = exit[u]
    BY <1>1, <1>14 DEF Logout, BrowserTypeOK
  <2>3. Calm BY <2>1 DEF BrowserInv
  <2> QED BY <1>1, <2>1, <2>2, <2>3, CalmStays DEF Calm
<1>15. ASSUME NEW t \in Tabs, InterceptLogout(t) PROVE Calm'
  <2>1. /\ ~failed /\ ~crossed /\ lost' = lost
        /\ UNCHANGED <<store, cookie, active>>
        /\ \/ UNCHANGED refresh
           \/ store.session /\ RefreshAccessToken(t) /\ Crosses(t)
    BY <1>15 DEF InterceptLogout, Stale, Crosses, server
  <2>2. /\ exit[t].pc = "intercept" /\ exit'[t].pc \in {"wait", "send"}
        /\ \A u \in Tabs : u # t => exit'[u] = exit[u]
    BY <1>1, <1>15 DEF InterceptLogout, BrowserTypeOK, Exit
  <2>3. Calm BY <2>1 DEF BrowserInv
  <2>4. CASE UNCHANGED refresh
    BY <1>1, <2>1, <2>2, <2>3, <2>4, CalmStays DEF Calm
  <2>5. CASE store.session /\ RefreshAccessToken(t) /\ Crosses(t)
    BY <1>1, <2>1, <2>2, <2>3, <2>5, RefreshBegins DEF Calm
  <2> QED BY <2>1, <2>4, <2>5
<1>16. ASSUME NEW t \in Tabs, SendLogout(t) PROVE Calm'
  <2>1. UNCHANGED <<store, cookie, active, refresh>> /\ ~failed /\ ~crossed /\ lost' = lost
    BY <1>16 DEF SendLogout, server
  <2>2. Refreshing = {} /\ Leaving \ {t} = {}
    BY <1>16 DEF SendLogout
  <2>3. /\ exit'[t].pc = "sent"
        /\ \A u \in Tabs : u # t => exit'[u] = exit[u]
    BY <1>1, <1>16 DEF SendLogout, BrowserTypeOK, Exit
  <2>4. Calm BY <2>1 DEF BrowserInv
  <2>5. Refreshing' = {} /\ LoggingOut' = {t}
    BY <1>1, <2>1, <2>2, <2>3, WhoIsAtWork DEF Refreshing, LoggingOut
  <2>6. OneAtWork' BY <2>5 DEF OneAtWork, AtWork
  <2>7. exit[t].pc = "send" BY <1>16 DEF SendLogout
  <2>8. StoreIsCookies'
    BY <2>1, <2>3, <2>4, <2>5, <2>7 DEF Calm, StoreIsCookies, Refreshing
  <2>9. ASSUME NEW u \in Tabs PROVE RefreshIsGood(u)'
    BY <2>1, <2>4 DEF Calm, RefreshIsGood
  <2> QED BY <2>1, <2>4, <2>6, <2>8, <2>9 DEF Calm
<1>17. ASSUME NEW t \in Tabs, AuthLogsOut(t) PROVE Calm'
  <2>1. UNCHANGED <<store, refresh>> /\ ~failed /\ ~crossed /\ lost' = lost
    BY <1>2, <1>17 DEF AuthLogsOut
  <2>2. /\ exit[t].pc = "sent" /\ exit'[t].pc = "answered"
        /\ \A u \in Tabs : u # t => exit'[u] = exit[u]
    BY <1>1, <1>17 DEF AuthLogsOut, BrowserTypeOK, NoExit
  <2>3. Calm BY <2>1 DEF BrowserInv
  <2>4. \A u \in Tabs : refresh[u].pc = "none"
    BY <2>2, <2>3, OthersRest DEF Calm
  <2>5. Refreshing' = Refreshing /\ LoggingOut' = LoggingOut
    BY <2>1, <2>2 DEF Refreshing, LoggingOut
  <2>6. OneAtWork' BY <2>3, <2>5 DEF Calm, OneAtWork, AtWork
  <2>7. StoreIsCookies' BY <2>2 DEF StoreIsCookies
  <2>8. ASSUME NEW u \in Tabs PROVE RefreshIsGood(u)'
    BY <2>1, <2>4 DEF RefreshIsGood
  <2> QED BY <2>1, <2>3, <2>6, <2>7, <2>8 DEF Calm
<1>18. ASSUME NEW t \in Tabs, LogoutReturns(t) PROVE Calm'
  <2>1. UNCHANGED <<cookie, active, refresh>> /\ ~failed /\ ~crossed /\ lost' = lost
    BY <1>18 DEF LogoutReturns, server
  <2>2. /\ exit'[t].pc = "idle" /\ \A u \in Tabs : u # t => exit'[u] = exit[u]
    BY <1>1, <1>18 DEF LogoutReturns, BrowserTypeOK, NoExit
  <2>3. ~store'.session BY <1>18 DEF LogoutReturns, SignedOut
  <2>4. Calm BY <2>1 DEF BrowserInv
  <2> QED BY <1>1, <2>1, <2>2, <2>3, <2>4, CalmStays DEF Calm
<1> QED
  BY <1>3, <1>4, <1>5, <1>6, <1>7, <1>8, <1>9, <1>10, <1>11, <1>12, <1>13, <1>14, <1>15, <1>16, <1>17,
     <1>18 DEF BrowserNext

(* The shape of a browser's state, in every reachable one.                 *)
THEOREM BrowserTyped == BrowserSpec => []BrowserTypeOK
<1>1. BrowserInit => BrowserTypeOK
  <2> SUFFICES ASSUME BrowserInit PROVE BrowserTypeOK
    OBVIOUS
  <2>1. NoRefresh \in Refresh /\ NoCall \in Call /\ NoExit \in Exit /\ 0 \in Token
    BY BrowserAssumption DEF NoRefresh, NoCall, NoExit, Refresh, Call, Exit, Token
  <2>2. {failed, crossed, lost, exited} \subseteq BOOLEAN
    BY Zenon DEF BrowserInit
  <2>3. store \in [access : {"none", "good", "old"}, csrf : Token, session : BOOLEAN]
    BY <2>1 DEF BrowserInit, SignedOut
  <2> QED BY <2>1, <2>2, <2>3 DEF BrowserInit, BrowserTypeOK
<1> QED BY <1>1, BrowserTypes, PTL DEF BrowserSpec

LEMMA BrowserInvHolds == BrowserSpec => []BrowserInv
<1>1. BrowserInit /\ BrowserTypeOK => BrowserInv
  <2> SUFFICES ASSUME BrowserInit PROVE Calm
    BY DEF BrowserInv
  <2>1. \A t \in Tabs : refresh[t].pc = "none" /\ exit[t].pc = "idle"
    BY DEF BrowserInit, NoRefresh, NoExit
  <2>2. OneAtWork BY <2>1 DEF OneAtWork, AtWork, Refreshing, LoggingOut
  <2>3. StoreIsCookies BY DEF BrowserInit, SignedOut, StoreIsCookies
  <2>4. \A t \in Tabs : RefreshIsGood(t) BY <2>1 DEF RefreshIsGood
  <2> QED BY <2>2, <2>3, <2>4 DEF BrowserInit, Calm
<1>2. BrowserInv /\ BrowserTypeOK' /\ [BrowserNext]_browserVars => BrowserInv'
  BY CalmKept DEF BrowserInv
<1> QED BY <1>1, <1>2, BrowserTyped, PTL DEF BrowserSpec

(* No tab gives up a session that the service would still honour, unless a *)
(* request failed or two tabs crossed (BrowserSession.tla, SessionSurvives;*)
(* auth/refresh in api/client.ts): any number of tabs, any number of       *)
(* requests that find their token expired.                                 *)
THEOREM SessionIsKept == BrowserSpec => []SessionSurvives
<1>1. BrowserInv => SessionSurvives
  BY DEF BrowserInv, Calm, SessionSurvives
<1> QED BY <1>1, BrowserInvHolds, PTL

----
(***************************************************************************)
(* The pages of an account.                                                *)
(***************************************************************************)

Visitors == {"none"} \cup Roles
Origins == {"none", "saved", "dealer", "admin"}
Entry == [status : {"idle", "sending", "sent", "failed"}, started : BOOLEAN, wasGood : BOOLEAN]
Kinds == {"login", "google", "dealer", "admin", "logout", "verify", "reset", "mail"}
Sent1 == [kind : Kinds, who : Visitors, to : {"none", "again", "refused"} \cup Pages, here : BOOLEAN]

(* The pages a request of which the page is still mounted comes from; one  *)
(* for signing out may come from any.                                      *)
SentFrom(c) ==
  CASE c.kind \in {"login", "google"} -> {"login"}
    [] c.kind = "dealer" \/ (c.kind = "logout" /\ c.to = "refused") -> {"dealer/login"}
    [] c.kind = "admin" -> {"admin/login"}
    [] c.kind = "verify" -> {"verify"}
    [] c.kind = "reset" -> {"reset"}
    [] c.kind = "mail" -> {"forgot", "register"}
    [] c.kind = "logout" /\ c.to # "refused" -> Pages

(* What a request is for, and where its page is while it is mounted.       *)
RequestSound(c, at) ==
  /\ c.here => at \in SentFrom(c)
  /\ c.kind \in {"login", "google"} => c.to \in {"search", "saved", "dealer", "admin"}
  /\ c.kind = "admin" => c.to = "admin"
  /\ c.kind = "logout" => c.to \in {"refused", "home", "dealer/login", "admin/login"}
  /\ c.kind \in {"login", "google", "dealer", "admin"} => c.who \in Roles

OfForm(c) == c.kind # "logout" \/ c.to = "refused"

(* A page that waits has a request it waits for.                           *)
WaitsFor(e, reqs) == e.status = "sending" => \E c \in reqs : c.here /\ OfForm(c)

(* A page whose link was good when it was opened: the link is good until   *)
(* its one request is served, which is the last of it.                     *)
LinkIsOwn(e, at, reqs, good) ==
  at \in MailLinks /\ e.wasGood =>
    /\ e.status # "failed"
    /\ \A c \in reqs : c.kind = at => c.here /\ e.status = "sending"
    /\ \A c, d \in reqs : c.kind = at /\ d.kind = at => c = d
    /\ e.status \in {"idle", "sending"} => at \in good
    /\ at = "verify" => (e.started <=> e.status # "idle")

HalfSignedIn(v, by, reqs) == by = "dealer" /\ v # "DEALER" => \E c \in reqs : c.kind = "logout"

RequestsSound(reqs, at) == reqs \subseteq Sent1 /\ \A c \in reqs : RequestSound(c, at)

AccountsInv ==
  /\ visitor \in Visitors /\ via \in {"none", "login", "dealer", "admin"}
  /\ location \in [at : Pages, from : Origins] /\ location.at \in MaySee(visitor)
  /\ entry \in Entry /\ links \subseteq MailLinks /\ sent \in 0 .. MaxCalls
  /\ RequestsSound(requests, location.at)
  /\ WaitsFor(entry, requests)
  /\ LinkIsOwn(entry, location.at, requests, links)
  /\ HalfSignedIn(visitor, via, requests)

(* Where one lands one may be, and a link of a mail leads nowhere else.    *)
LEMMA LandsWhereAllowed ==
  ASSUME NEW at \in Pages, NEW from \in Origins, NEW who \in Visitors
  PROVE  /\ LandsOn(at, from, who) \in [at : Pages, from : Origins]
         /\ LandsOn(at, from, who).at \in MaySee(who)
         /\ LandsOn(at, from, who).at \in MailLinks => at \in MailLinks /\ LandsOn(at, from, who).at = at
         /\ at \in MailLinks => LandsOn(at, from, who).at = at
<1> DEFINE l == LandsOn(at, from, who)
<1>1. CASE Guarded(at, who)
  <2>1. at \in {"saved", "dealer", "admin"} BY <1>1 DEF Guarded
  <2>2. l = [at |-> LoginTo[at], from |-> at] BY <1>1, <2>1 DEF LandsOn
  <2>3. LoginTo[at] \in {"login", "dealer/login", "admin/login"}
    <3>1. CASE at = "saved" BY <3>1 DEF LoginTo
    <3>2. CASE at = "dealer" BY <3>2 DEF LoginTo
    <3>3. CASE at = "admin" BY <3>3 DEF LoginTo
    <3> QED BY <2>1, <3>1, <3>2, <3>3
  <2> DEFINE p == LoginTo[at]
  <2>4. l.at = p /\ l = [at |-> p, from |-> at] BY <2>2
  <2> HIDE DEF p
  <2>5. p \in Pages /\ p \notin MailLinks /\ p \in MaySee(who) BY <2>3 DEF Pages, MailLinks, MaySee, p
  <2>6. l \in [at : Pages, from : Origins] BY <2>1, <2>4, <2>5 DEF Origins
  <2>7. at \notin MailLinks BY <2>1 DEF MailLinks
  <2> HIDE DEF l
  <2>8. l.at \in MaySee(who) /\ l.at \notin MailLinks BY <2>4, <2>5
  <2> QED BY <2>6, <2>7, <2>8 DEF l
<1>2. CASE ~Guarded(at, who) /\ at = "dealer/login" /\ who = "DEALER"
  <2>1. l = [at |-> "dealer", from |-> "none"] BY <1>2 DEF LandsOn, Guarded
  <2> QED BY <1>2, <2>1 DEF Pages, Origins, MaySee, MailLinks
<1>3. CASE ~Guarded(at, who) /\ at = "admin/login" /\ who = "ADMIN"
  <2>1. l = [at |-> "admin", from |-> "none"] BY <1>3 DEF LandsOn, Guarded
  <2> QED BY <1>3, <2>1 DEF Pages, Origins, MaySee, MailLinks
<1>4. CASE /\ ~Guarded(at, who) /\ ~(at = "dealer/login" /\ who = "DEALER")
           /\ ~(at = "admin/login" /\ who = "ADMIN")
  <2>1. l = [at |-> at, from |-> from] BY <1>4 DEF LandsOn
  <2>2. at \in MaySee(who) BY <1>4 DEF Guarded, MaySee, Pages, Visitors, Roles
  <2> QED BY <2>1, <2>2
<1> QED BY <1>1, <1>2, <1>3, <1>4

(* Requests whose page is left are of no page that is mounted.             *)
Apart(c) == [c EXCEPT !.here = FALSE]

LEMMA LeftBehind ==
  ASSUME NEW reqs, NEW at, RequestsSound(reqs, at), NEW to \in Pages
  PROVE  /\ RequestsSound({[c EXCEPT !.here = FALSE] : c \in reqs}, to)
         /\ \A c \in {[d EXCEPT !.here = FALSE] : d \in reqs} :
              ~c.here /\ \E d \in reqs : c.kind = d.kind /\ c.to = d.to
         /\ \A d \in reqs : \E c \in {[e EXCEPT !.here = FALSE] : e \in reqs} : c.kind = d.kind /\ c.to = d.to
<1>1. ASSUME NEW c \in reqs
      PROVE  /\ Apart(c) \in Sent1 /\ ~Apart(c).here /\ Apart(c).kind = c.kind /\ Apart(c).to = c.to
             /\ Apart(c).who = c.who
  BY DEF RequestsSound, Sent1, Apart
<1>2. \A c \in reqs : RequestSound(Apart(c), to)
  BY <1>1 DEF RequestsSound, RequestSound
<1>3. {[c EXCEPT !.here = FALSE] : c \in reqs} = {Apart(c) : c \in reqs} BY DEF Apart
<1> QED BY <1>1, <1>2, <1>3 DEF RequestsSound

(* The page that comes next, with the requests that go on.                 *)
LEMMA LedTo ==
  ASSUME NEW at \in Pages, NEW from \in Origins, NEW who \in Visitors, NEW others,
         location \in [at : Pages, from : Origins], entry \in Entry,
         RequestsSound(others, location.at), LinkIsOwn(entry, location.at, others, links),
         at \in MailLinks => at = location.at,
         LeadTo(at, from, who, others)
  PROVE  /\ location' \in [at : Pages, from : Origins] /\ location'.at \in MaySee(who)
         /\ entry' \in Entry /\ RequestsSound(requests', location'.at)
         /\ WaitsFor(entry, others) \/ location'.at # location.at => WaitsFor(entry', requests')
         /\ LinkIsOwn(entry', location'.at, requests', links)
         /\ \A d \in others : \E c \in requests' : c.kind = d.kind /\ c.to = d.to
<1>1. /\ location' \in [at : Pages, from : Origins] /\ location'.at \in MaySee(who)
      /\ location'.at \in MailLinks => at \in MailLinks /\ location'.at = at
  BY LandsWhereAllowed DEF LeadTo
<1>2. CASE location'.at = location.at
  <2>1. entry' = entry /\ requests' = others BY <1>2 DEF LeadTo
  <2> QED BY <1>1, <1>2, <2>1
<1>3. CASE location'.at # location.at
  <2>1. entry' = NoForm /\ requests' = {[c EXCEPT !.here = FALSE] : c \in others} BY <1>3 DEF LeadTo
  <2>2. location'.at \in Pages BY <1>1
  <2>3. /\ RequestsSound(requests', location'.at)
        /\ \A d \in others : \E c \in requests' : c.kind = d.kind /\ c.to = d.to
    BY <2>1, <2>2, LeftBehind
  <2>4. entry' \in Entry /\ entry'.status = "idle" /\ ~entry'.wasGood BY <2>1 DEF NoForm, Entry
  <2> QED BY <1>1, <2>3, <2>4 DEF WaitsFor, LinkIsOwn
<1> QED BY <1>2, <1>3

(* Fewer requests: what is left is as it was.                              *)
LEMMA FewerRequests ==
  ASSUME NEW reqs, NEW less \in SUBSET reqs, NEW at, NEW e, NEW good
  PROVE  /\ RequestsSound(reqs, at) => RequestsSound(less, at)
         /\ LinkIsOwn(e, at, reqs, good) => LinkIsOwn(e, at, less, good)
BY DEF RequestsSound, LinkIsOwn

(* A request that is sent by the form of the page.                         *)
LEMMA FormSends ==
  ASSUME AccountsInv, NEW c \in Sent1, SendForm(c), c.here, OfForm(c), RequestSound(c, location.at),
         c.kind = "verify" => FALSE,
         c.kind = "reset" => location.at = "reset" /\ entry.status \in {"idle", "failed"},
         location.at \in MailLinks => c.kind = location.at
  PROVE  AccountsInv'
<1>1. /\ sent < MaxCalls /\ sent' = sent + 1 /\ requests' = requests \cup {c}
      /\ entry' = [entry EXCEPT !.status = "sending"] /\ UNCHANGED <<visitor, via, location, links>>
  BY DEF SendForm
<1>2. entry' \in Entry /\ entry'.status = "sending" /\ entry'.wasGood = entry.wasGood BY <1>1 DEF AccountsInv, Entry
<1>3. sent' \in 0 .. MaxCalls BY <1>1, AccountPagesAssumption DEF AccountsInv
<1>4. RequestsSound(requests', location.at) BY <1>1 DEF AccountsInv, RequestsSound
<1>5. WaitsFor(entry', requests') BY <1>1 DEF WaitsFor
<1>6. HalfSignedIn(visitor, via, requests') BY <1>1 DEF AccountsInv, HalfSignedIn
<1>7. LinkIsOwn(entry', location.at, requests', links)
  <2> SUFFICES ASSUME location.at \in MailLinks, entry.wasGood
               PROVE  LinkIsOwn(entry', location.at, requests', links)
    BY <1>2 DEF LinkIsOwn
  <2>1. location.at = "reset" /\ c.kind = "reset" /\ entry.status = "idle" BY DEF AccountsInv, LinkIsOwn, MailLinks
  <2>2. \A d \in requests : d.kind # "reset" BY <2>1 DEF AccountsInv, LinkIsOwn
  <2>3. "reset" \in links BY <2>1 DEF AccountsInv, LinkIsOwn
  <2> QED BY <1>1, <1>2, <2>1, <2>2, <2>3 DEF LinkIsOwn
<1> QED BY <1>1, <1>2, <1>3, <1>4, <1>5, <1>6, <1>7 DEF AccountsInv

LEMMA RequestsTyped ==
  ASSUME NEW kind \in Kinds, NEW who \in Visitors, NEW to \in {"none", "again", "refused"} \cup Pages
  PROVE  /\ Request(kind, who, to) \in Sent1 /\ Request(kind, who, to).here
         /\ Request(kind, who, to).kind = kind /\ Request(kind, who, to).to = to
         /\ Request(kind, who, to).who = who
BY DEF Request, Sent1

(* The sign-in pages and the forms of the mails.                           *)
LEMMA FormsKeep ==
  ASSUME AccountsInv,
         \/ \E who \in Roles : SubmitLogin(who) \/ SubmitDealerLogin(who) \/ SubmitAdminLogin(who)
                               \/ SignInWithGoogle(who)
         \/ SubmitReset \/ SubmitAddress
  PROVE  AccountsInv'
<1>1. location \in [at : Pages, from : Origins] BY DEF AccountsInv
<1> DEFINE to1 == IF location.from = "none" THEN "search" ELSE location.from
<1>2. to1 \in {"search", "saved", "dealer", "admin"} BY <1>1 DEF Origins
<1>3. /\ to1 \in {"none", "again", "refused"} \cup Pages
      /\ location.at \in {"none", "again", "refused"} \cup Pages
  BY <1>1, <1>2 DEF Pages
<1>a. {"login", "google", "mail"} \subseteq Kinds /\ "none" \in Visitors BY DEF Kinds, Visitors
<1> HIDE DEF to1
<1>4. \A who \in Roles : who \in Visitors BY DEF Visitors
<1>5. ASSUME NEW who \in Roles, SubmitLogin(who) PROVE AccountsInv'
  <2> DEFINE c == Request("login", who, to1)
  <2>1. c \in Sent1 /\ c.here /\ c.kind = "login" /\ c.to = to1 /\ c.who = who
    BY <1>3, <1>4, <1>a, RequestsTyped
  <2>2. SendForm(c) /\ location.at = "login" BY <1>5 DEF SubmitLogin, to1
  <2> HIDE DEF c
  <2>3. RequestSound(c, location.at) BY <1>2, <2>1, <2>2 DEF RequestSound, SentFrom
  <2> QED BY <2>1, <2>2, <2>3, FormSends DEF OfForm, MailLinks
<1>6. ASSUME NEW who \in Roles, SignInWithGoogle(who) PROVE AccountsInv'
  <2> DEFINE c == Request("google", who, to1)
  <2>1. c \in Sent1 /\ c.here /\ c.kind = "google" /\ c.to = to1 /\ c.who = who
    BY <1>3, <1>4, <1>a, RequestsTyped
  <2>2. SendForm(c) /\ location.at = "login" BY <1>6 DEF SignInWithGoogle, to1
  <2> HIDE DEF c
  <2>3. RequestSound(c, location.at) BY <1>2, <2>1, <2>2 DEF RequestSound, SentFrom
  <2> QED BY <2>1, <2>2, <2>3, FormSends DEF OfForm, MailLinks
<1>7. ASSUME NEW who \in Roles, SubmitDealerLogin(who) PROVE AccountsInv'
  <2> DEFINE c == Request("dealer", who, "dealer")
  <2>1. c \in Sent1 /\ c.here /\ c.kind = "dealer" /\ c.to = "dealer" /\ c.who = who
    BY <1>4, RequestsTyped DEF Kinds, Pages
  <2>2. SendForm(c) /\ location.at = "dealer/login" BY <1>7 DEF SubmitDealerLogin
  <2> HIDE DEF c
  <2>3. RequestSound(c, location.at) BY <2>1, <2>2 DEF RequestSound, SentFrom
  <2> QED BY <2>1, <2>2, <2>3, FormSends DEF OfForm, MailLinks
<1>8. ASSUME NEW who \in Roles, SubmitAdminLogin(who) PROVE AccountsInv'
  <2> DEFINE c == Request("admin", who, "admin")
  <2>1. c \in Sent1 /\ c.here /\ c.kind = "admin" /\ c.to = "admin" /\ c.who = who
    BY <1>4, RequestsTyped DEF Kinds, Pages
  <2>2. SendForm(c) /\ location.at = "admin/login" BY <1>8 DEF SubmitAdminLogin
  <2> HIDE DEF c
  <2>3. RequestSound(c, location.at) BY <2>1, <2>2 DEF RequestSound, SentFrom
  <2> QED BY <2>1, <2>2, <2>3, FormSends DEF OfForm, MailLinks
<1>9. CASE SubmitReset
  <2> DEFINE c == Request("reset", "none", "none")
  <2>1. c \in Sent1 /\ c.here /\ c.kind = "reset" /\ c.to = "none" /\ c.who = "none"
    BY RequestsTyped DEF Kinds, Visitors
  <2>2. SendForm(c) /\ location.at = "reset" /\ entry.status \in {"idle", "failed"} BY <1>9 DEF SubmitReset
  <2> HIDE DEF c
  <2>3. RequestSound(c, location.at) BY <2>1, <2>2 DEF RequestSound, SentFrom
  <2> QED BY <2>1, <2>2, <2>3, FormSends DEF OfForm, MailLinks
<1>10. CASE SubmitAddress
  <2> DEFINE at1 == location.at
             c == Request("mail", "none", at1)
  <2>0. at1 \in {"none", "again", "refused"} \cup Pages BY <1>3
  <2>2. SendForm(c) /\ location.at \in {"forgot", "register"} BY <1>10 DEF SubmitAddress
  <2> HIDE DEF at1
  <2>1. c \in Sent1 /\ c.here /\ c.kind = "mail" /\ c.who = "none"
    BY <2>0, <1>a, RequestsTyped
  <2> HIDE DEF c
  <2>3. RequestSound(c, location.at) BY <2>1, <2>2 DEF RequestSound, SentFrom
  <2> QED BY <2>1, <2>2, <2>3, FormSends DEF OfForm, MailLinks
<1> QED BY <1>5, <1>6, <1>7, <1>8, <1>9, <1>10

(* A request is gone, its answer is known to its page if that is mounted,  *)
(* and the links are as they were or, for a request with a link, without   *)
(* that link, or with another.                                             *)
LEMMA AnswerHeard ==
  ASSUME AccountsInv, NEW c \in requests, requests' = requests \ {c}, c.kind # "logout",
         UNCHANGED <<visitor, via, location, sent>>,
         NEW status1 \in {"sent", "failed"}, NEW good1 \in BOOLEAN,
         entry' = IF c.here THEN [entry EXCEPT !.status = status1, !.wasGood = good1] ELSE entry,
         good1 => entry.wasGood,
         links' \subseteq MailLinks,
         \A l \in links : l \in links' \/ c.kind = l,
         c.kind \in MailLinks /\ entry.wasGood /\ c.here => status1 = "sent" \/ ~good1
  PROVE  AccountsInv'
<1>1. RequestSound(c, location.at) /\ c \in Sent1 BY DEF AccountsInv, RequestsSound
<1>2. RequestsSound(requests', location.at) BY FewerRequests DEF AccountsInv
<1>3. entry' \in Entry BY DEF AccountsInv, Entry
<1>4. WaitsFor(entry', requests')
  <2>1. CASE c.here BY <2>1 DEF WaitsFor, AccountsInv, Entry
  <2>2. CASE ~c.here BY <2>2 DEF WaitsFor, AccountsInv
  <2> QED BY <2>1, <2>2
<1>5. HalfSignedIn(visitor, via, requests') BY DEF AccountsInv, HalfSignedIn
<1>6. LinkIsOwn(entry', location.at, requests', links')
  <2> SUFFICES ASSUME location.at \in MailLinks, entry'.wasGood
               PROVE  LinkIsOwn(entry', location.at, requests', links')
    BY DEF LinkIsOwn
  <2>1. entry.wasGood BY DEF AccountsInv, Entry
  <2>2. LinkIsOwn(entry, location.at, requests, links) BY DEF AccountsInv
  <2>3. CASE c.kind = location.at
    <3>1. c.here /\ entry.status = "sending" BY <2>1, <2>2, <2>3 DEF LinkIsOwn
    <3>2. \A d \in requests' : d.kind # location.at BY <2>1, <2>2, <2>3 DEF LinkIsOwn
    <3>3. /\ entry'.status = status1 /\ entry'.wasGood = good1 /\ entry'.started = entry.started
      BY <3>1 DEF AccountsInv, Entry
    <3>4. status1 = "sent" BY <2>1, <2>3, <3>1, <3>3
    <3> QED BY <2>1, <2>2, <3>1, <3>2, <3>3, <3>4 DEF LinkIsOwn
  <2>4. CASE c.kind # location.at
    <3>1. ~c.here
      BY <1>1, <2>4 DEF RequestSound, SentFrom, MailLinks, Sent1, Kinds
    <3>2. entry' = entry /\ (location.at \in links => location.at \in links') BY <2>4, <3>1
    <3> QED BY <2>1, <2>2, <3>2 DEF LinkIsOwn
  <2> QED BY <2>3, <2>4
<1> QED BY <1>2, <1>3, <1>4, <1>5, <1>6 DEF AccountsInv

(* The answers the pages wait for, but for those of a sign-in that worked. *)
LEMMA AnswersKeep ==
  ASSUME AccountsInv, NEW c \in requests,
         SignInFails(c) \/ LinkServed(c) \/ LinkLost(c) \/ MailRequested(c) \/ MailRefused(c)
  PROVE  AccountsInv'
<1>1. entry \in Entry /\ links \subseteq MailLinks BY DEF AccountsInv
<1>2. RequestSound(c, location.at) /\ c \in Sent1 BY DEF AccountsInv, RequestsSound
<1> DEFINE good1 == entry.wasGood
<1>3. good1 \in BOOLEAN BY <1>1 DEF Entry
<1>4. \A s1 \in {"sent", "failed"} :
        [entry EXCEPT !.status = s1] = [entry EXCEPT !.status = s1, !.wasGood = good1]
  BY <1>1 DEF Entry
<1>5. good1 <=> entry.wasGood OBVIOUS
<1> HIDE DEF good1
<1>6. CASE SignInFails(c)
  <2>1. /\ requests' = requests \ {c} /\ c.kind \notin MailLinks /\ c.kind # "logout"
        /\ entry' = IF c.here THEN [entry EXCEPT !.status = "failed", !.wasGood = good1] ELSE entry
        /\ UNCHANGED <<visitor, via, location, links, sent>>
    BY <1>4, <1>6 DEF SignInFails, MailLinks
  <2>2. UNCHANGED <<visitor, via, location, sent>> /\ links' = links BY <2>1
  <2> QED BY <1>1, <1>3, <1>5, <2>1, <2>2, AnswerHeard
<1>7. CASE LinkServed(c)
  <2> DEFINE s1 == IF c.kind \in links THEN "sent" ELSE "failed"
  <2>1. s1 \in {"sent", "failed"} OBVIOUS
  <2>2. ASSUME entry.wasGood, c.here PROVE s1 = "sent"
    <3>1. location.at = c.kind BY <1>2, <1>7, <2>2 DEF RequestSound, SentFrom, LinkServed, MailLinks
    <3>2. c.kind \in links BY <1>7, <2>2, <3>1 DEF LinkServed, AccountsInv, LinkIsOwn
    <3> QED BY <3>2
  <2>3. /\ requests' = requests \ {c} /\ c.kind \in MailLinks /\ links' = links \ {c.kind}
        /\ entry' = IF c.here THEN [entry EXCEPT !.status = s1] ELSE entry
        /\ UNCHANGED <<visitor, via, location, sent>>
    BY <1>7 DEF LinkServed
  <2> HIDE DEF s1
  <2>4. /\ entry' = IF c.here THEN [entry EXCEPT !.status = s1, !.wasGood = good1] ELSE entry
    BY <1>4, <2>1, <2>3
  <2>5. c.kind # "logout" BY <2>3 DEF MailLinks
  <2>6. links' \subseteq MailLinks /\ \A l \in links : l \in links' \/ c.kind = l BY <1>1, <2>3
  <2> QED BY <1>3, <1>5, <2>1, <2>2, <2>3, <2>4, <2>5, <2>6, AnswerHeard
<1>8. CASE LinkLost(c)
  <2>1. /\ requests' = requests \ {c} /\ c.kind \in MailLinks
        /\ links' \in {links, links \ {c.kind}}
        /\ entry' = IF c.here THEN [entry EXCEPT !.status = "failed", !.wasGood = FALSE] ELSE entry
        /\ UNCHANGED <<visitor, via, location, sent>>
    BY <1>8 DEF LinkLost
  <2>2. c.kind # "logout" BY <2>1 DEF MailLinks
  <2>3. links' \subseteq MailLinks /\ \A l \in links : l \in links' \/ c.kind = l BY <1>1, <2>1
  <2> QED BY <2>1, <2>2, <2>3, AnswerHeard
<1>9. CASE MailRequested(c)
  <2>1. /\ requests' = requests \ {c} /\ c.kind = "mail"
        /\ links' = links \cup {IF c.to = "forgot" THEN "reset" ELSE "verify"}
        /\ entry' = IF c.here THEN [entry EXCEPT !.status = "sent", !.wasGood = good1] ELSE entry
        /\ UNCHANGED <<visitor, via, location, sent>>
    BY <1>4, <1>9 DEF MailRequested
  <2>2. c.kind # "logout" /\ c.kind \notin MailLinks BY <2>1 DEF MailLinks
  <2>3. links' \subseteq MailLinks /\ \A l \in links : l \in links' BY <1>1, <2>1 DEF MailLinks
  <2> QED BY <1>3, <1>5, <2>1, <2>2, <2>3, AnswerHeard
<1>10. CASE MailRefused(c)
  <2>1. /\ requests' = requests \ {c} /\ c.kind = "mail"
        /\ entry' = IF c.here THEN [entry EXCEPT !.status = "failed", !.wasGood = good1] ELSE entry
        /\ UNCHANGED <<visitor, via, location, links, sent>>
    BY <1>4, <1>10 DEF MailRefused
  <2>2. c.kind # "logout" /\ c.kind \notin MailLinks BY <2>1 DEF MailLinks
  <2>3. UNCHANGED <<visitor, via, location, sent>> /\ links' = links BY <2>1
  <2> QED BY <1>1, <1>3, <1>5, <2>1, <2>2, <2>3, AnswerHeard
<1> QED BY <1>6, <1>7, <1>8, <1>9, <1>10

(* Somebody is signed in, or out: the page that comes next is for whoever  *)
(* it is now, and requests for signing out go on.                          *)
LEMMA Turns ==
  ASSUME AccountsInv, NEW at \in Pages, NEW from \in Origins, NEW who \in Visitors, NEW by1,
         by1 \in {"none", "login", "dealer", "admin"}, NEW others,
         RequestsSound(others, location.at), LinkIsOwn(entry, location.at, others, links),
         at \in MailLinks => at = location.at,
         visitor' = who, via' = by1, LeadTo(at, from, who, others), UNCHANGED <<links, sent>>,
         WaitsFor(entry, others) \/ location'.at # location.at,
         HalfSignedIn(who, by1, others)
  PROVE  AccountsInv'
<1>1. location \in [at : Pages, from : Origins] /\ entry \in Entry BY DEF AccountsInv
<1>2. /\ location' \in [at : Pages, from : Origins] /\ location'.at \in MaySee(who)
      /\ entry' \in Entry /\ RequestsSound(requests', location'.at)
      /\ WaitsFor(entry', requests')
      /\ LinkIsOwn(entry', location'.at, requests', links)
      /\ \A d \in others : \E c \in requests' : c.kind = d.kind /\ c.to = d.to
  BY <1>1, LedTo
<1>3. HalfSignedIn(visitor', via', requests') BY <1>2 DEF HalfSignedIn
<1> QED BY <1>2, <1>3 DEF AccountsInv

LEMMA TurnsKeep ==
  ASSUME AccountsInv, (\E at \in Pages : Open(at)) \/ SessionExpires
  PROVE  AccountsInv'
<1>1. location \in [at : Pages, from : Origins] /\ location.at \in Pages /\ location.from \in Origins
      /\ visitor \in Visitors /\ via \in {"none", "login", "dealer", "admin"}
      /\ RequestsSound(requests, location.at) /\ LinkIsOwn(entry, location.at, requests, links)
      /\ WaitsFor(entry, requests) /\ HalfSignedIn(visitor, via, requests)
  BY DEF AccountsInv
<1>2. ASSUME NEW at \in Pages, Open(at) PROVE AccountsInv'
  <2>1. /\ at \notin MailLinks /\ LeadTo(at, "none", visitor, requests)
        /\ visitor' = visitor /\ via' = via /\ UNCHANGED <<links, sent>>
    BY <1>2 DEF Open
  <2>2. "none" \in Origins BY DEF Origins
  <2> QED BY <1>1, <2>1, <2>2, Turns
<1>3. CASE SessionExpires
  <2>1. /\ LeadTo(location.at, location.from, "none", requests)
        /\ visitor' = "none" /\ via' = "none" /\ UNCHANGED <<links, sent>>
    BY <1>3 DEF SessionExpires
  <2>2. "none" \in Visitors /\ HalfSignedIn("none", "none", requests) BY DEF Visitors, HalfSignedIn
  <2> QED BY <1>1, <2>1, <2>2, Turns
<1> QED BY <1>2, <1>3

LEMMA SignInsKeep ==
  ASSUME AccountsInv, NEW c \in requests, SignedIn(c) \/ DealerSignedIn(c)
  PROVE  AccountsInv'
<1>1. location \in [at : Pages, from : Origins] /\ location.at \in Pages /\ location.from \in Origins
      /\ RequestsSound(requests, location.at) /\ LinkIsOwn(entry, location.at, requests, links)
      /\ WaitsFor(entry, requests)
  BY DEF AccountsInv
<1>2. RequestSound(c, location.at) /\ c \in Sent1 BY DEF AccountsInv, RequestsSound
<1>3. RequestsSound(requests \ {c}, location.at) /\ LinkIsOwn(entry, location.at, requests \ {c}, links)
  BY <1>1, FewerRequests
<1>4. ~c.here => WaitsFor(entry, requests \ {c}) BY <1>1 DEF WaitsFor
<1>5. CASE SignedIn(c)
  <2> DEFINE by1 == IF c.kind = "admin" THEN "admin" ELSE "login"
  <2>1. /\ c.kind \in {"login", "google", "admin"} /\ (c.kind = "admin") = (c.who = "ADMIN")
        /\ visitor' = c.who /\ via' = by1 /\ LeadTo(c.to, "none", c.who, requests \ {c})
        /\ UNCHANGED <<links, sent>>
    BY <1>5 DEF SignedIn, Accepted
  <2>2. by1 \in {"none", "login", "dealer", "admin"} /\ by1 # "dealer" OBVIOUS
  <2> HIDE DEF by1
  <2>3. c.who \in Roles /\ c.who \in Visitors BY <1>2, <2>1 DEF RequestSound, Visitors
  <2>4. c.to \in {"search", "saved", "dealer", "admin"} BY <1>2, <2>1 DEF RequestSound
  <2>5. c.to \in Pages /\ c.to \notin MailLinks BY <2>4 DEF Pages, MailLinks
  <2>6. ASSUME c.here PROVE location'.at # location.at
    <3>1. CASE c.kind \in {"login", "google"}
      <4>1. location.at = "login" BY <1>2, <2>6, <3>1 DEF RequestSound, SentFrom
      <4>2. location'.at # "login"
        <5>1. location' = LandsOn(c.to, "none", c.who) BY <2>1 DEF LeadTo
        <5>2. CASE Guarded(c.to, c.who)
          <6>1. c.to \in {"dealer", "admin"} BY <2>3, <2>4, <5>2 DEF Guarded, Roles
          <6>2. LandsOn(c.to, "none", c.who) = [at |-> LoginTo[c.to], from |-> c.to]
            BY <5>2, <6>1 DEF LandsOn
          <6>3. CASE c.to = "dealer" BY <5>1, <6>2, <6>3 DEF LoginTo
          <6>4. CASE c.to = "admin" BY <5>1, <6>2, <6>4 DEF LoginTo
          <6> QED BY <6>1, <6>3, <6>4
        <5>3. CASE ~Guarded(c.to, c.who)
          <6>1. LandsOn(c.to, "none", c.who) = [at |-> c.to, from |-> "none"] BY <2>4, <5>3 DEF LandsOn
          <6> QED BY <2>4, <5>1, <6>1
        <5> QED BY <5>2, <5>3
      <4> QED BY <4>1, <4>2
    <3>2. CASE c.kind = "admin"
      <4>1. location.at = "admin/login" BY <1>2, <2>6, <3>2 DEF RequestSound, SentFrom
      <4>2. c.to = "admin" /\ c.who = "ADMIN" BY <1>2, <2>1, <3>2 DEF RequestSound
      <4>3. LandsOn("admin", "none", "ADMIN") = [at |-> "admin", from |-> "none"] BY DEF LandsOn, Guarded
      <4>4. location'.at = "admin" BY <2>1, <4>2, <4>3 DEF LeadTo
      <4> QED BY <4>1, <4>4
    <3> QED BY <2>1, <3>1, <3>2
  <2>7. WaitsFor(entry, requests \ {c}) \/ location'.at # location.at BY <1>4, <2>6
  <2>8. HalfSignedIn(c.who, by1, requests \ {c}) BY <2>2 DEF HalfSignedIn
  <2>9. "none" \in Origins BY DEF Origins
  <2> DEFINE others == requests \ {c}
  <2>10. /\ RequestsSound(others, location.at) /\ LinkIsOwn(entry, location.at, others, links)
         /\ LeadTo(c.to, "none", c.who, others) /\ HalfSignedIn(c.who, by1, others)
         /\ WaitsFor(entry, others) \/ location'.at # location.at
    BY <1>3, <2>1, <2>7, <2>8
  <2> HIDE DEF others
  <2> QED BY <2>1, <2>2, <2>3, <2>5, <2>9, <2>10, Turns
<1>6. CASE DealerSignedIn(c)
  <2>1. /\ c.kind = "dealer" /\ visitor' = c.who /\ via' = "dealer" /\ UNCHANGED <<links, sent>>
    BY <1>6 DEF DealerSignedIn
  <2>2. c.who \in Roles /\ c.who \in Visitors BY <1>2, <2>1 DEF RequestSound, Visitors
  <2>3. CASE c.who = "DEALER" /\ LeadTo("dealer", "none", c.who, requests \ {c})
    <3>1. ASSUME c.here PROVE location'.at # location.at
      <4>1. location.at = "dealer/login" BY <1>2, <2>1, <3>1 DEF RequestSound, SentFrom
      <4>2. LandsOn("dealer", "none", "DEALER") = [at |-> "dealer", from |-> "none"] BY DEF LandsOn, Guarded
      <4>3. location'.at = "dealer" BY <2>3, <4>2 DEF LeadTo
      <4> QED BY <4>1, <4>3
    <3>2. WaitsFor(entry, requests \ {c}) \/ location'.at # location.at BY <1>4, <3>1
    <3>3. HalfSignedIn(c.who, "dealer", requests \ {c}) BY <2>3 DEF HalfSignedIn
    <3>4. "none" \in Origins /\ "dealer" \in Pages /\ "dealer" \notin MailLinks
      BY DEF Origins, Pages, MailLinks
    <3> DEFINE others == requests \ {c}
    <3>5. /\ RequestsSound(others, location.at) /\ LinkIsOwn(entry, location.at, others, links)
          /\ LeadTo("dealer", "none", c.who, others) /\ HalfSignedIn(c.who, "dealer", others)
          /\ WaitsFor(entry, others) \/ location'.at # location.at
      BY <1>3, <2>3, <3>2, <3>3
    <3> HIDE DEF others
    <3> QED BY <2>1, <2>2, <3>4, <3>5, Turns
  <2>4. CASE /\ c.who # "DEALER"
             /\ LeadTo(location.at, location.from, c.who,
                       (requests \ {c}) \cup {[c EXCEPT !.kind = "logout", !.to = "refused"]})
    <3> DEFINE out == [c EXCEPT !.kind = "logout", !.to = "refused"]
               others == (requests \ {c}) \cup {out}
    <3>1. out \in Sent1 /\ out.kind = "logout" /\ out.to = "refused" /\ out.here = c.here
      BY <1>2 DEF Sent1, Kinds
    <3> HIDE DEF out
    <3>2. RequestSound(out, location.at) BY <1>2, <2>1, <3>1 DEF RequestSound, SentFrom
    <3>3. RequestsSound(others, location.at) BY <1>3, <3>1, <3>2 DEF RequestsSound
    <3>4. LinkIsOwn(entry, location.at, others, links) BY <1>3, <3>1 DEF LinkIsOwn, MailLinks
    <3>5. WaitsFor(entry, others) BY <1>1, <2>1, <3>1 DEF WaitsFor, OfForm
    <3>6. HalfSignedIn(c.who, "dealer", others) BY <3>1 DEF HalfSignedIn
    <3>7. LeadTo(location.at, location.from, c.who, others) BY <2>4 DEF out
    <3> HIDE DEF others
    <3> QED BY <1>1, <2>1, <2>2, <3>3, <3>4, <3>5, <3>6, <3>7, Turns
  <2> QED BY <1>6, <2>3, <2>4 DEF DealerSignedIn
<1> QED BY <1>5, <1>6

LEMMA SignOutKeeps ==
  ASSUME AccountsInv, SignOut
  PROVE  AccountsInv'
<1>1. /\ requests' = requests \cup {Request("logout", visitor, SignOutTo)} /\ visitor \in Visitors
      /\ UNCHANGED <<visitor, via, location, entry, links, sent>> /\ location.at \in Pages
  BY DEF SignOut, AccountsInv
<1>2. SignOutTo \in {"home", "dealer/login", "admin/login"} BY DEF SignOutTo, LoginTo
<1> DEFINE to1 == SignOutTo
           c == Request("logout", visitor, to1)
<1>3. to1 \in {"none", "again", "refused"} \cup Pages /\ to1 \in {"home", "dealer/login", "admin/login"}
  BY <1>2 DEF Pages
<1>4. requests' = requests \cup {c} BY <1>1
<1> HIDE DEF to1
<1>5. c \in Sent1 /\ c.kind = "logout" /\ c.to = to1 /\ c.here BY <1>1, <1>3, RequestsTyped DEF Kinds
<1> HIDE DEF c
<1>6. RequestSound(c, location.at) BY <1>1, <1>3, <1>5 DEF RequestSound, SentFrom
<1>7. RequestsSound(requests', location.at) BY <1>4, <1>5, <1>6 DEF AccountsInv, RequestsSound
<1>8. WaitsFor(entry, requests') BY <1>4 DEF AccountsInv, WaitsFor
<1>9. LinkIsOwn(entry, location.at, requests', links) BY <1>4, <1>5 DEF AccountsInv, LinkIsOwn, MailLinks
<1>10. HalfSignedIn(visitor, via, requests') BY <1>4, <1>5 DEF HalfSignedIn
<1> QED BY <1>1, <1>7, <1>8, <1>9, <1>10 DEF AccountsInv

LEMMA SignedOutKeeps ==
  ASSUME AccountsInv, NEW c \in requests, SignedOutOf(c)
  PROVE  AccountsInv'
<1>1. location \in [at : Pages, from : Origins] /\ location.at \in Pages /\ location.from \in Origins
      /\ RequestsSound(requests, location.at) /\ LinkIsOwn(entry, location.at, requests, links)
      /\ WaitsFor(entry, requests) /\ entry \in Entry
  BY DEF AccountsInv
<1>2. RequestSound(c, location.at) /\ c \in Sent1 /\ c.kind = "logout"
  BY DEF AccountsInv, RequestsSound, SignedOutOf
<1> DEFINE others == requests \ {c}
<1>3. RequestsSound(others, location.at) /\ LinkIsOwn(entry, location.at, others, links)
  BY <1>1, FewerRequests
<1>4. c.to # "refused" \/ ~c.here => WaitsFor(entry, others) BY <1>1, <1>2 DEF WaitsFor, OfForm
<1>5. /\ visitor' = "none" /\ via' = "none" /\ UNCHANGED <<links, sent>>
      /\ "none" \in Visitors /\ "none" \in Origins /\ HalfSignedIn("none", "none", others)
  BY DEF SignedOutOf, Visitors, Origins, HalfSignedIn
<1>6. CASE c.to # "refused"
  <2>1. LeadTo(c.to, "none", "none", others) BY <1>6 DEF SignedOutOf
  <2>2. c.to \in Pages /\ c.to \notin MailLinks BY <1>2, <1>6 DEF RequestSound, Pages, MailLinks
  <2> HIDE DEF others
  <2> QED BY <1>1, <1>3, <1>4, <1>5, <1>6, <2>1, <2>2, Turns
<1>7. CASE c.to = "refused"
  <2> DEFINE next1 == LandsOn(location.at, location.from, "none")
  <2>1. /\ location' = next1
        /\ requests' = {[d EXCEPT !.here = @ /\ next1.at = location.at] : d \in others}
        /\ entry' = IF next1.at # location.at THEN NoForm
                    ELSE IF c.here THEN [entry EXCEPT !.status = "failed"] ELSE entry
    BY <1>7 DEF SignedOutOf
  <2>2. CASE next1.at # location.at
    <3>1. \A d \in others : [d EXCEPT !.here = @ /\ next1.at = location.at] = [d EXCEPT !.here = FALSE]
      BY <2>2
    <3>2. requests' = {[d EXCEPT !.here = FALSE] : d \in others} BY <2>1, <3>1
    <3>3. LeadTo(location.at, location.from, "none", others) BY <2>1, <2>2, <3>2 DEF LeadTo
    <3>4. location'.at # location.at BY <2>1, <2>2
    <3> HIDE DEF others
    <3> QED BY <1>1, <1>3, <1>5, <3>3, <3>4, Turns
  <2>3. CASE next1.at = location.at
    <3>1. \A d \in others : [d EXCEPT !.here = @ /\ next1.at = location.at] = d
      <4> SUFFICES ASSUME NEW d \in others
                   PROVE  [d EXCEPT !.here = @ /\ next1.at = location.at] = d
        OBVIOUS
      <4>1. d \in Sent1 BY <1>3 DEF RequestsSound
      <4>2. d.here \in BOOLEAN BY <4>1 DEF Sent1
      <4>3. (d.here /\ next1.at = location.at) = d.here BY <2>3, <4>2
      <4> QED BY <4>1, <4>3 DEF Sent1
    <3>2. requests' = others BY <2>1, <3>1
    <3>3. location'.at = location.at BY <2>1, <2>3
    <3>4. CASE ~c.here
      <4>1. entry' = entry BY <2>1, <2>3, <3>4
      <4>2. LeadTo(location.at, location.from, "none", others) BY <2>1, <3>2, <3>3, <4>1 DEF LeadTo
      <4> HIDE DEF others
      <4> QED BY <1>1, <1>3, <1>4, <1>5, <3>4, <4>2, Turns
    <3>5. CASE c.here
      <4>1. entry' = [entry EXCEPT !.status = "failed"] BY <2>1, <2>3, <3>5
      <4>2. entry' \in Entry /\ entry'.status = "failed" BY <1>1, <4>1 DEF Entry
      <4>3. location.at = "dealer/login" BY <1>2, <1>7, <3>5 DEF RequestSound, SentFrom
      <4>4. location' \in [at : Pages, from : Origins] /\ location'.at \in MaySee("none")
        BY <1>1, <1>5, <2>1, LandsWhereAllowed
      <4>5. RequestsSound(requests', location'.at) BY <1>3, <3>2, <3>3
      <4>6. WaitsFor(entry', requests') BY <4>2 DEF WaitsFor
      <4>7. LinkIsOwn(entry', location'.at, requests', links) BY <3>3, <4>3 DEF LinkIsOwn, MailLinks
      <4>8. HalfSignedIn(visitor', via', requests') BY <1>5 DEF HalfSignedIn
      <4> QED BY <1>5, <4>2, <4>4, <4>5, <4>6, <4>7, <4>8 DEF AccountsInv
    <3> QED BY <3>4, <3>5
  <2> QED BY <2>2, <2>3
<1> QED BY <1>6, <1>7

LEMMA LinksKeep ==
  ASSUME AccountsInv, (\E l \in MailLinks : OpenLink(l)) \/ VerifyOnMount
  PROVE  AccountsInv'
<1>1. entry \in Entry /\ RequestsSound(requests, location.at) /\ HalfSignedIn(visitor, via, requests)
      /\ LinkIsOwn(entry, location.at, requests, links)
  BY DEF AccountsInv
<1>2. ASSUME NEW l \in MailLinks, OpenLink(l) PROVE AccountsInv'
  <2>1. /\ location' = [at |-> l, from |-> "none"]
        /\ entry' = [NoForm EXCEPT !.wasGood = l \in links /\ \A c \in requests : c.kind # l]
        /\ requests' = {[c EXCEPT !.here = FALSE] : c \in requests}
        /\ UNCHANGED <<visitor, via, links, sent>>
    BY <1>2 DEF OpenLink
  <2>2. l \in Pages /\ location'.at = l BY <2>1 DEF MailLinks, Pages
  <2>3. location' \in [at : Pages, from : Origins] BY <2>1, <2>2 DEF Origins
  <2>4. l \in MaySee(visitor) BY DEF MaySee, MailLinks, Pages
  <2> DEFINE good == l \in links /\ \A c \in requests : c.kind # l
  <2>5. entry' = [NoForm EXCEPT !.wasGood = good] BY <2>1
  <2>6. good => l \in links /\ \A c \in requests : c.kind # l OBVIOUS
  <2>7. good \in BOOLEAN OBVIOUS
  <2> HIDE DEF good
  <2>8. entry' \in Entry /\ entry'.status = "idle" /\ ~entry'.started /\ entry'.wasGood = good
    BY <2>5, <2>7 DEF NoForm, Entry
  <2> DEFINE left == {[c EXCEPT !.here = FALSE] : c \in requests}
  <2>a. /\ RequestsSound(left, l)
        /\ \A c \in left : ~c.here /\ \E d \in requests : c.kind = d.kind /\ c.to = d.to
        /\ \A d \in requests : \E c \in left : c.kind = d.kind /\ c.to = d.to
    BY <1>1, <2>2, LeftBehind
  <2>b. requests' = left BY <2>1
  <2> HIDE DEF left
  <2>9. /\ RequestsSound(requests', location'.at)
        /\ \A c \in requests' : \E d \in requests : c.kind = d.kind
        /\ \A d \in requests : \E c \in requests' : c.kind = d.kind
    BY <2>2, <2>a, <2>b
  <2>10. LinkIsOwn(entry', location'.at, requests', links')
    BY <2>1, <2>2, <2>6, <2>8, <2>9 DEF LinkIsOwn
  <2>11. HalfSignedIn(visitor, via, requests') BY <1>1, <2>9 DEF HalfSignedIn
  <2>12. WaitsFor(entry', requests') BY <2>8 DEF WaitsFor
  <2> QED BY <2>1, <2>2, <2>3, <2>4, <2>8, <2>9, <2>10, <2>11, <2>12 DEF AccountsInv
<1>3. CASE VerifyOnMount
  <2> DEFINE c == Request("verify", "none", "none")
  <2>1. c \in Sent1 /\ c.here /\ c.kind = "verify" /\ c.to = "none" /\ c.who = "none"
    BY RequestsTyped DEF Kinds, Visitors
  <2>2. /\ location.at = "verify" /\ ~entry.started /\ requests' = requests \cup {c}
        /\ entry' = [entry EXCEPT !.started = TRUE, !.status = "sending"]
        /\ UNCHANGED <<visitor, via, location, links, sent>>
    BY <1>3 DEF VerifyOnMount
  <2> HIDE DEF c
  <2>3. RequestSound(c, location.at) BY <2>1, <2>2 DEF RequestSound, SentFrom
  <2>4. RequestsSound(requests', location.at) BY <1>1, <2>1, <2>2, <2>3 DEF RequestsSound
  <2>5. entry' \in Entry /\ entry'.status = "sending" /\ entry'.started /\ entry'.wasGood = entry.wasGood
    BY <1>1, <2>2 DEF Entry
  <2>6. WaitsFor(entry', requests') BY <2>1, <2>2 DEF WaitsFor, OfForm
  <2>7. HalfSignedIn(visitor, via, requests') BY <1>1, <2>2 DEF HalfSignedIn
  <2>8. LinkIsOwn(entry', location.at, requests', links)
    <3> SUFFICES ASSUME entry.wasGood PROVE LinkIsOwn(entry', location.at, requests', links)
      BY <2>5 DEF LinkIsOwn
    <3>1. entry.status = "idle" BY <1>1, <2>2 DEF LinkIsOwn, MailLinks
    <3>2. "verify" \in links /\ \A d \in requests : d.kind # "verify"
      BY <1>1, <2>2, <3>1 DEF LinkIsOwn, MailLinks
    <3> QED BY <2>1, <2>2, <2>5, <3>2 DEF LinkIsOwn
  <2> QED BY <2>2, <2>4, <2>5, <2>6, <2>7, <2>8 DEF AccountsInv
<1> QED BY <1>2, <1>3

LEMMA AccountsBegin == AccountPagesInit => AccountsInv
<1> SUFFICES ASSUME AccountPagesInit PROVE AccountsInv OBVIOUS
<1>1. /\ visitor = "none" /\ via = "none" /\ location = [at |-> "home", from |-> "none"]
      /\ entry = NoForm /\ requests = {} /\ links = MailLinks /\ sent = 0
  BY DEF AccountPagesInit
<1>2. visitor \in Visitors /\ location \in [at : Pages, from : Origins] /\ sent \in 0 .. MaxCalls
  BY <1>1, AccountPagesAssumption DEF Visitors, Pages, Origins
<1>3. location.at \in MaySee(visitor) /\ location.at \notin MailLinks BY <1>1 DEF MaySee, Pages, MailLinks
<1>4. entry \in Entry /\ entry.status = "idle" BY <1>1 DEF NoForm, Entry
<1> QED BY <1>1, <1>2, <1>3, <1>4 DEF AccountsInv, RequestsSound, WaitsFor, LinkIsOwn, HalfSignedIn

LEMMA AccountsKept == AccountsInv /\ [AccountPagesNext]_accountPageVars => AccountsInv'
<1> SUFFICES ASSUME AccountsInv, [AccountPagesNext]_accountPageVars PROVE AccountsInv' OBVIOUS
<1>1. CASE UNCHANGED accountPageVars
  BY <1>1 DEF accountPageVars, AccountsInv
<1>2. CASE AccountPagesNext
  BY <1>2, TurnsKeep, LinksKeep, FormsKeep, SignInsKeep, AnswersKeep, SignedOutKeeps, SignOutKeeps
  DEF AccountPagesNext
<1> QED BY <1>1, <1>2

(* Every variable of the account's pages is of its type.                   *)
THEOREM AccountPagesTyped ==
  AccountPagesInit /\ [][AccountPagesNext]_accountPageVars => []AccountPagesTypeOK
<1>1. AccountsInv => AccountPagesTypeOK
  BY DEF AccountsInv, AccountPagesTypeOK, Visitors, Origins, Entry, RequestsSound, Sent1, Kinds
<1> QED BY <1>1, AccountsBegin, AccountsKept, PTL

(* Nobody looks at a page of another role, nobody stays half signed in on  *)
(* the dealers' portal, a link that was good never shows as spent, and a   *)
(* page that waits has a request under way, whatever is answered and       *)
(* wherever the tab is by then.                                            *)
THEOREM AccountPagesAreRight ==
  AccountPagesInit /\ [][AccountPagesNext]_accountPageVars => []AccountPagesAreTrue
<1>1. AccountsInv => AccountPagesAreTrue
  BY DEF AccountsInv, AccountPagesAreTrue, WaitsFor, LinkIsOwn, HalfSignedIn
<1> QED BY <1>1, AccountsBegin, AccountsKept, PTL

----
(***************************************************************************)
(* A dealer's own pages.                                                   *)
(***************************************************************************)

DealerAccount == [status : Statuses, type : {"business", "individual"}, name : Names, details : Details]

DealerProfile == [status : Statuses, type : {"business", "individual"}, details : Details]

(* The copies the pages work on: of what never changes, or changes in one  *)
(* direction, every copy is right; the others are, but for answers that    *)
(* were lost and loads that are still to come.                             *)
CopiesAreRight ==
  /\ layout.data # NoProfile =>
       /\ layout.data.type = registered.type
       /\ layout.data.status = "VERIFIED" => registered.status = "VERIFIED"
       /\ ~answerLost /\ ~layout.fetching /\ ~layout.error => layout.data.details = registered.details
  /\ ~answerLost => known = registered.name

(* The form that nobody has typed into is as its effect has reset it.      *)
FormIsReset ==
  place = "profile" /\ layout.data # NoProfile /\ ~fields.dirty =>
    fields.name = known /\ fields.details = layout.data.details

DealerPagesInv ==
  /\ registered \in DealerAccount
  /\ layout \in [data : DealerProfile \cup {NoProfile}, loading : BOOLEAN, error : BOOLEAN, fetching : BOOLEAN]
  /\ known \in Names /\ place \in Routes /\ answerLost \in BOOLEAN
  /\ fields \in [name : Names, details : Details, dirty : BOOLEAN] \cup {Empty}
  /\ asking.step \in {"none", "name", "details", "resubmit"}
  /\ asking.step = "name" => asking.name \in Names
  /\ asking.step \in {"name", "details", "resubmit"} =>
       asking \in [step : {"name", "details", "resubmit"}, name : Names \cup {"none"}, details : Details]
  /\ CopiesAreRight /\ FormIsReset

LEMMA ProfileIsSomething ==
  /\ NoProfile \notin DealerProfile
  /\ \A a \in DealerAccount : ProfileOf(a) \in DealerProfile /\ ProfileOf(a) # NoProfile
BY DEF NoProfile, DealerProfile, DealerAccount, ProfileOf, Statuses

(* What becomes of the account: another name or other details, and of the  *)
(* status only what a resubmission or a decision may do.                   *)
LEMMA AccountChanges ==
  ASSUME NEW a \in DealerAccount
  PROVE  /\ \A name \in Names : /\ [a EXCEPT !.name = name] \in DealerAccount
                                /\ [a EXCEPT !.name = name].name = name
                                /\ [a EXCEPT !.name = name].details = a.details
                                /\ [a EXCEPT !.name = name].status = a.status
                                /\ [a EXCEPT !.name = name].type = a.type
         /\ \A details \in Details : /\ [a EXCEPT !.details = details] \in DealerAccount
                                     /\ [a EXCEPT !.details = details].name = a.name
                                     /\ [a EXCEPT !.details = details].details = details
                                     /\ [a EXCEPT !.details = details].status = a.status
                                     /\ [a EXCEPT !.details = details].type = a.type
BY DEF DealerAccount

(* The profile is loaded again: the copy there is stays meanwhile.         *)
LEMMA Reloads ==
  ASSUME DealerPagesInv, layout' = Reloaded
  PROVE  /\ layout'.data = layout.data /\ layout'.fetching = TRUE
         /\ layout' \in [data : DealerProfile \cup {NoProfile}, loading : BOOLEAN, error : BOOLEAN, fetching : BOOLEAN]
BY DEF DealerPagesInv, Reloaded

(* A request that fails leaves the account as it is, or its answer is lost.*)
LEMMA FailureKeeps ==
  ASSUME DealerPagesInv, NEW saved1 \in DealerAccount, Fails(saved1), saved1.type = registered.type,
         registered.status = "VERIFIED" => saved1.status = "VERIFIED"
  PROVE  DealerPagesInv'
<1>1. asking'.step = "none" /\ UNCHANGED <<layout, known, place, fields>> BY DEF Fails, NothingSaved
<1>2. CASE registered' = saved1 /\ answerLost' = TRUE
  BY <1>1, <1>2 DEF DealerPagesInv, CopiesAreRight, FormIsReset
<1>3. CASE UNCHANGED <<registered, answerLost>>
  BY <1>1, <1>3 DEF DealerPagesInv, CopiesAreRight, FormIsReset
<1> QED BY <1>2, <1>3 DEF Fails

LEMMA DealerPagesKept == DealerPagesInv /\ [DealerPagesNext]_dealerPageVars => DealerPagesInv'
<1> SUFFICES ASSUME DealerPagesInv, [DealerPagesNext]_dealerPageVars PROVE DealerPagesInv'
  OBVIOUS
<1> USE DEF DealerPagesInv, CopiesAreRight, FormIsReset
<1>1. CASE UNCHANGED dealerPageVars
  BY <1>1 DEF dealerPageVars
<1>2. CASE ProfileAnswered
  <2>1. UNCHANGED <<registered, known, place, asking, answerLost>> BY <1>2 DEF ProfileAnswered
  <2>2. CASE /\ layout' = [data |-> ProfileOf(registered), loading |-> FALSE, error |-> FALSE, fetching |-> FALSE]
             /\ ResetFields(known, layout'.data)
    <3>1. /\ layout'.data = ProfileOf(registered) /\ layout'.data.type = registered.type
          /\ layout'.data.status = registered.status /\ layout'.data.details = registered.details
      BY <2>2 DEF ProfileOf
    <3>2. layout'.data \in DealerProfile /\ layout'.data # NoProfile BY <3>1, ProfileIsSomething
    <3>3. layout' \in [data : DealerProfile \cup {NoProfile}, loading : BOOLEAN, error : BOOLEAN, fetching : BOOLEAN]
      BY <2>2, <3>1, <3>2
    <3>4. /\ fields' \in [name : Names, details : Details, dirty : BOOLEAN] \cup {Empty}
          /\ place = "profile" => fields'.name = known /\ fields'.details = layout'.data.details
      BY <2>2, <3>2 DEF ResetFields, Reset, DealerProfile
    <3> QED BY <2>1, <3>1, <3>2, <3>3, <3>4
  <2>3. CASE /\ layout' = [layout EXCEPT !.loading = FALSE, !.error = TRUE, !.fetching = FALSE]
             /\ UNCHANGED fields
    <3>1. layout'.data = layout.data /\ layout'.error = TRUE
          /\ layout' \in [data : DealerProfile \cup {NoProfile}, loading : BOOLEAN, error : BOOLEAN, fetching : BOOLEAN]
      BY <2>3
    <3> QED BY <2>1, <2>3, <3>1
  <2> QED BY <1>2, <2>2, <2>3 DEF ProfileAnswered
<1>3. CASE Redirect
  BY <1>3 DEF Redirect, Landing, RequireVerifiedDealer, RequireDealerType, Routes
<1>4. CASE Save
  BY <1>4 DEF Save, Empty
<1>5. CASE SaveName
  <2> DEFINE saved1 == [registered EXCEPT !.name = asking.name]
  <2>1. /\ saved1 \in DealerAccount /\ saved1.name = asking.name /\ saved1.details = registered.details
        /\ saved1.status = registered.status /\ saved1.type = registered.type
    BY <1>5, AccountChanges DEF SaveName
  <2>2. asking.step = "name" /\ asking.name \in Names BY <1>5 DEF SaveName
  <2>3. CASE /\ registered' = saved1 /\ known' = asking.name /\ ResetFields(asking.name, layout.data)
             /\ asking' = [asking EXCEPT !.step = "details"] /\ UNCHANGED <<layout, place, answerLost>>
    <3> HIDE DEF saved1
    <3>1. /\ asking'.step = "details"
          /\ asking' \in [step : {"name", "details", "resubmit"}, name : Names \cup {"none"}, details : Details]
      BY <2>2, <2>3
    <3>2. /\ fields' \in [name : Names, details : Details, dirty : BOOLEAN] \cup {Empty}
          /\ place = "profile" /\ layout.data # NoProfile =>
               fields'.name = known' /\ fields'.details = layout.data.details
      BY <2>2, <2>3 DEF ResetFields, Reset, DealerProfile
    <3> QED BY <2>1, <2>2, <2>3, <3>1, <3>2
  <2>4. CASE Fails(saved1)
    <3> HIDE DEF saved1
    <3>1. asking'.step = "none" BY <2>4 DEF Fails, NothingSaved
    <3>2. CASE registered' = saved1 /\ answerLost' = TRUE
      BY <2>1, <2>4, <3>1, <3>2 DEF Fails
    <3>3. CASE UNCHANGED <<registered, answerLost>>
      BY <2>4, <3>1, <3>3 DEF Fails
    <3> QED BY <2>4, <3>2, <3>3 DEF Fails
  <2> QED BY <1>5, <2>3, <2>4 DEF SaveName
<1>6. CASE SaveDetails
  <2> DEFINE saved1 == [registered EXCEPT !.details = asking.details]
  <2>1. asking.step = "details" /\ asking.details \in Details BY <1>6 DEF SaveDetails
  <2>2. /\ saved1 \in DealerAccount /\ saved1.name = registered.name
        /\ saved1.status = registered.status /\ saved1.type = registered.type
    BY <2>1, AccountChanges
  <2>3. CASE registered' = saved1 /\ asking' = NothingSaved /\ layout' = Reloaded
             /\ UNCHANGED <<known, place, fields, answerLost>>
    BY <2>2, <2>3, Reloads DEF NothingSaved
  <2>4. CASE Fails(saved1)
    BY <2>2, <2>4, FailureKeeps
  <2> QED BY <1>6, <2>3, <2>4 DEF SaveDetails
<1>7. CASE SaveResubmission
  <2> DEFINE saved1 == [registered EXCEPT !.details = asking.details, !.status = "PENDING"]
  <2>1. asking.step = "resubmit" /\ asking.details \in Details BY <1>7 DEF SaveResubmission
  <2>2. /\ saved1 \in DealerAccount /\ saved1.name = registered.name /\ saved1.type = registered.type
    BY <2>1 DEF DealerAccount, Statuses
  <2>3. CASE registered.status = "REJECTED" /\ registered' = saved1 /\ asking' = NothingSaved
             /\ layout' = Reloaded /\ UNCHANGED <<known, place, fields, answerLost>>
    BY <2>2, <2>3, Reloads DEF NothingSaved
  <2>4. CASE registered.status = "REJECTED" /\ Fails(saved1)
    BY <2>2, <2>4, FailureKeeps
  <2>5. CASE Fails(registered)
    BY <2>5, FailureKeeps
  <2> QED BY <1>7, <2>3, <2>4, <2>5 DEF SaveResubmission
<1>8. CASE Decide
  BY <1>8 DEF Decide, DealerAccount, Statuses
<1>9. ASSUME NEW route1 \in Routes, Go(route1) PROVE DealerPagesInv'
  BY <1>9 DEF Go, Reset, DealerProfile
<1>10. ASSUME NEW name \in Names, NEW details \in Details, Edit(name, details) PROVE DealerPagesInv'
  BY <1>10 DEF Edit
<1>11. ASSUME NEW details \in Details, Resubmit(details) PROVE DealerPagesInv'
  BY <1>11 DEF Resubmit
<1> QED BY <1>1, <1>2, <1>3, <1>4, <1>5, <1>6, <1>7, <1>8, <1>9, <1>10, <1>11 DEF DealerPagesNext

LEMMA DealerPagesBegin == DealerPagesInit => DealerPagesInv
<1> SUFFICES ASSUME DealerPagesInit PROVE DealerPagesInv
  OBVIOUS
<1>1. registered \in DealerAccount BY DEF DealerPagesInit, DealerAccount
<1>2. known = registered.name /\ known \in Names BY <1>1 DEF DealerPagesInit, DealerAccount
<1> QED BY <1>1, <1>2 DEF DealerPagesInit, DealerPagesInv, CopiesAreRight, FormIsReset, Routes, NothingSaved

LEMMA DealerPagesAreTyped == DealerPagesInv => DealerPagesTypeOK
<1> SUFFICES ASSUME DealerPagesInv PROVE DealerPagesTypeOK
  OBVIOUS
<1>1. layout.data = NoProfile \/ (layout.data.status \in Statuses /\ layout.data.details \in Details)
  BY DEF DealerPagesInv, DealerProfile
<1>2. fields = Empty \/ (fields.name \in Names /\ fields.details \in Details /\ fields.dirty \in BOOLEAN)
  BY DEF DealerPagesInv
<1> QED BY <1>1, <1>2 DEF DealerPagesInv, DealerPagesTypeOK, DealerAccount

(* Account, copy, form and request have their types (DealerPages.tla,      *)
(* DealerPagesTypeOK).                                                     *)
THEOREM DealerPagesTyped == DealerPagesInit /\ [][DealerPagesNext]_dealerPageVars => []DealerPagesTypeOK
<1> QED BY DealerPagesBegin, DealerPagesKept, DealerPagesAreTyped, PTL

(* What the profile form shows at rest is what is saved, and the pages and *)
(* links a dealer is offered are allowed to that dealer (DealerPages.tla,  *)
(* DealerPagesAreTrue).                                                    *)
THEOREM DealerPagesAreRight ==
  DealerPagesInit /\ [][DealerPagesNext]_dealerPageVars => []DealerPagesAreTrue
<1>1. DealerPagesInv => DealerPagesAreTrue
  <2> SUFFICES ASSUME DealerPagesInv PROVE FormShowsSaved /\ PagesAreAllowed
    BY DEF DealerPagesAreTrue
  <2>1. FormShowsSaved BY DEF DealerPagesInv, CopiesAreRight, FormIsReset, FormShowsSaved, Loaded
  <2>2. ASSUME Shown(place) \in {"listings", "upload"}
        PROVE  /\ layout.data # NoProfile /\ layout.data.status = "VERIFIED"
               /\ Shown(place) = "upload" => layout.data.type = "business"
    <3>1. ~layout.loading /\ Loaded BY <2>2 DEF Shown
    <3>2. layout.data # NoProfile BY <3>1 DEF Loaded
    <3>3. layout.data.status \in Statuses BY <3>2 DEF DealerPagesInv, DealerProfile
    <3>4. Shown(place) = Landing(place)
      BY <2>2, <3>1, <3>3 DEF Shown, Gate, Statuses
    <3> QED BY <2>2, <3>2, <3>4 DEF Landing, RequireVerifiedDealer, RequireDealerType
  <2>3. \A route1 \in NavItems : Landing(route1) = route1
    BY DEF NavItems, Landing, RequireVerifiedDealer, RequireDealerType, Routes
  <2> QED BY <2>1, <2>2, <2>3 DEF DealerPagesInv, CopiesAreRight, PagesAreAllowed
<1> QED BY <1>1, DealerPagesBegin, DealerPagesKept, PTL

----
(***************************************************************************)
(* The registration wizard.                                                *)
(***************************************************************************)

(* The key the page has is that of a file in storage, under its own name;  *)
(* and a business has one as soon as it has left the first step.           *)
RegistrationInv ==
  /\ RegistrationTypeOK
  /\ document.key = document.name /\ (document.key # NoFile => document.key \in kept)
  /\ step \in 1 .. 3 /\ values.type = "business" => document.key # NoFile
  /\ RegistrationIsComplete

(* A form without errors has a registration number or an NIC, whichever its*)
(* type calls for.                                                         *)
LEMMA NoErrors ==
  ASSUME RegistrationTypeOK, Errors = {}
  PROVE  IF values.type = "business" THEN values.brn ELSE values.nic
<1>1. \A g \in Groups : values[g] # "unset" BY DEF Errors, FieldErrors
<1>2. ASSUME values.type = "business", ~values.brn PROVE FALSE
  <2>1. "brn" \in RefinementErrors BY <1>1, <1>2 DEF RefinementErrors
  <2> QED BY <2>1 DEF Errors
<1>3. ASSUME values.type # "business", ~values.nic PROVE FALSE
  <2>1. values.type = "individual" BY <1>3 DEF RegistrationTypeOK, DealerTypes
  <2>2. "nic" \in RefinementErrors BY <1>1, <1>3, <2>1 DEF RefinementErrors
  <2> QED BY <2>2 DEF Errors
<1> QED BY <1>2, <1>3

LEMMA RegistrationKept == RegistrationInv /\ [RegistrationNext]_registrationVars => RegistrationInv'
<1> SUFFICES ASSUME RegistrationInv, [RegistrationNext]_registrationVars PROVE RegistrationInv'
  OBVIOUS
<1> USE DEF RegistrationInv, RegistrationTypeOK, RegistrationIsComplete
<1>1. CASE UNCHANGED registrationVars
  BY <1>1 DEF registrationVars
<1>2. CASE FillIn
  <2>1. UNCHANGED <<step, document, transfers, kept, sending, profiles>> BY <1>2 DEF FillIn
  <2>2. ASSUME step = 0, NEW value1 \in {"short", "right"}, NEW type1 \in DealerTypes, NEW brn1 \in BOOLEAN,
               NEW nic1 \in BOOLEAN,
               values' = [values EXCEPT !.company = value1, !.type = type1, !.brn = brn1, !.nic = nic1]
        PROVE  RegistrationInv'
    <3>1. values' \in [company : States, contact : States, account : States, type : DealerTypes,
                       brn : BOOLEAN, nic : BOOLEAN]
      BY <2>2 DEF States
    <3> QED BY <2>1, <2>2, <3>1
  <2>3. ASSUME step = 1, values' = [values EXCEPT !.contact = "right"] PROVE RegistrationInv'
    <3>1. values' \in [company : States, contact : States, account : States, type : DealerTypes,
                       brn : BOOLEAN, nic : BOOLEAN] /\ values'.type = values.type
      BY <2>3 DEF States
    <3> QED BY <2>1, <2>3, <3>1
  <2>4. ASSUME step = 2, NEW value1 \in {"unequal", "right"}, values' = [values EXCEPT !.account = value1]
        PROVE  RegistrationInv'
    <3>1. values' \in [company : States, contact : States, account : States, type : DealerTypes,
                       brn : BOOLEAN, nic : BOOLEAN] /\ values'.type = values.type
      BY <2>4 DEF States
    <3> QED BY <2>1, <2>4, <3>1
  <2> QED BY <1>2, <2>2, <2>3, <2>4 DEF FillIn
<1>3. CASE Continue
  <2> DEFINE contact1 == IF step = 0 /\ values.contact = "unset" THEN "wrong" ELSE values.contact
             account1 == IF step = 1 /\ values.account = "unset" THEN "wrong" ELSE values.account
  <2>1. contact1 \in States /\ account1 \in States BY DEF States
  <2>2. values' = [values EXCEPT !.contact = contact1, !.account = account1] BY <1>3 DEF Continue
  <2> HIDE DEF contact1, account1
  <2>3. values' \in [company : States, contact : States, account : States, type : DealerTypes,
                     brn : BOOLEAN, nic : BOOLEAN] /\ values'.type = values.type
    BY <2>1, <2>2
  <2>4. /\ step' = step + 1 /\ step < 3 /\ (step = 0 /\ values.type = "business" => document.key # NoFile)
        /\ UNCHANGED <<document, transfers, kept, sending, profiles>>
    BY <1>3 DEF Continue
  <2> QED BY <2>3, <2>4
<1>4. CASE Back
  BY <1>4 DEF Back
<1>5. CASE SubmitWizard
  BY <1>5, NoErrors DEF SubmitWizard, NoSending, Reviewed
<1>6. CASE RegisterDealer
  BY <1>6 DEF RegisterDealer
<1>7. ASSUME NEW file \in Certificates, SelectDocument(file) PROVE RegistrationInv'
  BY <1>7 DEF SelectDocument
<1>8. ASSUME NEW file \in Certificates, DocumentAnswered(file) PROVE RegistrationInv'
  <2>1. /\ file \in transfers /\ transfers' = transfers \ {file} /\ kept \subseteq kept'
        /\ kept' \subseteq Certificates /\ UNCHANGED <<step, values, sending, profiles>>
    BY <1>8 DEF DocumentAnswered
  <2>2. RegistrationIsComplete' BY <2>1
  <2>3. CASE kept' = kept \cup {file} /\ document' = [key |-> file, name |-> file, uploading |-> FALSE]
    <3>1. file # NoFile BY RegistrationAssumption
    <3> QED BY <2>1, <2>2, <2>3, <3>1
  <2>4. CASE document' = [document EXCEPT !.uploading = FALSE]
    BY <2>1, <2>2, <2>4
  <2> QED BY <1>8, <2>3, <2>4 DEF DocumentAnswered
<1> QED BY <1>1, <1>2, <1>3, <1>4, <1>5, <1>6, <1>7, <1>8 DEF RegistrationNext

LEMMA RegistrationBegins == RegistrationInit => RegistrationInv
BY DEF RegistrationInit, RegistrationInv, RegistrationTypeOK, RegistrationIsComplete, States, DealerTypes, NoSending

(* Wizard, certificate and requests have their types (DealerPages.tla,     *)
(* RegistrationTypeOK).                                                    *)
THEOREM RegistrationTyped == RegistrationInit /\ [][RegistrationNext]_registrationVars => []RegistrationTypeOK
<1>1. RegistrationInv => RegistrationTypeOK BY DEF RegistrationInv
<1> QED BY <1>1, RegistrationBegins, RegistrationKept, PTL

(* What the wizard sends, and what the service makes of it, is complete:   *)
(* a business with its number and the certificate that Review showed, an   *)
(* individual with an NIC (DealerPages.tla, RegistrationIsComplete).       *)
THEOREM RegistrationComplete ==
  RegistrationInit /\ [][RegistrationNext]_registrationVars => []RegistrationIsComplete
<1>1. RegistrationInv => RegistrationIsComplete BY DEF RegistrationInv
<1> QED BY <1>1, RegistrationBegins, RegistrationKept, PTL

----
(***************************************************************************)
(* New listings.                                                           *)
(***************************************************************************)

(* The rows are numbered as they came.                                     *)
RowsInOrder(rows, now) ==
  /\ \A r \in rows : r.id \in 1 .. Cardinality(rows) /\ r.at <= now /\ r.seen < r.id
  /\ \A a, b \in rows : a.id = b.id => a = b
  /\ \A a, b \in rows : a.id < b.id => a.at <= b.at

(* A handler that found no row of its vehicle: those it had seen are too   *)
(* old, and those of its own among them.                                   *)
HasLooked(creations, rows, now) ==
  \A h \in Creations : creations[h].pc = "create" =>
    /\ creations[h].seen <= Cardinality(rows)
    /\ \A r \in rows : r.values.same = creations[h].values.same /\ r.id <= creations[h].seen
                         => r.at + DUPLICATE_CREATE_WINDOW < now
    /\ \A r \in rows : r.by = h => r.id <= creations[h].seen

TwinsOverlapped(rows) == \A a, b \in rows : Twins(a, b) => b.seen < a.id /\ b.by # a.by

NewListingInv ==
  /\ NewListingTypeOK /\ IsFiniteSet(listed)
  /\ RowsInOrder(listed, minute) /\ HasLooked(creation, listed, minute)
  /\ TwinsOverlapped(listed)

LEMMA BlankTyped == Blank \in Values /\ NoCreation \in Creation
<1>1. \E v \in Values : TRUE
  <2>1. PICK a \in Same : TRUE BY NewListingAssumption
  <2>2. PICK b \in Rest : TRUE BY NewListingAssumption
  <2>3. [same |-> a, rest |-> b] \in Values BY DEF Values
  <2> QED BY <2>3
<1>2. Blank \in Values BY <1>1 DEF Blank
<1> QED BY <1>2 DEF NoCreation, Creation

(* Nothing is inserted, and no handler comes to insert.                    *)
LEMMA Forgets ==
  ASSUME NewListingInv, UNCHANGED <<listed, minute>>,
         form' \in [Forms -> {"closed", "open", "sending", "photos"}],
         creation' \in [Creations -> Creation],
         \A g \in Creations : \/ creation'[g].pc # "create"
                              \/ /\ creation'[g].pc = creation[g].pc
                                 /\ creation'[g].values = creation[g].values
                                 /\ creation'[g].seen = creation[g].seen
  PROVE  NewListingInv'
<1>1. NewListingTypeOK' BY DEF NewListingInv, NewListingTypeOK
<1>2. HasLooked(creation', listed, minute) BY DEF NewListingInv, HasLooked
<1> QED BY <1>1, <1>2 DEF NewListingInv

(* A handler has looked, and found nothing.                                *)
LEMMA LookKeeps ==
  ASSUME NewListingInv, NEW h \in Creations, FindRecentDuplicate(h)
  PROVE  NewListingInv'
<1> DEFINE found == \E old \in listed : IsDuplicate(old, creation[h].values)
           pc1 == IF found THEN "answer" ELSE "create"
           n == Cardinality(listed)
<1>1. /\ creation' = [creation EXCEPT ![h].pc = pc1, ![h].seen = n]
      /\ UNCHANGED <<form, listed, minute>> /\ creation[h].pc = "find"
  BY DEF FindRecentDuplicate
<1>2. creation \in [Creations -> Creation] /\ creation[h] \in Creation /\ minute \in 0 .. MaxMinutes
  BY DEF NewListingInv, NewListingTypeOK
<1>3. n \in Nat
  <2>1. IsFiniteSet(listed) BY DEF NewListingInv
  <2> QED BY <2>1, FS_CardinalityType
<1>4. pc1 \in {"answer", "create"} OBVIOUS
<1>5. pc1 = "create" => ~found OBVIOUS
<1> HIDE DEF pc1, n
<1>6. [[creation[h] EXCEPT !.pc = pc1] EXCEPT !.seen = n] \in Creation BY <1>2, <1>3, <1>4 DEF Creation
<1>7. creation' = [creation EXCEPT ![h] = [[creation[h] EXCEPT !.pc = pc1] EXCEPT !.seen = n]]
  BY <1>1, <1>2 DEF Creation
<1>8. creation' \in [Creations -> Creation] BY <1>2, <1>6, <1>7
<1>9. /\ \A g \in Creations \ {h} : creation'[g] = creation[g]
      /\ creation'[h].pc = pc1 /\ creation'[h].seen = n /\ creation'[h].values = creation[h].values
  BY <1>2, <1>7 DEF Creation
<1>10. NewListingTypeOK' BY <1>1, <1>8 DEF NewListingInv, NewListingTypeOK
<1>11. \A r \in listed : r.id \in 1 .. n /\ r.at \in Nat BY DEF NewListingInv, NewListingTypeOK, RowsInOrder, ListedRow, n
<1>12. ~found => \A r \in listed : r.values.same = creation[h].values.same => r.at + DUPLICATE_CREATE_WINDOW < minute
  <2> SUFFICES ASSUME ~found, NEW r \in listed, r.values.same = creation[h].values.same
               PROVE  r.at + DUPLICATE_CREATE_WINDOW < minute
    OBVIOUS
  <2>1. ~IsDuplicate(r, creation[h].values) OBVIOUS
  <2>2. r.at \in Nat /\ minute \in Nat BY <1>2, <1>11
  <2> QED BY <2>1, <2>2, NewListingAssumption DEF IsDuplicate
<1> HIDE DEF found
<1>13. HasLooked(creation', listed, minute)
  <2> SUFFICES ASSUME NEW g \in Creations, creation'[g].pc = "create"
               PROVE  /\ creation'[g].seen <= Cardinality(listed)
                      /\ \A r \in listed : r.values.same = creation'[g].values.same /\ r.id <= creation'[g].seen
                                             => r.at + DUPLICATE_CREATE_WINDOW < minute
                      /\ \A r \in listed : r.by = g => r.id <= creation'[g].seen
    BY DEF HasLooked
  <2>1. CASE g # h BY <1>9, <2>1 DEF NewListingInv, HasLooked
  <2>2. CASE g = h
    <3>1. ~found /\ creation'[g].seen = n /\ creation'[g].values = creation[h].values BY <1>5, <1>9, <2>2
    <3>2. n <= Cardinality(listed) BY <1>3 DEF n
    <3>3. \A r \in listed : r.id <= n BY <1>3, <1>11
    <3> QED BY <1>12, <3>1, <3>2, <3>3
  <2> QED BY <2>1, <2>2
<1> QED BY <1>1, <1>10, <1>13 DEF NewListingInv

LEMMA CreateRowKeeps ==
  ASSUME NewListingInv, NEW h \in Creations, CreateRow(h)
  PROVE  NewListingInv'
<1> DEFINE n == Cardinality(listed)
           new1 == [id |-> n + 1, values |-> creation[h].values, at |-> minute, by |-> h,
                    seen |-> creation[h].seen]
<1>1. /\ creation[h].pc = "create" /\ listed' = listed \cup {new1}
      /\ creation' = [creation EXCEPT ![h].pc = "answer"] /\ UNCHANGED <<form, minute>>
  BY DEF CreateRow, CreationGoto
<1>2. creation \in [Creations -> Creation] /\ creation[h] \in Creation /\ minute \in 0 .. MaxMinutes
  BY DEF NewListingInv, NewListingTypeOK
<1>3. \A r \in listed : r.id \in 1 .. n /\ r.at <= minute /\ r.seen < r.id /\ r.at \in Nat /\ r.seen \in Nat
  BY DEF NewListingInv, NewListingTypeOK, RowsInOrder, ListedRow
<1>4. n \in Nat
  <2>1. IsFiniteSet(listed) BY DEF NewListingInv
  <2> QED BY <2>1, FS_CardinalityType
<1>5. /\ creation[h].seen \in Nat /\ creation[h].seen <= n
      /\ \A r \in listed : r.values.same = creation[h].values.same /\ r.id <= creation[h].seen
                             => r.at + DUPLICATE_CREATE_WINDOW < minute
      /\ \A r \in listed : r.by = h => r.id <= creation[h].seen
  BY <1>1, <1>2 DEF NewListingInv, HasLooked, Creation
<1>6. /\ new1 \in ListedRow /\ new1.id = n + 1 /\ new1.at = minute /\ new1.by = h
      /\ new1.values = creation[h].values /\ new1.seen = creation[h].seen
  BY <1>2, <1>4, <1>5 DEF Creation, ListedRow
<1> HIDE DEF new1
<1>7. new1 \notin listed
  <2>1. new1.id \notin 1 .. n BY <1>4, <1>6
  <2> QED BY <1>3, <2>1
<1>8. IsFiniteSet(listed') /\ Cardinality(listed') = n + 1
  <2>1. IsFiniteSet(listed) BY DEF NewListingInv
  <2>2. IsFiniteSet(listed \cup {new1}) /\ Cardinality(listed \cup {new1}) = n + 1
    BY <1>7, <2>1, FS_AddElement
  <2> QED BY <1>1, <2>2
<1> HIDE DEF n
<1>9. [creation[h] EXCEPT !.pc = "answer"] \in Creation BY <1>2 DEF Creation
<1>10. creation' \in [Creations -> Creation] BY <1>1, <1>2, <1>9
<1>11. NewListingTypeOK' BY <1>1, <1>6, <1>10 DEF NewListingInv, NewListingTypeOK
<1>12. creation'[h].pc = "answer" /\ \A g \in Creations \ {h} : creation'[g] = creation[g]
  BY <1>1, <1>2 DEF Creation
<1>13. RowsInOrder(listed', minute)
  <2>1. \A r \in listed' : r.id \in 1 .. (n + 1) /\ r.at <= minute /\ r.seen < r.id
    <3>1. \A r \in listed : r.id \in 1 .. (n + 1) /\ r.at <= minute /\ r.seen < r.id BY <1>3, <1>4
    <3>2. new1.id \in 1 .. (n + 1) /\ new1.at <= minute /\ new1.seen < new1.id
      BY <1>2, <1>4, <1>5, <1>6
    <3> QED BY <1>1, <3>1, <3>2
  <2>2. \A a, b \in listed' : a.id = b.id => a = b
    <3>1. \A a, b \in listed : a.id = b.id => a = b BY DEF NewListingInv, RowsInOrder
    <3>2. \A a \in listed : a.id # new1.id BY <1>3, <1>4, <1>6
    <3> QED BY <1>1, <3>1, <3>2
  <2>3. \A a, b \in listed' : a.id < b.id => a.at <= b.at
    <3>1. \A a, b \in listed : a.id < b.id => a.at <= b.at BY DEF NewListingInv, RowsInOrder
    <3>2. \A a \in listed : ~(new1.id < a.id) /\ a.at <= new1.at BY <1>3, <1>4, <1>6
    <3>3. ~(new1.id < new1.id) BY <1>4, <1>6
    <3> QED BY <1>1, <3>1, <3>2, <3>3
  <2> QED BY <1>8, <2>1, <2>2, <2>3 DEF RowsInOrder
<1>14. HasLooked(creation', listed', minute)
  <2> SUFFICES ASSUME NEW g \in Creations, creation'[g].pc = "create"
               PROVE  /\ creation'[g].seen <= Cardinality(listed')
                      /\ \A r \in listed' : r.values.same = creation'[g].values.same /\ r.id <= creation'[g].seen
                                             => r.at + DUPLICATE_CREATE_WINDOW < minute
                      /\ \A r \in listed' : r.by = g => r.id <= creation'[g].seen
    BY DEF HasLooked
  <2>1. g # h /\ creation'[g] = creation[g] BY <1>12
  <2>2. /\ creation[g].seen <= n /\ creation[g].seen \in Nat
        /\ \A r \in listed : r.values.same = creation[g].values.same /\ r.id <= creation[g].seen
                               => r.at + DUPLICATE_CREATE_WINDOW < minute
        /\ \A r \in listed : r.by = g => r.id <= creation[g].seen
    BY <1>2, <2>1 DEF NewListingInv, HasLooked, Creation, n
  <2>3. ~(new1.id <= creation[g].seen) /\ new1.by # g BY <1>4, <1>6, <2>1, <2>2
  <2>4. creation[g].seen <= n + 1 BY <1>4, <2>2
  <2> QED BY <1>1, <1>8, <2>1, <2>2, <2>3, <2>4
<1>15. TwinsOverlapped(listed')
  <2> SUFFICES ASSUME NEW a \in listed', NEW b \in listed', Twins(a, b)
               PROVE  b.seen < a.id /\ b.by # a.by
    BY DEF TwinsOverlapped
  <2>1. CASE a \in listed /\ b \in listed BY <2>1 DEF NewListingInv, TwinsOverlapped
  <2>2. CASE a \in listed /\ b = new1
    <3>1. /\ a.values.same = creation[h].values.same
          /\ minute <= a.at + DUPLICATE_CREATE_WINDOW
      BY <1>6, <2>2 DEF Twins
    <3>2. a.at \in Nat /\ minute \in Nat /\ DUPLICATE_CREATE_WINDOW \in Nat
      BY <1>2, <1>3, <2>2, NewListingAssumption
    <3>3. ~(a.id <= creation[h].seen)
      <4>1. ~(a.at + DUPLICATE_CREATE_WINDOW < minute) BY <3>1, <3>2
      <4> QED BY <1>5, <2>2, <3>1, <4>1
    <3>4. a.id \in Nat BY <1>3, <1>4, <2>2
    <3>5. a.by # h BY <1>5, <2>2, <3>3
    <3> QED BY <1>5, <1>6, <2>2, <3>3, <3>4, <3>5
  <2>3. CASE a = new1
    <3>1. a.id < b.id BY DEF Twins
    <3>2. b.id <= n + 1 BY <1>1, <1>3, <1>4, <1>6
    <3>3. b.id \in Nat BY <1>1, <1>3, <1>4, <1>6
    <3> QED BY <1>4, <1>6, <2>3, <3>1, <3>2, <3>3
  <2> QED BY <1>1, <2>1, <2>2, <2>3
<1> QED BY <1>1, <1>8, <1>11, <1>13, <1>14, <1>15 DEF NewListingInv

LEMMA NewListingBegins == NewListingInit => NewListingInv
<1> SUFFICES ASSUME NewListingInit PROVE NewListingInv OBVIOUS
<1>1. NewListingTypeOK
  BY BlankTyped, NewListingAssumption DEF NewListingInit, NewListingTypeOK
<1>2. IsFiniteSet(listed) /\ listed = {} BY FS_EmptySet DEF NewListingInit
<1>3. \A h \in Creations : creation[h].pc = "idle" BY DEF NewListingInit, NoCreation
<1> QED BY <1>1, <1>2, <1>3 DEF NewListingInv, RowsInOrder, HasLooked, TwinsOverlapped

LEMMA NewListingKept == NewListingInv /\ [NewListingNext]_newListingVars => NewListingInv'
<1> SUFFICES ASSUME NewListingInv, [NewListingNext]_newListingVars PROVE NewListingInv' OBVIOUS
<1>1. /\ form \in [Forms -> {"closed", "open", "sending", "photos"}]
      /\ creation \in [Creations -> Creation]
  BY DEF NewListingInv, NewListingTypeOK
<1>2. ASSUME NEW f \in Forms, OpenForm(f) \/ UploadPhotos(f) PROVE NewListingInv'
  <2>1. form' \in [Forms -> {"closed", "open", "sending", "photos"}]
    BY <1>1, <1>2 DEF OpenForm, UploadPhotos
  <2>2. creation' = creation /\ UNCHANGED <<listed, minute>> BY <1>2 DEF OpenForm, UploadPhotos
  <2> QED BY <1>1, <2>1, <2>2, Forgets
<1>3. ASSUME NEW f \in Forms, NoResponse(f) PROVE NewListingInv'
  <2>1. form' \in [Forms -> {"closed", "open", "sending", "photos"}]
    BY <1>1, <1>3 DEF NoResponse
  <2>2. /\ UNCHANGED <<listed, minute>>
        /\ creation' = [h \in Creations |-> IF creation[h].for = f THEN [creation[h] EXCEPT !.for = "nobody"]
                                           ELSE creation[h]]
    BY <1>3 DEF NoResponse
  <2>3. \A h \in Creations : LET new == [creation[h] EXCEPT !.for = "nobody"] IN
          /\ new \in Creation /\ new.pc = creation[h].pc /\ new.values = creation[h].values
          /\ new.seen = creation[h].seen
    BY <1>1 DEF Creation
  <2>4. /\ creation' \in [Creations -> Creation]
        /\ \A g \in Creations : /\ creation'[g].pc = creation[g].pc
                                /\ creation'[g].values = creation[g].values
                                /\ creation'[g].seen = creation[g].seen
    BY <1>1, <2>2, <2>3
  <2> QED BY <2>1, <2>2, <2>4, Forgets
<1>4. ASSUME NEW f \in Forms, NEW h \in Creations, NEW values1 \in Values, Submit(f, h, values1)
      PROVE  NewListingInv'
  <2> DEFINE new1 == [pc |-> "find", values |-> values1, for |-> f, seen |-> 0]
  <2>1. /\ form' = [form EXCEPT ![f] = "sending"] /\ UNCHANGED <<listed, minute>>
        /\ creation' = [creation EXCEPT ![h] = new1]
    BY <1>4 DEF Submit
  <2>2. new1 \in Creation /\ new1.pc = "find" BY DEF Creation
  <2> HIDE DEF new1
  <2>3. /\ creation' \in [Creations -> Creation]
        /\ form' \in [Forms -> {"closed", "open", "sending", "photos"}]
    BY <1>1, <2>1, <2>2
  <2>4. \A g \in Creations : creation'[g] = creation[g] \/ creation'[g].pc = "find" BY <1>1, <2>1, <2>2
  <2> QED BY <2>1, <2>3, <2>4, Forgets
<1>5. ASSUME NEW h \in Creations, CreationFails(h) PROVE NewListingInv'
  <2>1. creation' = [creation EXCEPT ![h].pc = "error"] /\ UNCHANGED <<form, listed, minute>>
    BY <1>5 DEF CreationFails, CreationGoto
  <2>2. [creation[h] EXCEPT !.pc = "error"] \in Creation BY <1>1 DEF Creation
  <2>3. creation' \in [Creations -> Creation] BY <1>1, <2>1, <2>2
  <2>4. \A g \in Creations : creation'[g] = creation[g] \/ creation'[g].pc = "error"
    BY <1>1, <2>1 DEF Creation
  <2> QED BY <1>1, <2>1, <2>3, <2>4, Forgets
<1>6. ASSUME NEW h \in Creations, Answer(h) PROVE NewListingInv'
  <2>1. /\ UNCHANGED <<listed, minute>> /\ creation' = [creation EXCEPT ![h] = NoCreation]
        /\ form' = ToForm(h, "photos") \/ form' = ToForm(h, "open")
    BY <1>6 DEF Answer
  <2>2. form' \in [Forms -> {"closed", "open", "sending", "photos"}]
    BY <1>1, <2>1 DEF ToForm
  <2>3. creation' \in [Creations -> Creation] BY <1>1, <2>1, BlankTyped
  <2>4. \A g \in Creations : creation'[g] = creation[g] \/ creation'[g].pc = "idle"
    BY <1>1, <2>1 DEF NoCreation
  <2> QED BY <2>1, <2>2, <2>3, <2>4, Forgets
<1>7. CASE Minute
  <2>1. minute' = minute + 1 /\ minute \in 0 .. MaxMinutes /\ minute < MaxMinutes
        /\ UNCHANGED <<form, creation, listed>>
    BY <1>7 DEF Minute, NewListingInv, NewListingTypeOK
  <2>2. minute' \in 0 .. MaxMinutes BY <2>1, NewListingAssumption
  <2>3. NewListingTypeOK' BY <2>1, <2>2 DEF NewListingInv, NewListingTypeOK
  <2>4. \A r \in listed : r.at \in Nat BY DEF NewListingInv, NewListingTypeOK, ListedRow
  <2>5. RowsInOrder(listed, minute') BY <2>1, <2>4 DEF NewListingInv, RowsInOrder
  <2>6. HasLooked(creation, listed, minute')
    BY <2>1, <2>4, NewListingAssumption DEF NewListingInv, HasLooked
  <2> QED BY <2>1, <2>3, <2>5, <2>6 DEF NewListingInv
<1>8. CASE UNCHANGED newListingVars
  BY <1>1, <1>8, Forgets DEF newListingVars
<1> QED BY <1>2, <1>3, <1>4, <1>5, <1>6, <1>7, <1>8, LookKeeps, CreateRowKeeps DEF NewListingNext

(* The twins of a row are all of different handlers, since any two of them *)
(* are within the window of each other.                                    *)
LEMMA TwinsAreFew ==
  ASSUME NewListingInv, NEW a \in listed
  PROVE  Cardinality({b \in listed : b = a \/ Twins(a, b)}) <= Cardinality(Creations)
<1> DEFINE rows == {b \in listed : b = a \/ Twins(a, b)}
           handlerOf == [b \in rows |-> b.by]
<1>1. \A r \in listed : r.id \in Nat /\ r.at \in Nat /\ r.by \in Creations
  BY DEF NewListingInv, NewListingTypeOK, ListedRow
<1>2. ASSUME NEW b \in rows, NEW c \in rows, b.by = c.by, b.id < c.id PROVE FALSE
  <2>1. b \in listed /\ c \in listed OBVIOUS
  <2>2. ~Twins(b, c) BY <1>2, <2>1 DEF NewListingInv, TwinsOverlapped
  <2>3. b # a BY <1>2, <1>1, <2>1, <2>2
  <2>4. Twins(a, b) BY <2>3
  <2>5. a.id < b.id /\ a.at <= b.at BY <2>1, <2>4 DEF Twins, NewListingInv, RowsInOrder
  <2>6. c # a BY <1>1, <1>2, <2>1, <2>5
  <2>7. Twins(a, c) BY <2>6
  <2>8. b.values.same = c.values.same BY <2>4, <2>7 DEF Twins
  <2>9. c.at <= b.at + DUPLICATE_CREATE_WINDOW
    <3>1. c.at <= a.at + DUPLICATE_CREATE_WINDOW BY <2>7 DEF Twins
    <3> QED BY <1>1, <2>1, <2>5, <3>1, NewListingAssumption
  <2> QED BY <1>2, <2>2, <2>8, <2>9 DEF Twins
<1>3. ASSUME NEW b \in rows, NEW c \in rows, b.by = c.by PROVE b = c
  <2>1. b \in listed /\ c \in listed OBVIOUS
  <2>2. ~(b.id < c.id) /\ ~(c.id < b.id) BY <1>2, <1>3
  <2>3. b.id = c.id BY <1>1, <2>1, <2>2
  <2> QED BY <2>1, <2>3 DEF NewListingInv, RowsInOrder
<1>4. \A b \in rows : b.by \in Creations BY <1>1
<1> HIDE DEF rows
<1>5. handlerOf \in Injection(rows, Creations) BY <1>3, <1>4 DEF Injection, IsInjective
<1> HIDE DEF handlerOf
<1>6. Cardinality(rows) <= Cardinality(Creations) BY <1>5, NewListingAssumption, FS_Injection
<1> QED BY <1>6 DEF rows

(* Forms, handlers, rows and the clock are of their types.                 *)
THEOREM NewListingTyped == NewListingSpec => []NewListingTypeOK
<1>1. NewListingInv => NewListingTypeOK BY DEF NewListingInv
<1> QED BY <1>1, NewListingBegins, NewListingKept, PTL DEF NewListingSpec

(* A form that is sent again because no answer came has its vehicle listed *)
(* twice within the window only by a handler that had looked before the    *)
(* first row was there, and so by each handler at most once, however the   *)
(* handlers interleave.                                                    *)
THEOREM OneSubmissionOneListing == NewListingSpec => []SubmissionsAreOne
<1>1. NewListingInv => SubmissionsAreOne
  BY TwinsAreFew DEF NewListingInv, TwinsOverlapped, SubmissionsAreOne
<1> QED BY <1>1, NewListingBegins, NewListingKept, PTL DEF NewListingSpec

----
(***************************************************************************)
(* The specs of a listing.                                                 *)
(***************************************************************************)

(* What a key is called by its other names fits the types that it fits, and*)
(* a key is its own name.                                                  *)
LEMMA OtherNames ==
  ASSUME NEW type, NEW c
  PROVE  /\ OtherName(OtherName(c)) = OtherName(c)
         /\ Fits(type, OtherName(c)) <=> Fits(type, c)
<1> DEFINE bike == {"stroke_type", "cooling_system", "start_type", "abs_equipped", "abs"}
<1>1. CASE c = "moonroof"
  <2>1. OtherName(c) = "sunroof" /\ OtherName("sunroof") = "sunroof" BY <1>1 DEF OtherName
  <2>2. \A g \in CATEGORY_COLUMNS : c \notin g.columns /\ "sunroof" \notin g.columns
    BY <1>1 DEF CATEGORY_COLUMNS
  <2> QED BY <2>1, <2>2 DEF Fits
<1>2. CASE c = "alloys"
  <2>1. OtherName(c) = "alloy_wheels" /\ OtherName("alloy_wheels") = "alloy_wheels"
    BY <1>2 DEF OtherName
  <2>2. \A g \in CATEGORY_COLUMNS : c \notin g.columns /\ "alloy_wheels" \notin g.columns
    BY <1>2 DEF CATEGORY_COLUMNS
  <2> QED BY <2>1, <2>2 DEF Fits
<1>3. CASE c = "abs"
  <2>1. OtherName(c) = "abs_equipped" /\ OtherName("abs_equipped") = "abs_equipped"
    BY <1>3 DEF OtherName
  <2>2. \A g \in CATEGORY_COLUMNS : c \in g.columns <=> "abs_equipped" \in g.columns
    BY <1>3 DEF CATEGORY_COLUMNS
  <2> QED BY <2>1, <2>2 DEF Fits
<1>4. CASE c \notin {"moonroof", "alloys", "abs"}
  <2>1. OtherName(c) = c BY <1>4 DEF OtherName
  <2> QED BY <2>1
<1> QED BY <1>1, <1>2, <1>3, <1>4

LEMMA KeysAreNames == \A k \in SpecKeys : OtherName(k) = k
BY OtherNames DEF SpecKeys

(* The form offers a field exactly when the enrich stage would store it.   *)
LEMMA OffersFits ==
  ASSUME NEW type, NEW k \in SpecKeys
  PROVE  /\ k \in Managed => (Offers(type, k) <=> Fits(type, k))
         /\ k \notin Managed => Fits(type, k)
         /\ Offers(type, k) => k \in Managed
<1>1. OtherName(k) = k BY KeysAreNames
<1>2. COMFORT_EQUIPMENT_KEYS \subseteq Flags \ {"abs_equipped"}
  BY DEF COMFORT_EQUIPMENT_KEYS, Flags
<1>3. k \notin Managed => k \notin Flags /\ \A g \in CATEGORY_COLUMNS : k \notin g.columns
  BY DEF Managed
<1>4. k \notin Managed => Fits(type, k) BY <1>1, <1>2, <1>3 DEF Fits
<1>5. k \in Managed => (Offers(type, k) <=> Fits(type, k))
  BY <1>1, <1>2 DEF Offers, Fits, equipmentAvailable
<1>6. Offers(type, k) => k \in Managed BY DEF Offers
<1> QED BY <1>4, <1>5, <1>6

(* A key without other names that the form does not manage is a column.    *)
LEMMA UnmanagedIsColumn == \A k \in SpecKeys : \A c \in Columns : OtherName(c) = k /\ k \notin Managed => c = k
<1> SUFFICES ASSUME NEW c \in Columns, OtherName(c) \notin Managed PROVE c = OtherName(c)
  OBVIOUS
<1>1. {"sunroof", "alloy_wheels", "abs_equipped"} \subseteq Managed
  BY DEF Managed, Flags, COMFORT_EQUIPMENT_KEYS
<1>2. CASE c = "moonroof" BY <1>1, <1>2 DEF OtherName
<1>3. CASE c = "alloys" BY <1>1, <1>3 DEF OtherName
<1>4. CASE c = "abs" BY <1>1, <1>4 DEF OtherName
<1>5. CASE c \notin {"moonroof", "alloys", "abs"} BY <1>5 DEF OtherName
<1> QED BY <1>2, <1>3, <1>4, <1>5

LEMMA RowCells == \A r \in Rows : r \in [Columns -> {"blank", "no", "yes", "odd"}]
<1> SUFFICES ASSUME NEW r \in Rows PROVE r \in [Columns -> {"blank", "no", "yes", "odd"}] OBVIOUS
<1>1. PICK cells \in Cells : r = [c \in Columns |-> IF c \in DOMAIN cells THEN cells[c] ELSE "blank"]
  BY DEF Rows
<1>2. PICK filled \in SUBSET Columns : cells \in [filled -> {"no", "yes", "odd"}] BY DEF Cells
<1> QED BY <1>1, <1>2

LEMMA BlankIsRow == BlankRow \in Rows
<1> DEFINE e == [c \in {} |-> "no"]
<1>1. {} \in {s \in SUBSET Columns : Cardinality(s) <= MaxFilled}
  BY FS_EmptySet, SpecsAssumption
<1>2. e \in [{} -> {"no", "yes", "odd"}] /\ DOMAIN e = {} OBVIOUS
<1> HIDE DEF e
<1>3. e \in Cells BY <1>1, <1>2 DEF Cells
<1>4. e \in {x \in Cells : \A c \in DOMAIN x : x[c] = "no" => OtherName(c) \in Flags} BY <1>2, <1>3
<1>5. BlankRow = [c \in Columns |-> IF c \in DOMAIN e THEN e[c] ELSE "blank"] BY <1>2 DEF BlankRow
<1> QED BY <1>4, <1>5 DEF Rows

(* What a key is read from is a column of that key.                        *)
LEMMA Reading ==
  ASSUME NEW r \in [Columns -> {"blank", "no", "yes", "odd"}], NEW k \in SpecKeys
  PROVE  /\ ReadSpec(r, k) \in {"absent", "no", "yes"}
         /\ ReadSpec(r, k) # "absent" => \E c \in Columns : OtherName(c) = k /\ r[c] = ReadSpec(r, k)
         /\ ReadSpec(r, k) = "absent" => \A c \in Columns : OtherName(c) = k => r[c] \in {"blank", "odd"}
<1> DEFINE main == {c \in Columns : c = k /\ r[c] \in {"yes", "no"}}
           other == {c \in Columns : OtherName(c) = k /\ r[c] \in {"yes", "no"}}
<1>1. ReadSpec(r, k) = CASE main # {} -> r[k]
                         [] other # {} -> r[CHOOSE c \in other : TRUE]
                         [] OTHER -> "absent"
  BY DEF ReadSpec
<1>2. OtherName(k) = k BY KeysAreNames
<1>3. CASE main # {}
  <2>1. k \in Columns /\ r[k] \in {"yes", "no"} BY <1>3
  <2>2. k \in other BY <1>2, <2>1
  <2>a. main # {} BY <1>3
  <2> HIDE DEF main, other
  <2>3. ReadSpec(r, k) = r[k] \/ ReadSpec(r, k) = r[CHOOSE c \in other : TRUE]
    BY <1>1, <2>a, <2>2
  <2>4. (CHOOSE c \in other : TRUE) \in other BY <2>2
  <2> QED BY <1>2, <2>1, <2>3, <2>4 DEF other
<1>4. CASE main = {} /\ other # {}
  <2>a. main = {} /\ other # {} BY <1>4
  <2> HIDE DEF main, other
  <2>1. ReadSpec(r, k) = r[CHOOSE c \in other : TRUE] BY <1>1, <2>a
  <2>2. (CHOOSE c \in other : TRUE) \in other BY <2>a
  <2> QED BY <2>1, <2>2 DEF other
<1>5. CASE main = {} /\ other = {}
  <2>a. main = {} /\ other = {} BY <1>5
  <2> HIDE DEF main, other
  <2>1. ReadSpec(r, k) = "absent" BY <1>1, <2>a
  <2>2. \A c \in Columns : OtherName(c) = k => r[c] \notin {"yes", "no"} BY <2>a DEF other
  <2> QED BY <2>1, <2>2
<1> QED BY <1>3, <1>4, <1>5

(* What the open form says of each key is what was said last.              *)
FormIsAsSaid ==
  specForm.open => \A k \in SpecKeys :
    IF k \in Managed THEN specForm.fields[k] = "yes" <=> said[k] = "yes"
    ELSE listing.specs[k] = "yes" <=> said[k] = "yes"

FieldsAreOffered ==
  specForm.open => \A k \in SpecKeys : specForm.fields[k] # "blank" => Offers(specForm.type, k)

RowIsNoted ==
  \A c \in Columns :
    row[c] = "yes" /\ listing.specs[OtherName(c)] # "yes" =>
      \/ listing.noted \/ \E d \in Columns : OtherName(d) = OtherName(c) /\ row[d] = "no"
      \/ /\ OtherName(c) \notin Managed
         /\ Cardinality({k \in SpecKeys \ Managed : listing.specs[k] = "yes"}) = MAX_DYNAMIC_SPEC_KEYS

SpecsInv ==
  /\ SpecsTypeOK /\ SpecsFitType /\ SpecsAreAsSaid /\ RowIsNoted /\ FormIsAsSaid /\ FieldsAreOffered
  /\ listing.type = "none" => \A k \in SpecKeys : listing.specs[k] = "absent"

LEMMA EnrichKeeps ==
  ASSUME SpecsInv, NEW type \in VehicleTypes, NEW r \in Rows, Enrich(type, r)
  PROVE  SpecsInv'
<1>0. PICK carried \in Carried(r) :
        /\ listing' = [type |-> type, specs |-> BuildRowSpecs(type, r, carried),
                       noted |-> InapplicableColumns(type, r) # {}]
        /\ said' = [k \in SpecKeys |->
             IF k \in carried \/ (k \in Managed /\ Fits(type, k) /\ ReadSpec(r, k) = "yes")
             THEN "yes" ELSE "blank"]
  BY DEF Enrich
<1> DEFINE specs1 == BuildRowSpecs(type, r, carried)
           noted1 == InapplicableColumns(type, r) # {}
           said1 == [k \in SpecKeys |->
             IF k \in carried \/ (k \in Managed /\ Fits(type, k) /\ ReadSpec(r, k) = "yes")
             THEN "yes" ELSE "blank"]
<1>1. /\ listing' = [type |-> type, specs |-> specs1, noted |-> noted1]
      /\ row' = r /\ said' = said1 /\ UNCHANGED <<specForm, saves>> /\ ~specForm.open
  BY <1>0 DEF Enrich
<1>2. r \in [Columns -> {"blank", "no", "yes", "odd"}] BY RowCells
<1>a. \A c \in carried : c \in Columns /\ r[c] # "blank" /\ c \in SpecKeys \ Managed
  <2> TAKE c \in carried
  <2>1. c \in DynamicColumns(r) BY DEF Carried
  <2>2. c \in Columns /\ OtherName(c) \notin Managed /\ OtherName(c) \in SpecKeys /\ r[c] # "blank"
    BY <2>1 DEF DynamicColumns, SpecKeys
  <2>3. c = OtherName(c) BY <2>2, UnmanagedIsColumn
  <2> QED BY <2>2, <2>3
<1>3. \A k \in SpecKeys :
        /\ k \in Managed => specs1[k] = IF Fits(type, k) THEN ReadSpec(r, k) ELSE "absent"
        /\ k \notin Managed => specs1[k] = IF k \in carried THEN "yes" ELSE "absent"
  <2> TAKE k \in SpecKeys
  <2>1. specs1[k] = CASE k \in Managed /\ Fits(type, k) -> ReadSpec(r, k)
                      [] k \in carried                 -> "yes"
                      [] OTHER                          -> "absent"
    BY DEF BuildRowSpecs
  <2>2. k \in Managed => k \notin carried BY <1>a
  <2> HIDE DEF specs1
  <2> QED BY <2>1, <2>2
<1>b. specs1 = [k \in SpecKeys |-> specs1[k]] BY DEF BuildRowSpecs
<1>4. \A k \in SpecKeys : ReadSpec(r, k) \in {"absent", "no", "yes"} BY <1>2, Reading
<1>5. /\ specs1 \in Specs /\ said1 \in Fields
      /\ \A k \in SpecKeys : (specs1[k] = "yes" <=> said1[k] = "yes") /\ (specs1[k] # "absent" => Fits(type, k))
  <2>1. said1 \in Fields BY DEF Fields
  <2>2. \A k \in SpecKeys : specs1[k] \in {"absent", "no", "yes"} BY <1>3, <1>4
  <2>3. \A k \in SpecKeys : specs1[k] = "yes" <=> said1[k] = "yes" BY <1>3, <1>a
  <2>4. \A k \in SpecKeys : specs1[k] # "absent" => Fits(type, k) BY <1>3, OffersFits
  <2> HIDE DEF specs1, said1
  <2>5. specs1 \in Specs BY <1>b, <2>2 DEF Specs
  <2> QED BY <2>1, <2>3, <2>4, <2>5
<1>6. noted1 \in BOOLEAN OBVIOUS
<1>7. noted1 <=> \E c \in Columns : ~Fits(type, c) /\ r[c] \in
        IF OtherName(c) \in COMFORT_EQUIPMENT_KEYS THEN {"yes"} ELSE {"yes", "odd"}
  BY DEF InapplicableColumns
<1>8. ASSUME NEW c \in Columns, r[c] = "yes", specs1[OtherName(c)] # "yes"
      PROVE  \/ noted1 \/ \E d \in Columns : OtherName(d) = OtherName(c) /\ r[d] = "no"
             \/ /\ OtherName(c) \notin Managed
                /\ Cardinality({k \in SpecKeys \ Managed : specs1[k] = "yes"}) = MAX_DYNAMIC_SPEC_KEYS
  <2> DEFINE k == OtherName(c)
  <2>1. k \in SpecKeys BY DEF SpecKeys
  <2>2. CASE ~Fits(type, k)
    <3>1. ~Fits(type, c) BY <2>2, OtherNames
    <3> QED BY <1>7, <1>8, <3>1
  <2>3. CASE Fits(type, k) /\ k \notin Managed
    <3>1. c = k BY <2>1, <2>3, UnmanagedIsColumn
    <3>2. k \notin carried BY <1>3, <1>8, <2>1, <2>3
    <3>3. c \in DynamicColumns(r) BY <1>8, <2>3 DEF DynamicColumns
    <3>4. Cardinality(carried) = MAX_DYNAMIC_SPEC_KEYS BY <3>1, <3>2, <3>3 DEF Carried
    <3>5. {x \in SpecKeys \ Managed : specs1[x] = "yes"} = carried
      <4> HIDE DEF specs1
      <4> QED BY <1>3, <1>a
    <3> QED BY <2>3, <3>4, <3>5
  <2>4. CASE Fits(type, k) /\ k \in Managed
    <3>1. specs1[k] = ReadSpec(r, k) BY <1>3, <2>1, <2>4
    <3>2. ReadSpec(r, k) # "absent" BY <1>2, <1>8, <2>1, Reading
    <3>3. ReadSpec(r, k) = "no" BY <1>4, <1>8, <2>1, <3>1, <3>2
    <3> QED BY <1>2, <2>1, <3>3, Reading
  <2> QED BY <2>2, <2>3, <2>4
<1> HIDE DEF specs1, noted1, said1
<1>9. listing'.type = type /\ listing'.specs = specs1 /\ listing'.noted = noted1 BY <1>1
<1>10. SpecsTypeOK'
  BY <1>1, <1>5, <1>6 DEF SpecsInv, SpecsTypeOK
<1>11. SpecsFitType' /\ SpecsAreAsSaid' BY <1>1, <1>5, <1>9 DEF SpecsFitType, SpecsAreAsSaid
<1>12. RowIsNoted' BY <1>1, <1>8, <1>9 DEF RowIsNoted
<1>13. FormIsAsSaid' /\ FieldsAreOffered' BY <1>1 DEF FormIsAsSaid, FieldsAreOffered
<1> QED BY <1>9, <1>10, <1>11, <1>12, <1>13, SpecsAssumption DEF SpecsInv

(* The form opens, is filled in, or is left.                               *)
LEMMA FormStep ==
  ASSUME SpecsInv, UNCHANGED <<listing, row, saves>>,
         specForm' \in [open : BOOLEAN, type : VehicleTypes \cup {"none"}, fields : Fields],
         said' \in Fields, FormIsAsSaid', FieldsAreOffered', SpecsAreAsSaid'
  PROVE  SpecsInv'
<1>1. SpecsTypeOK' BY DEF SpecsInv, SpecsTypeOK
<1>2. SpecsFitType' /\ RowIsNoted' BY DEF SpecsInv, SpecsFitType, RowIsNoted
<1> QED BY <1>1, <1>2 DEF SpecsInv

LEMMA OpensKeep ==
  ASSUME SpecsInv, OpenEdit \/ OpenNew
  PROVE  SpecsInv'
<1>1. /\ listing \in [type : VehicleTypes \cup {"none"}, specs : Specs, noted : BOOLEAN]
      /\ said \in Fields /\ ~specForm.open
  BY DEF SpecsInv, SpecsTypeOK, OpenEdit, OpenNew
<1>2. \A k \in SpecKeys : listing.specs[k] = "yes" <=> said[k] = "yes"
  BY <1>1 DEF SpecsInv, SpecsAreAsSaid
<1>3. CASE OpenEdit
  <2> DEFINE type1 == listing.type
             fields1 == Cleared(type1, Prefill(listing.specs))
  <2>1. /\ specForm' = [open |-> TRUE, type |-> type1, fields |-> fields1]
        /\ UNCHANGED <<listing, row, said, saves>>
    BY <1>3 DEF OpenEdit
  <2>2. \A k \in SpecKeys : fields1[k] =
          IF k \in Managed /\ Offers(type1, k) /\ listing.specs[k] = "yes" THEN "yes" ELSE "blank"
    BY DEF Cleared, Prefill
  <2>3. fields1 \in Fields BY DEF Cleared, Prefill, Fields
  <2>4. \A k \in SpecKeys : k \in Managed /\ listing.specs[k] = "yes" => Offers(type1, k)
    BY OffersFits DEF SpecsInv, SpecsFitType
  <2> HIDE DEF fields1, type1
  <2>5. specForm'.open /\ specForm'.type = type1 /\ specForm'.fields = fields1 BY <2>1
  <2>6. FormIsAsSaid' BY <1>2, <2>1, <2>2, <2>4, <2>5 DEF FormIsAsSaid
  <2>7. FieldsAreOffered' BY <2>2, <2>5 DEF FieldsAreOffered
  <2>8. SpecsAreAsSaid' BY <2>5 DEF SpecsAreAsSaid
  <2>9. specForm' \in [open : BOOLEAN, type : VehicleTypes \cup {"none"}, fields : Fields]
    BY <1>1, <2>1, <2>3 DEF type1
  <2> QED BY <1>1, <2>1, <2>6, <2>7, <2>8, <2>9, FormStep
<1>4. CASE OpenNew
  <2>1. /\ specForm' = [open |-> TRUE, type |-> "none", fields |-> NoFields]
        /\ UNCHANGED <<listing, row, said, saves>> /\ listing.type = "none"
    BY <1>4 DEF OpenNew
  <2>2. NoFields \in Fields /\ \A k \in SpecKeys : NoFields[k] = "blank" BY DEF NoFields, Fields
  <2>3. \A k \in SpecKeys : listing.specs[k] # "yes" BY <2>1 DEF SpecsInv
  <2>4. specForm'.open /\ specForm'.type = "none" /\ specForm'.fields = NoFields BY <2>1
  <2>5. FormIsAsSaid' BY <1>2, <2>1, <2>2, <2>3, <2>4 DEF FormIsAsSaid
  <2>6. FieldsAreOffered' BY <2>2, <2>4 DEF FieldsAreOffered
  <2>7. SpecsAreAsSaid' BY <2>4 DEF SpecsAreAsSaid
  <2>8. specForm' \in [open : BOOLEAN, type : VehicleTypes \cup {"none"}, fields : Fields]
    BY <2>1, <2>2
  <2> QED BY <1>1, <2>1, <2>5, <2>6, <2>7, <2>8, FormStep
<1> QED BY <1>3, <1>4

LEMMA FillsKeep ==
  ASSUME SpecsInv,
         \/ \E type \in VehicleTypes : ChangeType(type)
         \/ \E key \in SpecKeys, value \in {"blank", "yes", "odd"} : Fill(key, value)
         \/ CancelForm
  PROVE  SpecsInv'
<1>1. /\ specForm \in [open : BOOLEAN, type : VehicleTypes \cup {"none"}, fields : Fields]
      /\ listing \in [type : VehicleTypes \cup {"none"}, specs : Specs, noted : BOOLEAN]
      /\ said \in Fields /\ specForm.open
  BY DEF SpecsInv, SpecsTypeOK, ChangeType, Fill, CancelForm
<1>2. /\ \A k \in SpecKeys : IF k \in Managed THEN specForm.fields[k] = "yes" <=> said[k] = "yes"
                             ELSE listing.specs[k] = "yes" <=> said[k] = "yes"
      /\ \A k \in SpecKeys : specForm.fields[k] # "blank" => Offers(specForm.type, k)
  BY <1>1 DEF SpecsInv, FormIsAsSaid, FieldsAreOffered
<1>3. ASSUME NEW type \in VehicleTypes, ChangeType(type) PROVE SpecsInv'
  <2> DEFINE fields1 == Cleared(type, specForm.fields)
             said1 == [k \in SpecKeys |-> IF k \in Managed /\ ~Fits(type, k) THEN "blank" ELSE said[k]]
  <2>1. /\ specForm' = [specForm EXCEPT !.type = type, !.fields = fields1]
        /\ said' = said1 /\ UNCHANGED <<listing, row, saves>>
    BY <1>3 DEF ChangeType
  <2>2. \A k \in SpecKeys : fields1[k] =
          IF k \in Managed /\ ~Offers(type, k) THEN "blank" ELSE specForm.fields[k]
    BY DEF Cleared
  <2>3. fields1 \in Fields /\ said1 \in Fields BY <1>1 DEF Cleared, Fields
  <2>4. \A k \in SpecKeys : said1[k] = IF k \in Managed /\ ~Offers(type, k) THEN "blank" ELSE said[k]
    BY OffersFits
  <2> HIDE DEF fields1, said1
  <2>5. /\ specForm'.open /\ specForm'.type = type /\ specForm'.fields = fields1
        /\ specForm' \in [open : BOOLEAN, type : VehicleTypes \cup {"none"}, fields : Fields]
    BY <1>1, <2>1, <2>3
  <2>6. FormIsAsSaid' BY <1>2, <2>1, <2>2, <2>4, <2>5 DEF FormIsAsSaid
  <2>7. FieldsAreOffered'
    <3>1. \A k \in SpecKeys : fields1[k] # "blank" => k \in Managed
      BY <1>2, <2>2, OffersFits
    <3> QED BY <2>2, <2>5, <3>1 DEF FieldsAreOffered
  <2>8. SpecsAreAsSaid' BY <2>5 DEF SpecsAreAsSaid
  <2> QED BY <2>1, <2>3, <2>5, <2>6, <2>7, <2>8, FormStep
<1>4. ASSUME NEW key \in SpecKeys, NEW value \in {"blank", "yes", "odd"}, Fill(key, value) PROVE SpecsInv'
  <2> DEFINE fields1 == [specForm.fields EXCEPT ![key] = value]
  <2>1. /\ specForm' = [specForm EXCEPT !.fields = fields1]
        /\ said' = [said EXCEPT ![key] = value] /\ UNCHANGED <<listing, row, saves>>
        /\ Offers(specForm.type, key)
    BY <1>1, <1>4 DEF Fill
  <2>2. fields1 \in Fields /\ said' \in Fields
        /\ \A k \in SpecKeys : /\ fields1[k] = IF k = key THEN value ELSE specForm.fields[k]
                               /\ said'[k] = IF k = key THEN value ELSE said[k]
    BY <1>1, <2>1 DEF Fields
  <2> HIDE DEF fields1
  <2>3. /\ specForm'.open /\ specForm'.type = specForm.type /\ specForm'.fields = fields1
        /\ specForm' \in [open : BOOLEAN, type : VehicleTypes \cup {"none"}, fields : Fields]
    BY <1>1, <2>1, <2>2
  <2>4. key \in Managed BY <2>1, OffersFits
  <2>5. FormIsAsSaid' BY <1>2, <2>1, <2>2, <2>3, <2>4 DEF FormIsAsSaid
  <2>6. FieldsAreOffered' BY <1>2, <2>1, <2>2, <2>3 DEF FieldsAreOffered
  <2>7. SpecsAreAsSaid' BY <2>3 DEF SpecsAreAsSaid
  <2> QED BY <2>1, <2>2, <2>3, <2>5, <2>6, <2>7, FormStep
<1>5. CASE CancelForm
  <2>1. /\ specForm' = Closed /\ UNCHANGED <<listing, row, saves>>
        /\ said' = [k \in SpecKeys |-> IF listing.specs[k] = "yes" THEN "yes" ELSE "blank"]
    BY <1>5 DEF CancelForm
  <2>2. specForm' \in [open : BOOLEAN, type : VehicleTypes \cup {"none"}, fields : Fields]
        /\ ~specForm'.open
    BY <2>1 DEF Closed, NoFields, Fields
  <2>3. said' \in Fields BY <2>1 DEF Fields
  <2>4. FormIsAsSaid' /\ FieldsAreOffered' /\ SpecsAreAsSaid'
    BY <2>1, <2>2 DEF FormIsAsSaid, FieldsAreOffered, SpecsAreAsSaid
  <2> QED BY <2>1, <2>2, <2>3, <2>4, FormStep
<1> QED BY <1>3, <1>4, <1>5

LEMMA SaveKeeps ==
  ASSUME SpecsInv, SaveForm
  PROVE  SpecsInv'
<1>1. /\ specForm \in [open : BOOLEAN, type : VehicleTypes \cup {"none"}, fields : Fields]
      /\ listing \in [type : VehicleTypes \cup {"none"}, specs : Specs, noted : BOOLEAN]
      /\ said \in Fields /\ specForm.open /\ specForm.type # "none" /\ saves \in 0 .. MaxSaves
  BY DEF SpecsInv, SpecsTypeOK, SaveForm
<1>2. /\ \A k \in SpecKeys : IF k \in Managed THEN specForm.fields[k] = "yes" <=> said[k] = "yes"
                             ELSE listing.specs[k] = "yes" <=> said[k] = "yes"
      /\ \A k \in SpecKeys : specForm.fields[k] # "blank" => Offers(specForm.type, k)
  BY <1>1 DEF SpecsInv, FormIsAsSaid, FieldsAreOffered
<1> DEFINE type1 == specForm.type
           specs1 == BuildSpecs(type1, specForm.fields, listing.specs)
<1>3. /\ listing' = [listing EXCEPT !.type = type1, !.specs = specs1]
      /\ specForm' = Closed /\ row' = BlankRow /\ saves' = saves + 1 /\ saves < MaxSaves /\ said' = said
  BY <1>1 DEF SaveForm
<1>4. specs1 \in Specs BY <1>1 DEF BuildSpecs, Specs
<1>5. \A k \in SpecKeys : specs1[k] = IF k \notin Managed THEN listing.specs[k]
                                     ELSE IF Offers(type1, k) /\ specForm.fields[k] = "yes" THEN "yes" ELSE "absent"
  BY DEF BuildSpecs
<1>6. \A k \in SpecKeys : specs1[k] = "yes" <=> said[k] = "yes" BY <1>2, <1>5
<1>7. \A k \in SpecKeys : specs1[k] # "absent" => Fits(type1, k) BY <1>5, OffersFits
<1>8. type1 \in VehicleTypes BY <1>1
<1> HIDE DEF specs1, type1
<1>9. /\ listing'.type = type1 /\ listing'.specs = specs1
      /\ listing' \in [type : VehicleTypes \cup {"none"}, specs : Specs, noted : BOOLEAN]
  BY <1>1, <1>3, <1>4, <1>8
<1>10. specForm' \in [open : BOOLEAN, type : VehicleTypes \cup {"none"}, fields : Fields]
       /\ ~specForm'.open
  BY <1>3 DEF Closed, NoFields, Fields
<1>11. saves' \in 0 .. MaxSaves BY <1>1, <1>3, SpecsAssumption
<1>12. SpecsTypeOK' BY <1>1, <1>3, <1>9, <1>10, <1>11, BlankIsRow DEF SpecsTypeOK
<1>13. SpecsFitType' /\ SpecsAreAsSaid' BY <1>3, <1>6, <1>7, <1>9 DEF SpecsFitType, SpecsAreAsSaid
<1>14. RowIsNoted' BY <1>3 DEF RowIsNoted, BlankRow
<1>15. FormIsAsSaid' /\ FieldsAreOffered' BY <1>10 DEF FormIsAsSaid, FieldsAreOffered
<1> QED BY <1>8, <1>9, <1>12, <1>13, <1>14, <1>15, SpecsAssumption DEF SpecsInv

LEMMA SpecsBegin == SpecsInit => SpecsInv
<1> SUFFICES ASSUME SpecsInit PROVE SpecsInv OBVIOUS
<1>1. /\ listing = Unlisted /\ row = BlankRow /\ specForm = Closed /\ said = NoFields /\ saves = 0
  BY DEF SpecsInit
<1>2. /\ listing.type = "none" /\ \A k \in SpecKeys : listing.specs[k] = "absent"
      /\ listing \in [type : VehicleTypes \cup {"none"}, specs : Specs, noted : BOOLEAN]
  BY <1>1 DEF Unlisted, Specs
<1>3. /\ specForm \in [open : BOOLEAN, type : VehicleTypes \cup {"none"}, fields : Fields]
      /\ ~specForm.open /\ said \in Fields /\ \A k \in SpecKeys : said[k] = "blank"
  BY <1>1 DEF Closed, NoFields, Fields
<1>4. SpecsTypeOK BY <1>1, <1>2, <1>3, BlankIsRow, SpecsAssumption DEF SpecsTypeOK
<1>5. RowIsNoted BY <1>1 DEF RowIsNoted, BlankRow
<1> QED BY <1>2, <1>3, <1>4, <1>5
    DEF SpecsInv, SpecsFitType, SpecsAreAsSaid, FormIsAsSaid, FieldsAreOffered

LEMMA SpecsKept == SpecsInv /\ [SpecsNext]_specVars => SpecsInv'
<1> SUFFICES ASSUME SpecsInv, [SpecsNext]_specVars PROVE SpecsInv' OBVIOUS
<1>1. CASE UNCHANGED specVars
  BY <1>1 DEF specVars, SpecsInv, SpecsTypeOK, SpecsFitType, SpecsAreAsSaid, RowIsNoted,
      FormIsAsSaid, FieldsAreOffered
<1>2. CASE SpecsNext
  BY <1>2, EnrichKeeps, OpensKeep, FillsKeep, SaveKeeps DEF SpecsNext
<1> QED BY <1>1, <1>2

(* Listing, row and form are of their types.                               *)
THEOREM SpecsTyped == SpecsSpec => []SpecsTypeOK
<1>1. SpecsInv => SpecsTypeOK BY DEF SpecsInv
<1> QED BY <1>1, SpecsBegin, SpecsKept, PTL DEF SpecsSpec

(* On every way through upload, form, change of type and edit, what is     *)
(* stored is what the dealer last said and fits the type, what is dropped  *)
(* is noted, and an error can be seen; for any vehicle types and columns.  *)
THEOREM SpecsAreAlwaysRight == SpecsSpec => []SpecsAreRight
<1>1. SpecsInv => SpecsAreRight
  BY DEF SpecsInv, SpecsAreRight, RowIsNoted, DroppedIsNoted, FieldsAreOffered, ErrorsAreVisible
<1> QED BY <1>1, SpecsBegin, SpecsKept, PTL DEF SpecsSpec

----
(***************************************************************************)
(* The dealer's table of listings.                                         *)
(***************************************************************************)

Mutation == [op : OfOne \cup Approvals, ids : SUBSET Cars, ahead : SUBSET Cars,
             step : {"sent", "done", "refused", "lost"}, left : Listing, photos : BOOLEAN]

(* Mutations that the server may have carried out on a listing and that the*)
(* page has not been told of: also the upload that follows an update, and  *)
(* what is left of a selection.                                            *)
Begun(k) == k.op \in {"upload", "approveRest"}

Untold(c) == {k \in calls : c \in k.ids /\ (k.step \in {"done", "lost"} \/ Begun(k))}

(* What the page shows next: the answer under way, or what it shows now.   *)
Base(c) == IF fetch.step = "served" THEN fetch.stored[c] ELSE list.data[c]

(* The page can know the server's rows: no change was missed, no fetch is  *)
(* still to be answered, and the last one did not fail.                    *)
Knows == ~drift /\ fetch.step # "sent" /\ ~(fetch.step = "none" /\ list.error)

(* Then each row is the server's unless a mutation of it is untold; and if *)
(* that is one that will be patched in and has not been overtaken, the     *)
(* patch makes up for it.                                                  *)
RowIsKnown(c) ==
  Knows =>
    /\ Untold(c) = {} => Base(c) = stored[c]
    /\ \A k \in calls :
         Untold(c) = {k} /\ Patches(k.op) /\ k.step = "done" /\ stored[c] = k.left[c] =>
           Patched(k, Base(c)) = stored[c]

(* Mutations that are patched in are of one listing, one of a kind for it, *)
(* and once carried out the row they left has what they set.               *)
PatchesAreOne ==
  \A k \in calls : Patches(k.op) =>
    /\ \E c \in Cars : k.ids = {c}
    /\ \A j \in calls : j.op = k.op /\ j.ids = k.ids => j = k
    /\ k.step = "done" => \A c \in k.ids : Patched(k, k.left[c]) = k.left[c]

(* A call is still ahead of listings it is of: all of them, or the rest of *)
(* a selection, which is never refused.                                    *)
AheadIsAsked ==
  \A k \in calls :
    /\ k.ahead \subseteq k.ids /\ (Patches(k.op) => k.ahead = k.ids)
    /\ k.op = "approveRest" => k.step # "refused"

ListInv == ListTypeOK /\ PatchesAreOne /\ (\A c \in Cars : RowIsKnown(c))
             /\ (fetch.step = "none" <=> fetch = NoFetch)

(* A row is a status and what is shown; what operations make of it.        *)
LEMMA RowOps ==
  ASSUME NEW r \in TableRow, NEW op
  PROVE  /\ Effect(op, r) \in TableRow
         /\ Patches(op) => Effect(op, r) = IF op = "approve" THEN [r EXCEPT !.status = "LIVE"]
                                           ELSE [r EXCEPT !.shows = "edited"]
<1>1. Effect(op, r) \in TableRow
  BY DEF Effect, TableRow
<1>2. Patches(op) => Effect(op, r) = IF op = "approve" THEN [r EXCEPT !.status = "LIVE"]
                                     ELSE [r EXCEPT !.shows = "edited"]
  BY DEF Effect, Patches, Approvals
<1> QED BY <1>1, <1>2

LEMMA PatchedOps ==
  ASSUME NEW r \in TableRow, NEW k
  PROVE  /\ Patched(k, r) \in TableRow
         /\ Patched(k, Patched(k, r)) = Patched(k, r)
         /\ Patches(k.op) => Effect(k.op, r) = Patched(k, r)
<1>1. Patched(k, r) \in TableRow
  BY DEF Patched, TableRow
<1>2. Patched(k, Patched(k, r)) = Patched(k, r)
  BY DEF Patched, TableRow
<1> QED BY <1>1, <1>2, RowOps DEF Patched

(* Two different patches that have both left a row as it is: either, made  *)
(* after the other, leads there.                                           *)
LEMMA PatchesMeet ==
  ASSUME NEW j, NEW k, Patches(j.op), Patches(k.op), j.op # k.op,
         NEW r \in TableRow, NEW s \in TableRow, Patched(j, s) = s, Patched(k, s) = s
  PROVE  Patched(k, Patched(j, r)) = s
  BY DEF Patches, Patched, TableRow

LEMMA ListConstantsTyped == NoFetch.stored \in Listing /\ NoFetch.step = "none" /\ Sent.step = "sent"
                              /\ Sent.stored \in Listing
                              /\ NoFetch \in [step : {"none", "sent", "served"}, stored : Listing]
                              /\ Sent \in [step : {"none", "sent", "served"}, stored : Listing]
  BY DEF NoFetch, Sent, Listing, TableRow

LEMMA ListTypes == ListTypeOK /\ [ListNext]_listVars => ListTypeOK'
<1> USE ListAssumption
<1> SUFFICES ASSUME ListTypeOK, [ListNext]_listVars PROVE ListTypeOK'
  OBVIOUS
<1> DEFINE A == /\ stored \in Listing
                /\ list \in [data : Listing, loaded : BOOLEAN, loading : BOOLEAN, error : BOOLEAN]
                /\ fetch \in [step : {"none", "sent", "served"}, stored : Listing]
                /\ editing \in Cars \cup {"no"} /\ clicks \in 0 .. MaxClicks
           C == calls \subseteq Mutation
           D == drift \in BOOLEAN
<1>0. (ListTypeOK <=> A /\ C /\ D) /\ (ListTypeOK' <=> A' /\ C' /\ D')
  BY Zenon DEF ListTypeOK, Mutation
<1>1. A /\ C /\ D
  BY <1>0
<1>2. \A mut1 \in calls : mut1 \in Mutation
  BY <1>1
<1>3. CASE UNCHANGED listVars
  <2>1. A' /\ C' BY <1>1, <1>3 DEF listVars
  <2>2. D' BY <1>1, <1>3, Zenon DEF listVars
  <2> QED BY <1>0, <2>1, <2>2
<1>4. CASE FetchServed \/ FetchArrived \/ FetchFailed \/ ChangeSort \/ Cancel \/ \E c \in Cars : EditListing(c)
  <2>3. ASSUME FetchServed PROVE A' /\ C' BY <1>1, <2>3 DEF FetchServed
  <2>4. ASSUME FetchArrived PROVE A' /\ C' BY <1>1, <2>4, ListConstantsTyped DEF FetchArrived
  <2>5. ASSUME FetchFailed PROVE A' /\ C' BY <1>1, <2>5, ListConstantsTyped DEF FetchFailed
  <2>6. ASSUME ChangeSort PROVE A' /\ C' BY <1>1, <2>6, ListConstantsTyped DEF ChangeSort, Reload
  <2>7. ASSUME Cancel PROVE A' /\ C' BY <1>1, <2>7 DEF Cancel
  <2>8. ASSUME \E c \in Cars : EditListing(c) PROVE A' /\ C' BY <1>1, <2>8 DEF EditListing
  <2>1. A' /\ C' BY <1>4, <2>3, <2>4, <2>5, <2>6, <2>7, <2>8
  <2>2. D' BY <1>1, <1>4, Zenon
    DEF FetchServed, FetchArrived, FetchFailed, ChangeSort, Reload, Cancel, EditListing
  <2> QED BY <1>0, <2>1, <2>2
<1>5. ASSUME NEW op \in OfOne \cup Approvals, NEW ids \in SUBSET Cars, NEW photos \in BOOLEAN,
             Send(op, ids, photos)
      PROVE  ListTypeOK'
  <2>1. [op |-> op, ids |-> ids, ahead |-> ids, step |-> "sent", left |-> NoFetch.stored, photos |-> photos]
          \in Mutation
    BY ListConstantsTyped DEF Mutation
  <2>2. A' /\ C' BY <1>1, <1>5, <2>1 DEF Send
  <2>3. D' BY <1>1, <1>5, Zenon DEF Send
  <2> QED BY <1>0, <2>2, <2>3
<1>6. CASE \/ DeletePhoto \/ (\E ids \in SUBSET Cars : ApproveSelected(ids))
           \/ (\E photos \in BOOLEAN : SaveChanges(photos))
           \/ \E c \in Cars, op \in {"approve", "deactivate", "unarchive", "delete"} : ClickRow(op, c)
  <2>1. \E op \in OfOne \cup Approvals, ids \in SUBSET Cars, photos \in BOOLEAN : Send(op, ids, photos)
    <3>1. editing # "no" => {editing} \in SUBSET Cars BY <1>1
    <3>2. {"approve", "deactivate", "unarchive", "delete", "update", "deleteImage"} \subseteq OfOne
      BY DEF OfOne
    <3>3. "approveSelected" \in Approvals BY DEF Approvals
    <3> QED BY <1>6, <3>1, <3>2, <3>3, Zenon DEF DeletePhoto, ApproveSelected, SaveChanges, ClickRow
  <2> QED BY <1>5, <2>1
<1>7. ASSUME NEW c \in Cars, NEW op \in {"approve", "deactivate"}, ServerRuns(op, c) PROVE ListTypeOK'
  <2>1. stored[c] \in TableRow BY <1>1 DEF Listing
  <2>2. Effect(op, stored[c]) \in TableRow BY <2>1, RowOps
  <2>3. A' /\ C' BY <1>1, <1>7, <2>2 DEF ServerRuns, Listing
  <2>4. D' BY <1>7, Zenon DEF ServerRuns
  <2> QED BY <1>0, <2>3, <2>4
<1>8. ASSUME NEW mut1 \in calls, NEW lost1 \in BOOLEAN, CallServed(mut1, lost1) PROVE ListTypeOK'
  <2>1. \A c \in Cars : stored[c] \in TableRow /\ Effect(mut1.op, stored[c]) \in TableRow
    BY <1>1, RowOps DEF Listing
  <2>2. stored' \in Listing BY <1>8, <2>1 DEF CallServed, Listing
  <2>3. \A l \in Listing, s \in {"sent", "done", "refused", "lost"} :
          [mut1 EXCEPT !.left = l, !.step = s] \in Mutation
    BY <1>2 DEF Mutation
  <2>4. mut1.left \in Listing /\ mut1.ahead \in SUBSET Cars BY <1>2 DEF Mutation
  <2>a. \A rest1 \in SUBSET Cars : [mut1 EXCEPT !.op = "approveRest", !.ahead = rest1] \in Mutation
    BY <1>2 DEF Mutation, Approvals
  <2>5. \E told1 \in Mutation : calls' = (calls \ {mut1}) \cup {told1}
    <3>1. PICK batch1 \in SUBSET mut1.ahead :
            calls' = (calls \ {mut1}) \cup
              {IF ~lost1 /\ mut1.ahead \ batch1 # {}
               THEN [mut1 EXCEPT !.op = "approveRest", !.ahead = mut1.ahead \ batch1]
               ELSE [mut1 EXCEPT !.left = IF lost1 \/ ~Patches(mut1.op) THEN mut1.left ELSE stored',
                       !.step = CASE lost1 -> "lost"
                                  [] {c \in batch1 : Accepts(mut1.op, stored[c])} = {}
                                       /\ mut1.op \notin Approvals -> "refused"
                                  [] OTHER -> "done"]}
      BY <1>8, Zenon DEF CallServed
    <3> DEFINE l == IF lost1 \/ ~Patches(mut1.op) THEN mut1.left ELSE stored'
               s == CASE lost1 -> "lost"
                      [] {c \in batch1 : Accepts(mut1.op, stored[c])} = {}
                           /\ mut1.op \notin Approvals -> "refused"
                      [] OTHER -> "done"
               rest1 == mut1.ahead \ batch1
    <3>2. l \in Listing /\ s \in {"sent", "done", "refused", "lost"} /\ rest1 \in SUBSET Cars
      BY <2>2, <2>4
    <3>3. calls' = (calls \ {mut1}) \cup
            {IF ~lost1 /\ rest1 # {} THEN [mut1 EXCEPT !.op = "approveRest", !.ahead = rest1]
             ELSE [mut1 EXCEPT !.left = l, !.step = s]}
      BY <3>1
    <3> HIDE DEF l, s, rest1
    <3> QED BY <2>3, <2>a, <3>2, <3>3
  <2>8. PICK told1 \in Mutation : calls' = (calls \ {mut1}) \cup {told1}
    BY <2>5
  <2>9. C' BY <1>1, <2>8
  <2>10. A' BY <1>1, <1>8, <2>2 DEF CallServed
  <2>6. A' /\ C' BY <2>9, <2>10
  <2>7. D' BY <1>1, <1>8, Zenon DEF CallServed
  <2> QED BY <1>0, <2>6, <2>7
<1>9. ASSUME NEW mut1 \in calls, CallAnswered(mut1) PROVE ListTypeOK'
  <2>1. [mut1 EXCEPT !.op = "upload", !.step = "sent"] \in Mutation
    BY <1>2 DEF Mutation, OfOne
  <2>2. C' BY <1>1, <1>9, <2>1 DEF CallAnswered
  <2>3. \A c \in Cars : list.data[c] \in TableRow /\ Patched(mut1, list.data[c]) \in TableRow
    BY <1>1, PatchedOps DEF Listing
  <2>4. [c \in Cars |-> IF c \in mut1.ids THEN Patched(mut1, list.data[c]) ELSE list.data[c]] \in Listing
    BY <2>3 DEF Listing
  <2>5. A' BY <1>1, <1>9, <2>4, ListConstantsTyped DEF CallAnswered, Reload
  <2>6. D' BY <1>1, <1>9, Zenon DEF CallAnswered
  <2> QED BY <1>0, <2>2, <2>5, <2>6
<1>10. ASSUME NEW mut1 \in calls, CallFailed(mut1) PROVE ListTypeOK'
  <2>1. \A s \in {"refused", "lost"} : [mut1 EXCEPT !.step = s] \in Mutation BY <1>2 DEF Mutation
  <2>2. A' /\ C' BY <1>1, <1>10, <2>1 DEF CallFailed
  <2>3. D' BY <1>1, <1>10, Zenon DEF CallFailed
  <2> QED BY <1>0, <2>2, <2>3
<1> QED BY <1>3, <1>4, <1>6, <1>7, <1>8, <1>9, <1>10 DEF ListNext

(* What a call is still ahead of.                                          *)
LEMMA AheadKept == ListTypeOK /\ AheadIsAsked /\ [ListNext]_listVars => AheadIsAsked'
<1> SUFFICES ASSUME ListTypeOK, AheadIsAsked, [ListNext]_listVars PROVE AheadIsAsked'
  OBVIOUS
<1>1. \A k \in calls : k \in Mutation BY DEF ListTypeOK, Mutation
<1>2. ASSUME NEW op, NEW ids \in SUBSET Cars, NEW photos, Send(op, ids, photos) PROVE AheadIsAsked'
  BY <1>2 DEF Send, AheadIsAsked
<1>3. ASSUME NEW mut1 \in calls, NEW told1, calls' = (calls \ {mut1}) \cup {told1},
             told1.ids = mut1.ids, told1.ahead \subseteq mut1.ahead,
             Patches(told1.op) => told1.ahead = mut1.ahead /\ told1.op = mut1.op,
             told1.op = "approveRest" => told1.step # "refused"
      PROVE  AheadIsAsked'
  BY <1>3 DEF AheadIsAsked
<1>4. CASE UNCHANGED calls BY <1>4 DEF AheadIsAsked
<1>5. CASE \/ DeletePhoto \/ (\E ids \in SUBSET Cars : ApproveSelected(ids))
           \/ (\E photos \in BOOLEAN : SaveChanges(photos))
           \/ \E c \in Cars, op \in {"approve", "deactivate", "unarchive", "delete"} : ClickRow(op, c)
  <2>1. editing # "no" => {editing} \in SUBSET Cars BY DEF ListTypeOK
  <2> QED BY <1>2, <1>5, <2>1, Zenon DEF DeletePhoto, ApproveSelected, SaveChanges, ClickRow
<1>6. ASSUME NEW mut1 \in calls, NEW lost1 \in BOOLEAN, CallServed(mut1, lost1) PROVE AheadIsAsked'
  <2>1. PICK batch1, l, s :
          /\ batch1 \subseteq mut1.ahead /\ mut1.step = "sent" /\ (mut1.op = "approveRest" => s # "refused")
          /\ calls' = (calls \ {mut1}) \cup
            {IF ~lost1 /\ mut1.ahead \ batch1 # {}
             THEN [mut1 EXCEPT !.op = "approveRest", !.ahead = mut1.ahead \ batch1]
             ELSE [mut1 EXCEPT !.left = l, !.step = s]}
    <3>1. PICK batch1 \in SUBSET mut1.ahead :
            /\ mut1.step = "sent"
            /\ calls' = (calls \ {mut1}) \cup
                 {IF ~lost1 /\ mut1.ahead \ batch1 # {}
                  THEN [mut1 EXCEPT !.op = "approveRest", !.ahead = mut1.ahead \ batch1]
                  ELSE [mut1 EXCEPT !.left = IF lost1 \/ ~Patches(mut1.op) THEN mut1.left ELSE stored',
                          !.step = CASE lost1 -> "lost"
                                     [] {c \in batch1 : Accepts(mut1.op, stored[c])} = {}
                                          /\ mut1.op \notin Approvals -> "refused"
                                     [] OTHER -> "done"]}
      BY <1>6, Zenon DEF CallServed
    <3> DEFINE l1 == IF lost1 \/ ~Patches(mut1.op) THEN mut1.left ELSE stored'
               s1 == CASE lost1 -> "lost"
                       [] {c \in batch1 : Accepts(mut1.op, stored[c])} = {}
                            /\ mut1.op \notin Approvals -> "refused"
                       [] OTHER -> "done"
    <3>2. mut1.op = "approveRest" => s1 # "refused" BY DEF Approvals
    <3>3. /\ mut1.step = "sent"
          /\ calls' = (calls \ {mut1}) \cup
               {IF ~lost1 /\ mut1.ahead \ batch1 # {}
                THEN [mut1 EXCEPT !.op = "approveRest", !.ahead = mut1.ahead \ batch1]
                ELSE [mut1 EXCEPT !.left = l1, !.step = s1]}
      BY <3>1
    <3> HIDE DEF l1, s1
    <3> QED BY <3>2, <3>3, Zenon
  <2>2. CASE ~lost1 /\ mut1.ahead \ batch1 # {}
    <3> DEFINE told1 == [mut1 EXCEPT !.op = "approveRest", !.ahead = mut1.ahead \ batch1]
    <3>1. /\ told1.ids = mut1.ids /\ told1.ahead \subseteq mut1.ahead /\ ~Patches(told1.op)
          /\ told1.step = "sent"
      BY <1>1, <2>1 DEF Mutation, Patches
    <3>2. calls' = (calls \ {mut1}) \cup {told1} BY <2>1, <2>2
    <3> HIDE DEF told1
    <3> QED BY <1>3, <3>1, <3>2
  <2>3. CASE ~(~lost1 /\ mut1.ahead \ batch1 # {})
    <3> DEFINE told1 == [mut1 EXCEPT !.left = l, !.step = s]
    <3>1. told1.ids = mut1.ids /\ told1.ahead = mut1.ahead /\ told1.op = mut1.op /\ told1.step = s
      BY <1>1 DEF Mutation
    <3>2. /\ calls' = (calls \ {mut1}) \cup {told1} /\ (mut1.op = "approveRest" => s # "refused")
      BY <2>1, <2>3
    <3> HIDE DEF told1
    <3> QED BY <1>3, <3>1, <3>2
  <2> QED BY <2>2, <2>3
<1>7. ASSUME NEW mut1 \in calls, CallFailed(mut1) PROVE AheadIsAsked'
  <2>1. PICK s : /\ calls' = (calls \ {mut1}) \cup {[mut1 EXCEPT !.step = s]}
                 /\ mut1.op = "approveRest" => s # "refused"
    BY <1>7 DEF CallFailed
  <2>2. /\ [mut1 EXCEPT !.step = s].ids = mut1.ids /\ [mut1 EXCEPT !.step = s].ahead = mut1.ahead
        /\ [mut1 EXCEPT !.step = s].op = mut1.op /\ [mut1 EXCEPT !.step = s].step = s
    BY <1>1 DEF Mutation
  <2> QED BY <1>3, <2>1, <2>2
<1>8. ASSUME NEW mut1 \in calls, CallAnswered(mut1) PROVE AheadIsAsked'
  <2>1. \/ calls' = calls \ {mut1}
        \/ calls' = (calls \ {mut1}) \cup {[mut1 EXCEPT !.op = "upload", !.step = "sent"]}
    BY <1>8 DEF CallAnswered
  <2>2. CASE calls' = calls \ {mut1} BY <2>2 DEF AheadIsAsked
  <2>3. CASE calls' = (calls \ {mut1}) \cup {[mut1 EXCEPT !.op = "upload", !.step = "sent"]}
    <3> DEFINE told1 == [mut1 EXCEPT !.op = "upload", !.step = "sent"]
    <3>1. /\ told1.ids = mut1.ids /\ told1.ahead = mut1.ahead /\ ~Patches(told1.op)
          /\ told1.step = "sent"
      BY <1>1 DEF Mutation, Patches
    <3> HIDE DEF told1
    <3>2. calls' = (calls \ {mut1}) \cup {told1} BY <2>3 DEF told1
    <3> QED BY <1>3, <3>1, <3>2
  <2> QED BY <2>1, <2>2, <2>3
<1>9. CASE \/ FetchServed \/ FetchArrived \/ FetchFailed \/ ChangeSort \/ Cancel
           \/ (\E c \in Cars : EditListing(c))
           \/ (\E c \in Cars, op \in {"approve", "deactivate"} : ServerRuns(op, c))
           \/ UNCHANGED listVars
  <2>1. UNCHANGED calls
    BY <1>9, Zenon DEF FetchServed, FetchArrived, FetchFailed, ChangeSort, Cancel, EditListing, ServerRuns,
      listVars
  <2> QED BY <1>4, <2>1
<1> QED BY <1>5, <1>6, <1>7, <1>8, <1>9, Zenon DEF ListNext

THEOREM ListTyped == ListSpec => []ListTypeOK
<1>1. ListInit => ListTypeOK
  <2> SUFFICES ASSUME ListInit PROVE ListTypeOK
    OBVIOUS
  <2>1. [c \in Cars |-> [status |-> "PENDING_REVIEW", shows |-> "imported"]] \in Listing
    BY DEF Listing, TableRow
  <2>2. drift \in BOOLEAN BY Zenon DEF ListInit
  <2> QED BY <2>1, <2>2, ListConstantsTyped, ListAssumption DEF ListInit, ListTypeOK
<1> QED BY <1>1, ListTypes, PTL DEF ListSpec

(* Adding or removing mutations that are told, or were not patched in, does*)
(* not matter while the rows stay.                                         *)
LEMMA ListKept == ListInv /\ AheadIsAsked /\ ListTypeOK' /\ [ListNext]_listVars => ListInv'
<1> SUFFICES ASSUME ListInv, AheadIsAsked, ListTypeOK', [ListNext]_listVars PROVE ListInv'
  OBVIOUS
<1>1. /\ \A c \in Cars : stored[c] \in TableRow /\ list.data[c] \in TableRow /\ fetch.stored[c] \in TableRow
      /\ \A k \in calls : k \in Mutation
  BY DEF ListInv, ListTypeOK, Listing, Mutation
<1>2. /\ PatchesAreOne /\ \A c \in Cars : RowIsKnown(c) /\ Base(c) \in TableRow
      /\ fetch.step = "none" <=> fetch = NoFetch
  BY <1>1 DEF ListInv, Base
<1>3. \A c \in Cars, k \in calls : k.left[c] \in TableRow
  BY <1>1 DEF Mutation, Listing
<1>a. ASSUME ~Knows' PROVE \A c \in Cars : RowIsKnown(c)'
  BY <1>a DEF RowIsKnown
<1>4. ASSUME UNCHANGED <<stored, list, fetch, drift, calls>> PROVE ListInv'
  <2>1. PatchesAreOne' BY <1>2, <1>4 DEF PatchesAreOne
  <2>2. ASSUME NEW c \in Cars PROVE RowIsKnown(c)'
    <3>1. Knows' = Knows /\ Base(c)' = Base(c) /\ Untold(c)' = Untold(c)
      BY <1>4 DEF Knows, Base, Untold
    <3> QED BY <1>2, <1>4, <3>1 DEF RowIsKnown
  <2> QED BY <1>2, <1>4, <2>1, <2>2 DEF ListInv
<1>5. CASE UNCHANGED listVars \/ Cancel \/ \E c \in Cars : EditListing(c)
  BY <1>4, <1>5 DEF listVars, Cancel, EditListing
<1>6. CASE ChangeSort
  <2>1. fetch' = Sent /\ calls' = calls BY <1>6 DEF ChangeSort, Reload
  <2>2. ~Knows' BY <2>1, ListConstantsTyped DEF Knows
  <2>3. PatchesAreOne' BY <1>2, <2>1 DEF PatchesAreOne
  <2>4. fetch'.step # "none" /\ fetch' # NoFetch BY <2>1, ListConstantsTyped
  <2> QED BY <1>a, <2>2, <2>3, <2>4 DEF ListInv
<1>7. CASE FetchServed
  <2>1. fetch' = [step |-> "served", stored |-> stored] /\ UNCHANGED <<stored, list, calls>>
    BY <1>7 DEF FetchServed
  <2>2. PatchesAreOne' BY <1>2, <2>1 DEF PatchesAreOne
  <2>3. ASSUME NEW c \in Cars PROVE RowIsKnown(c)'
    <3>1. Base(c)' = stored[c] /\ stored'[c] = stored[c] BY <2>1 DEF Base
    <3>2. ASSUME NEW k \in calls, c \in k.ids, Patches(k.op), k.step = "done", stored[c] = k.left[c]
          PROVE  Patched(k, stored[c]) = stored[c]
      BY <1>2, <3>2 DEF PatchesAreOne
    <3>3. \A k : Untold(c)' = {k} => c \in k.ids BY DEF Untold
    <3> QED BY <2>1, <3>1, <3>2, <3>3 DEF RowIsKnown
  <2>4. fetch'.step # "none" /\ fetch' # NoFetch BY <2>1, ListConstantsTyped
  <2> QED BY <2>2, <2>3, <2>4 DEF ListInv
<1>8. CASE FetchArrived
  <2>1. /\ fetch.step = "served" /\ fetch' = NoFetch /\ list'.data = fetch.stored
        /\ UNCHANGED <<stored, calls, drift>>
    BY <1>8 DEF FetchArrived
  <2>2. PatchesAreOne' BY <1>2, <2>1 DEF PatchesAreOne
  <2>3. ASSUME NEW c \in Cars PROVE RowIsKnown(c)'
    <3>1. Base(c)' = Base(c) /\ Untold(c)' = Untold(c)
      BY <2>1, ListConstantsTyped DEF Base, Untold
    <3>2. Knows' => Knows BY <2>1, Zenon DEF Knows
    <3> QED BY <1>2, <2>1, <3>1, <3>2 DEF RowIsKnown
  <2> QED BY <2>1, <2>2, <2>3, ListConstantsTyped DEF ListInv
<1>9. CASE FetchFailed
  <2>1. fetch' = NoFetch /\ calls' = calls /\ list'.error = TRUE
    BY <1>9 DEF FetchFailed, ListInv, ListTypeOK
  <2>2. ~Knows' BY <2>1, ListConstantsTyped DEF Knows
  <2>3. PatchesAreOne' BY <1>2, <2>1 DEF PatchesAreOne
  <2> QED BY <1>a, <2>1, <2>2, <2>3, ListConstantsTyped DEF ListInv
<1>10. ASSUME NEW op, NEW ids \in SUBSET Cars, NEW photos, op \notin {"upload", "approveRest"},
              Patches(op) => \E c \in Cars : ids = {c}, Send(op, ids, photos)
       PROVE  ListInv'
  <2> DEFINE new == [op |-> op, ids |-> ids, ahead |-> ids, step |-> "sent", left |-> NoFetch.stored,
                     photos |-> photos]
  <2>1. calls' = calls \cup {new} /\ UNCHANGED <<stored, list, fetch, drift>>
        /\ ~\E k \in calls : k.op = op /\ k.ids = ids
    BY <1>10 DEF Send, InFlight
  <2>2. PatchesAreOne' BY <1>2, <1>10, <2>1 DEF PatchesAreOne
  <2>3. ASSUME NEW c \in Cars PROVE RowIsKnown(c)'
    <3>1. Untold(c)' = Untold(c) BY <1>10, <2>1 DEF Untold, Begun
    <3>2. Base(c)' = Base(c) /\ (Knows' <=> Knows) BY <2>1 DEF Base, Knows
    <3> QED BY <1>2, <2>1, <3>1, <3>2 DEF RowIsKnown
  <2> QED BY <1>2, <2>1, <2>2, <2>3 DEF ListInv
<1>11. CASE \/ DeletePhoto \/ (\E ids \in SUBSET Cars : ApproveSelected(ids))
            \/ (\E photos \in BOOLEAN : SaveChanges(photos))
            \/ \E c \in Cars, op \in {"approve", "deactivate", "unarchive", "delete"} : ClickRow(op, c)
  <2>1. editing # "no" => editing \in Cars BY DEF ListInv, ListTypeOK
  <2>2. CASE DeletePhoto
    BY <1>10, <2>1, <2>2 DEF DeletePhoto
  <2>3. CASE \E ids \in SUBSET Cars : ApproveSelected(ids)
    BY <1>10, <2>3 DEF ApproveSelected, Patches
  <2>4. CASE \E photos \in BOOLEAN : SaveChanges(photos)
    BY <1>10, <2>1, <2>4 DEF SaveChanges, Patches
  <2>5. ASSUME NEW c \in Cars, NEW op \in {"approve", "deactivate", "unarchive", "delete"}, ClickRow(op, c)
        PROVE  ListInv'
    <3>1. Send(op, {c}, FALSE) BY <2>5 DEF ClickRow
    <3> QED BY <1>10, <3>1
  <2> QED BY <1>11, <2>2, <2>3, <2>4, <2>5
<1>12. ASSUME NEW c \in Cars, NEW op \in {"approve", "deactivate"}, ServerRuns(op, c) PROVE ListInv'
  <2>1. calls' = calls /\ fetch' = fetch /\ drift' BY <1>12 DEF ServerRuns
  <2>2. ~Knows' BY <2>1 DEF Knows
  <2>3. PatchesAreOne' BY <1>2, <2>1 DEF PatchesAreOne
  <2> QED BY <1>2, <1>a, <2>1, <2>2, <2>3 DEF ListInv
(* A request that does not end its call: what it did is begun.             *)
<1>b. ASSUME NEW mut1 \in calls, NEW told1 \in Mutation, mut1.step = "sent",
             calls' = (calls \ {mut1}) \cup {told1}, UNCHANGED <<list, fetch, drift>>,
             told1.ids = mut1.ids, told1.op = "approveRest",
             \A c \in Cars : c \notin mut1.ids => stored'[c] = stored[c]
      PROVE  ListInv'
  <2>1. PatchesAreOne' BY <1>2, <1>b DEF PatchesAreOne, Patches
  <2>2. ASSUME NEW c \in Cars PROVE RowIsKnown(c)'
    <3>1. Knows' = Knows /\ Base(c)' = Base(c) BY <1>b DEF Knows, Base
    <3>2. CASE c \in mut1.ids
      <4>1. told1 \in Untold(c)' BY <1>b, <3>2 DEF Untold, Begun
      <4> QED BY <1>b, <4>1 DEF RowIsKnown, Patches
    <3>3. CASE c \notin mut1.ids
      <4>1. Untold(c)' = Untold(c) BY <1>b, <3>3 DEF Untold
      <4>2. \A k \in calls' : k \in Untold(c)' => k \in calls BY <4>1 DEF Untold
      <4> QED BY <1>2, <1>b, <3>1, <3>3, <4>1, <4>2 DEF RowIsKnown
    <3> QED BY <3>2, <3>3
  <2> QED BY <1>2, <1>b, <2>1, <2>2 DEF ListInv
<1>13. ASSUME NEW mut1 \in calls, NEW lost1 \in BOOLEAN, CallServed(mut1, lost1) PROVE ListInv'
  <2>a. PICK batch1 \in SUBSET mut1.ahead :
          /\ mut1.step = "sent" /\ IsBatch(mut1, batch1) /\ UNCHANGED <<list, fetch, drift>>
          /\ stored' = [c \in Cars |-> IF c \in {x \in batch1 : Accepts(mut1.op, stored[x])}
                                        THEN Effect(mut1.op, stored[c]) ELSE stored[c]]
          /\ calls' = (calls \ {mut1}) \cup
               {IF ~lost1 /\ mut1.ahead \ batch1 # {}
                THEN [mut1 EXCEPT !.op = "approveRest", !.ahead = mut1.ahead \ batch1]
                ELSE [mut1 EXCEPT !.left = IF lost1 \/ ~Patches(mut1.op) THEN mut1.left ELSE stored',
                        !.step = CASE lost1 -> "lost"
                                   [] {x \in batch1 : Accepts(mut1.op, stored[x])} = {}
                                        /\ mut1.op \notin Approvals -> "refused"
                                   [] OTHER -> "done"]}
    BY <1>13, Zenon DEF CallServed
  <2> DEFINE done == {x \in batch1 : Accepts(mut1.op, stored[x])}
             l == IF lost1 \/ ~Patches(mut1.op) THEN mut1.left ELSE stored'
             s == CASE lost1 -> "lost"
                    [] done = {} /\ mut1.op \notin Approvals -> "refused"
                    [] OTHER -> "done"
             told == [mut1 EXCEPT !.left = l, !.step = s]
             rest1 == [mut1 EXCEPT !.op = "approveRest", !.ahead = mut1.ahead \ batch1]
  <2>b. mut1.ahead \subseteq mut1.ids /\ (Patches(mut1.op) => mut1.ahead = mut1.ids) BY DEF AheadIsAsked
  <2>c. done \subseteq mut1.ids BY <2>a, <2>b
  <2>2. stored' = [c \in Cars |-> IF c \in done THEN Effect(mut1.op, stored[c]) ELSE stored[c]]
    BY <2>a
  <2>d. CASE ~lost1 /\ mut1.ahead \ batch1 # {}
    <3>1. calls' = (calls \ {mut1}) \cup {rest1} BY <2>a, <2>d
    <3>2. rest1 \in Mutation /\ rest1.op = "approveRest" /\ rest1.ids = mut1.ids
      BY <1>1 DEF Mutation, Approvals
    <3>3. \A c \in Cars : c \notin mut1.ids => stored'[c] = stored[c] BY <2>2, <2>c
    <3>4. mut1.step = "sent" /\ UNCHANGED <<list, fetch, drift>> BY <2>a
    <3> HIDE DEF rest1
    <3> QED BY <1>b, <3>1, <3>2, <3>3, <3>4
  <2>e. SUFFICES ASSUME ~(~lost1 /\ mut1.ahead \ batch1 # {}) PROVE ListInv'
    BY <2>d
  <2>1. /\ mut1.step = "sent" /\ calls' = (calls \ {mut1}) \cup {told}
        /\ UNCHANGED <<list, fetch, drift>>
    BY <2>a, <2>e, Zenon
  <2>3. /\ told.op = mut1.op /\ told.ids = mut1.ids /\ told.step = s /\ told.left = l
        /\ s \in {"lost", "refused", "done"}
        /\ done # {} => s \in {"lost", "done"}
        /\ s = "done" => ~lost1 /\ (done # {} \/ mut1.op \in Approvals)
    BY <1>1 DEF Mutation
  <2>f. Patches(mut1.op) => batch1 = mut1.ids /\ mut1.op \notin Approvals
    BY <2>a, <2>b DEF IsBatch, Patches, Approvals
  <2> HIDE DEF l, s, told
  <2>4. s = "done" /\ Patches(mut1.op) => l = stored' /\ done = mut1.ids
    <3> SUFFICES ASSUME s = "done", Patches(mut1.op) PROVE l = stored' /\ done = mut1.ids
      OBVIOUS
    <3>1. l = stored' BY <2>3 DEF l
    <3>2. \E c \in Cars : mut1.ids = {c} BY <1>2 DEF PatchesAreOne
    <3>3. done # {} BY <2>3, <2>f
    <3> QED BY <2>f, <3>1, <3>2, <3>3
  <2>5. PatchesAreOne'
    <3> SUFFICES ASSUME NEW k \in calls', Patches(k.op)
                 PROVE  /\ \E c \in Cars : k.ids = {c}
                        /\ \A j \in calls' : j.op = k.op /\ j.ids = k.ids => j = k
                        /\ k.step = "done" => \A c \in k.ids : Patched(k, k.left[c]) = k.left[c]
      BY DEF PatchesAreOne
    <3>1. \E c \in Cars : k.ids = {c}
      BY <1>2, <2>1, <2>3 DEF PatchesAreOne
    <3>2. ASSUME NEW j \in calls', j.op = k.op, j.ids = k.ids PROVE j = k
      BY <1>2, <2>1, <2>3, <3>2 DEF PatchesAreOne
    <3>3. ASSUME k.step = "done", NEW c \in k.ids PROVE Patched(k, k.left[c]) = k.left[c]
      <4>1. CASE k = told
        <5>1. k.left[c] = Effect(k.op, stored[c]) /\ c \in Cars
          BY <2>2, <2>3, <2>4, <3>1, <3>3, <4>1
        <5> QED BY <1>1, <5>1, PatchedOps
      <4>2. CASE k # told
        BY <1>2, <2>1, <3>3, <4>2 DEF PatchesAreOne
      <4> QED BY <4>1, <4>2
    <3> QED BY <3>1, <3>2, <3>3
  <2>6. ASSUME NEW c \in Cars PROVE RowIsKnown(c)'
    <3> SUFFICES ASSUME Knows' PROVE RowIsKnown(c)'
      BY DEF RowIsKnown
    <3>1. Knows /\ Base(c)' = Base(c) BY <2>1 DEF Knows, Base
    <3>2. stored'[c] = IF c \in done THEN Effect(mut1.op, stored[c]) ELSE stored[c] BY <2>2
    <3>3. Untold(c) \ {mut1} \subseteq Untold(c)' /\ Untold(c)' \subseteq Untold(c) \cup {told}
      BY <2>1 DEF Untold
    <3>4. c \in done => told \in Untold(c)' /\ c \in mut1.ids
      BY <2>1, <2>3, <2>c DEF Untold
    <3>5. mut1 \in Untold(c) => Begun(mut1) /\ told \in Untold(c)'
      BY <2>1, <2>3 DEF Untold, Begun
    <3>6. Untold(c)' = {} => Base(c)' = stored'[c]
      <4> SUFFICES ASSUME Untold(c)' = {} PROVE Base(c)' = stored'[c]
        OBVIOUS
      <4>1. Untold(c) = {} BY <3>3, <3>5
      <4> QED BY <1>2, <3>1, <3>2, <3>4, <4>1 DEF RowIsKnown
    <3>7. ASSUME NEW k \in calls', Untold(c)' = {k}, Patches(k.op), k.step = "done",
                 stored'[c] = k.left[c]
          PROVE  Patched(k, Base(c)') = stored'[c]
      <4>1. CASE k = told
        <5>1. ~Begun(mut1) /\ Patches(mut1.op) /\ s = "done"
          BY <2>3, <3>7, <4>1 DEF Patches, Begun, Untold
        <5>2. c \in done BY <2>3, <2>4, <3>7, <4>1, <5>1 DEF Untold
        <5>3. Untold(c) = {}
          <6>1. mut1 \notin Untold(c) BY <3>5, <5>1
          <6>2. ASSUME NEW j \in Untold(c) PROVE FALSE
            <7>1. j \in calls /\ j \in Untold(c)' BY <3>3, <6>1, <6>2 DEF Untold
            <7>2. j = told BY <3>7, <4>1, <7>1
            <7>3. j = mut1 BY <1>2, <2>3, <5>1, <7>1, <7>2 DEF PatchesAreOne
            <7> QED BY <6>1, <6>2, <7>3
          <6> QED BY <6>2
        <5>4. Base(c) = stored[c] BY <1>2, <3>1, <5>3 DEF RowIsKnown
        <5>5. Patches(k.op) /\ k.op = mut1.op BY <2>3, <4>1, <5>1
        <5> QED BY <1>1, <3>1, <3>2, <5>2, <5>4, <5>5, PatchedOps
      <4>2. CASE k # told
        <5>1. c \notin done BY <3>4, <3>7, <4>2
        <5>2. mut1 \notin Untold(c) BY <3>5, <3>7, <4>2
        <5>3. Untold(c) = {k} BY <3>3, <3>7, <4>2, <5>2
        <5>4. k \in calls BY <5>3 DEF Untold
        <5> QED BY <1>2, <3>1, <3>2, <3>7, <5>1, <5>3, <5>4 DEF RowIsKnown
      <4> QED BY <4>1, <4>2
    <3> QED BY <3>6, <3>7 DEF RowIsKnown
  <2> QED BY <1>2, <2>1, <2>5, <2>6 DEF ListInv
<1>c. ASSUME NEW mut1 \in calls, CallFailed(mut1) PROVE ListInv'
  <2> DEFINE s == IF mut1.op = "approveRest" THEN "lost" ELSE "refused"
             told == [mut1 EXCEPT !.step = s]
  <2>1. /\ mut1.step = "sent" /\ calls' = (calls \ {mut1}) \cup {told}
        /\ UNCHANGED <<stored, list, fetch, drift>>
    BY <1>c DEF CallFailed
  <2>2. told.op = mut1.op /\ told.ids = mut1.ids /\ told.step = s /\ s \in {"refused", "lost"}
        /\ (s = "lost" => Begun(mut1))
    BY <1>1 DEF Mutation, Begun
  <2> HIDE DEF s, told
  <2>3. PatchesAreOne' BY <1>2, <2>1, <2>2 DEF PatchesAreOne
  <2>4. ASSUME NEW c \in Cars PROVE RowIsKnown(c)'
    <3>1. Knows' = Knows /\ Base(c)' = Base(c) BY <2>1 DEF Knows, Base
    <3>2. CASE Begun(mut1) /\ c \in mut1.ids
      <4>1. told \in Untold(c)' /\ ~Patches(told.op) BY <2>1, <2>2, <3>2 DEF Untold, Begun, Patches
      <4> QED BY <4>1 DEF RowIsKnown
    <3>3. CASE ~(Begun(mut1) /\ c \in mut1.ids)
      <4>1. Untold(c)' = Untold(c) BY <2>1, <2>2, <3>3 DEF Untold, Begun
      <4>2. \A k \in calls' : k \in Untold(c)' => k \in calls BY <4>1 DEF Untold
      <4> QED BY <1>2, <2>1, <3>1, <4>1, <4>2 DEF RowIsKnown
    <3> QED BY <3>2, <3>3
  <2> QED BY <1>2, <2>1, <2>3, <2>4 DEF ListInv
<1>14. ASSUME NEW mut1 \in calls, CallAnswered(mut1) PROVE ListInv'
  <2>1. mut1.step # "sent" /\ stored' = stored BY <1>14 DEF CallAnswered
  <2>2. ASSUME calls' \subseteq calls PROVE PatchesAreOne'
    BY <1>2, <2>2 DEF PatchesAreOne
  <2>3. CASE /\ mut1.step = "done" /\ Patches(mut1.op)
             /\ list' = [list EXCEPT !.data =
                           [c \in Cars |-> IF c \in mut1.ids THEN Patched(mut1, @[c]) ELSE @[c]]]
             /\ drift' = (drift \/ PatchMisses(mut1))
             /\ calls' = calls \ {mut1} /\ UNCHANGED <<fetch, editing>>
    <3>1. PatchesAreOne' BY <2>2, <2>3
    <3>2. /\ list'.error = list.error
          /\ \A c \in Cars : list'.data[c] = IF c \in mut1.ids THEN Patched(mut1, list.data[c]) ELSE list.data[c]
      BY <2>3 DEF ListInv, ListTypeOK
    <3>3. ASSUME NEW c \in Cars PROVE RowIsKnown(c)'
      <4> SUFFICES ASSUME Knows' PROVE RowIsKnown(c)'
        BY DEF RowIsKnown
      <4>1. ~drift' /\ fetch' = fetch BY <2>3 DEF Knows
      <4>2. ~drift /\ ~PatchMisses(mut1) BY <2>3, <4>1, Zenon
      <4>3. Knows BY <3>2, <4>1, <4>2 DEF Knows
      <4>4. CASE c \notin mut1.ids
        <5>1. Untold(c)' = Untold(c) BY <2>3, <4>4 DEF Untold
        <5>2. Base(c)' = Base(c) BY <3>2, <4>1, <4>4 DEF Base
        <5> QED BY <1>2, <2>1, <2>3, <4>3, <5>1, <5>2 DEF RowIsKnown
      <4>5. CASE c \in mut1.ids
        <5>1. Untold(c)' = Untold(c) \ {mut1} /\ mut1 \in Untold(c) BY <2>3, <4>5 DEF Untold
        <5>2. stored[c] = mut1.left[c] /\ (fetch.step = "served" => fetch.stored[c] = stored[c])
          BY <4>2, <4>5 DEF PatchMisses
        <5>3. Patched(mut1, stored[c]) = stored[c] BY <1>2, <2>3, <4>5, <5>2 DEF PatchesAreOne
        <5>4. ASSUME Untold(c)' = {} PROVE Base(c)' = stored'[c]
          <6>1. Untold(c) = {mut1} BY <5>1, <5>4
          <6>2. Patched(mut1, Base(c)) = stored[c] BY <1>2, <2>3, <4>3, <5>2, <6>1 DEF RowIsKnown
          <6> QED BY <2>1, <3>2, <4>1, <4>5, <5>2, <6>2 DEF Base
        <5>5. ASSUME NEW k \in calls', Untold(c)' = {k}, Patches(k.op), k.step = "done",
                     stored'[c] = k.left[c]
              PROVE  Patched(k, Base(c)') = stored'[c]
          <6>1. k \in calls /\ k # mut1 /\ c \in k.ids BY <2>3, <5>1, <5>5 DEF Untold
          <6>2. Patched(k, stored[c]) = stored[c] BY <1>2, <2>1, <5>5, <6>1 DEF PatchesAreOne
          <6>3. k.op # mut1.op
            <7>1. (\E c1 \in Cars : k.ids = {c1}) /\ (\E c1 \in Cars : mut1.ids = {c1})
              BY <1>2, <2>3, <5>5, <6>1, Zenon DEF PatchesAreOne
            <7>2. k.ids = mut1.ids BY <4>5, <6>1, <7>1
            <7>3. \A j \in calls : j.op = mut1.op /\ j.ids = mut1.ids => j = mut1
              BY <1>2, <2>3, Zenon DEF PatchesAreOne
            <7> QED BY <6>1, <7>2, <7>3
          <6>4. CASE fetch.step = "served"
            BY <2>1, <4>1, <5>2, <6>2, <6>4 DEF Base
          <6>5. CASE fetch.step # "served"
            <7>1. Base(c)' = Patched(mut1, list.data[c]) BY <3>2, <4>1, <4>5, <6>5 DEF Base
            <7> QED BY <1>1, <2>1, <2>3, <5>3, <5>5, <6>2, <6>3, <7>1, PatchesMeet
          <6> QED BY <6>4, <6>5
        <5> QED BY <5>4, <5>5 DEF RowIsKnown
      <4> QED BY <4>4, <4>5
    <3> QED BY <1>2, <2>3, <3>1, <3>3 DEF ListInv
  <2>4. CASE /\ mut1.step = "done" /\ mut1.op = "update" /\ mut1.photos
             /\ calls' = (calls \ {mut1}) \cup {[mut1 EXCEPT !.op = "upload", !.step = "sent"]}
             /\ UNCHANGED <<list, fetch, editing, drift>>
    <3> DEFINE next1 == [mut1 EXCEPT !.op = "upload", !.step = "sent"]
    <3>1. next1.op = "upload" /\ next1.ids = mut1.ids BY <1>1 DEF Mutation
    <3> HIDE DEF next1
    <3>2. calls' = (calls \ {mut1}) \cup {next1} BY <2>4 DEF next1
    <3>3. PatchesAreOne' BY <1>2, <3>1, <3>2 DEF PatchesAreOne, Patches
    <3>4. ASSUME NEW c \in Cars PROVE RowIsKnown(c)'
      <4>1. (Knows' <=> Knows) /\ Base(c)' = Base(c) BY <2>4 DEF Knows, Base
      <4>2. CASE c \notin mut1.ids
        <5>1. Untold(c)' = Untold(c) BY <3>1, <3>2, <4>2 DEF Untold
        <5>2. \A k \in calls' : k \in Untold(c)' => k \in calls BY <5>1 DEF Untold
        <5> QED BY <1>2, <2>1, <4>1, <5>1, <5>2 DEF RowIsKnown
      <4>3. CASE c \in mut1.ids
        <5>1. next1 \in Untold(c)' BY <3>1, <3>2, <4>3 DEF Untold, Begun
        <5> QED BY <3>1, <5>1 DEF RowIsKnown, Patches
      <4> QED BY <4>2, <4>3
    <3> QED BY <1>2, <2>4, <3>3, <3>4 DEF ListInv
  <2>5. CASE Reload /\ calls' = calls \ {mut1}
    <3>1. ~Knows' /\ fetch'.step # "none" /\ fetch' # NoFetch
      BY <2>5, ListConstantsTyped DEF Reload, Knows
    <3> QED BY <1>a, <2>2, <2>5, <3>1 DEF ListInv
  <2>6. CASE /\ mut1.step \in {"refused", "lost"} /\ mut1.op # "upload"
             /\ drift' = (drift \/ mut1.step = "lost")
             /\ calls' = calls \ {mut1} /\ UNCHANGED <<list, fetch, editing>>
    <3>1. PatchesAreOne' BY <2>2, <2>6
    <3>2. ASSUME NEW c \in Cars PROVE RowIsKnown(c)'
      <4> SUFFICES ASSUME Knows' PROVE RowIsKnown(c)'
        BY DEF RowIsKnown
      <4>1. ~drift' BY DEF Knows
      <4>2. ~drift /\ mut1.step # "lost" BY <2>6, <4>1, Zenon
      <4>3. mut1 \notin Untold(c) BY <2>6, <4>2 DEF Untold, Begun, AheadIsAsked
      <4>4. Untold(c)' = Untold(c) BY <2>6, <4>3 DEF Untold
      <4>5. Knows /\ Base(c)' = Base(c) BY <2>6, <4>2 DEF Knows, Base
      <4> QED BY <1>2, <2>1, <2>6, <4>4, <4>5 DEF RowIsKnown
    <3> QED BY <1>2, <2>6, <3>1, <3>2 DEF ListInv
  <2> QED BY <1>14, <2>3, <2>4, <2>5, <2>6 DEF CallAnswered
<1> QED BY <1>5, <1>6, <1>7, <1>8, <1>9, <1>11, <1>12, <1>13, <1>14, <1>c DEF ListNext

(* At rest, without an error or a change it cannot know of, the dealer's   *)
(* table shows the server's rows (ListingsPage.tla, ListShowsServer).      *)
THEOREM TableShowsServer == ListSpec => []ListShowsServer
<1>1. ListInit /\ ListTypeOK => ListInv
  <2> SUFFICES ASSUME ListInit, ListTypeOK PROVE ListInv
    OBVIOUS
  <2>1. fetch = Sent /\ calls = {} BY DEF ListInit
  <2> QED BY <2>1, ListConstantsTyped DEF ListInv, PatchesAreOne, RowIsKnown, Knows
<1>2. ListInv => ListShowsServer
  <2> SUFFICES ASSUME ListInv, fetch = NoFetch, calls = {}, ~drift, ~list.error
               PROVE  list.data = stored
    BY DEF ListShowsServer
  <2>1. Knows BY ListConstantsTyped DEF Knows
  <2>2. \A c \in Cars : list.data[c] = stored[c]
    BY <2>1, ListConstantsTyped DEF ListInv, RowIsKnown, Untold, Base
  <2>3. list.data \in Listing /\ stored \in Listing BY DEF ListInv, ListTypeOK
  <2> QED BY <2>2, <2>3 DEF Listing
<1>3. ListInit => AheadIsAsked BY DEF ListInit, AheadIsAsked
<1>4. ListSpec => []AheadIsAsked BY <1>3, AheadKept, ListTyped, PTL DEF ListSpec
<1> QED BY <1>1, <1>2, <1>4, ListTyped, ListKept, PTL DEF ListSpec

----
(***************************************************************************)
(* The upload pages.                                                       *)
(***************************************************************************)

(* A set of natural numbers that is not empty has a least one, and one     *)
(* with a bound has a greatest one.                                        *)
LEMMA LeastNatural ==
  ASSUME NEW T \in SUBSET Nat, T # {}
  PROVE  \E x \in T : \A y \in T : x <= y
<1>1. PICK x \in T : \A y \in T : <<y, x>> \notin OpToRel(<, Nat)
  BY NatLessThanWellFounded, WFMin
<1>2. \A y \in T : ~(y < x) BY <1>1 DEF OpToRel
<1> QED BY <1>2

LEMMA GreatestNatural ==
  ASSUME NEW T \in SUBSET Nat, T # {}, NEW n \in Nat, \A x \in T : x <= n
  PROVE  Max(T) \in T /\ \A y \in T : y <= Max(T)
<1> DEFINE B == {b \in Nat : \A x \in T : x <= b}
<1>1. n \in B OBVIOUS
<1>2. PICK b \in B : \A c \in B : b <= c BY <1>1, LeastNatural
<1>3. b \in T
  <2>1. CASE b = 0
    <3>1. PICK x \in T : TRUE OBVIOUS
    <3>2. x = 0 BY <1>2, <2>1
    <3> QED BY <2>1, <3>1, <3>2
  <2>2. CASE b # 0 /\ b \notin T
    <3>1. b - 1 \in B BY <1>2, <2>2
    <3> QED BY <1>2, <2>2, <3>1
  <2> QED BY <2>1, <2>2
<1>4. \A x \in T : b >= x BY <1>2
<1>5. Max(T) \in T /\ \A y \in T : Max(T) >= y BY <1>3, <1>4, Zenon DEF Max
<1> QED BY <1>5

LEMMA MinOfTwo ==
  ASSUME NEW m \in Int, NEW n \in Int
  PROVE  Min({m, n}) = IF m <= n THEN m ELSE n
<1>1. \E x \in {m, n} : \A y \in {m, n} : x =< y OBVIOUS
<1>2. Min({m, n}) \in {m, n} /\ \A y \in {m, n} : Min({m, n}) =< y BY <1>1, Zenon DEF Min
<1> QED BY <1>2

LEMMA MaxOfTwo ==
  ASSUME NEW m \in Int, NEW n \in Int
  PROVE  Max({m, n}) = IF m >= n THEN m ELSE n
<1>1. \E x \in {m, n} : \A y \in {m, n} : x >= y OBVIOUS
<1>2. Max({m, n}) \in {m, n} /\ \A y \in {m, n} : Max({m, n}) >= y BY <1>1, Zenon DEF Max
<1> QED BY <1>2

----
(***************************************************************************)
(* Bulk uploads.                                                           *)
(***************************************************************************)

Job == [status : TERMINAL_STATUSES \cup {"PENDING", "PROCESSING"}, missing : SUBSET {"csv", "zip"},
        published : BOOLEAN, counted : BOOLEAN, invalid : InvalidCounts, quiet : BOOLEAN, lost : BOOLEAN]

Upload == [pc : {"presign", "csv", "zip", "complete", "salvage"}, job : Nat,
           format : FORMATS, file : Inventories, zip : Archives \cup {Unpicked}, onForm : BOOLEAN]

Screen == [at : {"form", "status", "away"}, checking : BOOLEAN, format : FORMATS,
           inventory : Inventories \cup {Unpicked}, zip : Archives \cup {Unpicked},
           refused : Archives \cup {Unpicked}, job : Nat,
           shown : [status : TERMINAL_STATUSES \cup {"PENDING", "PROCESSING", "none"}, invalid : Nat],
           polling : BOOLEAN, report : {"none", "empty", "rows", "error"}, export : Seq(Nat)]

(* An upload whose job is not created holds a file the service takes, and  *)
(* an archive that the page takes; the others have a job of the dealer's.  *)
UploadSound(u, js) ==
  IF u.pc = "presign" THEN /\ u.job = 0 /\ ValidateInventoryFile(u.format, u.file)
                           /\ u.zip # Unpicked => ValidateZip(u.zip)
                      ELSE u.job \in 1 .. Len(js)

EmptyArchive == [kind |-> "zip", size |-> "empty"]

Counted(n) == [i \in 1 .. n |-> i]

(* What a page shows of a job that has settled.                            *)
ShownIsFinal(s, js) ==
  /\ s.shown.status \in TERMINAL_STATUSES
  /\ s.shown.invalid = js[s.job].invalid
  /\ s.shown.status = js[s.job].status \/ js[s.job].status = "FAILED"
  /\ js[s.job].status \in TERMINAL_STATUSES

ScreenSound(s, js) ==
  /\ s.inventory # Unpicked => ValidateInventory(s.inventory, s.format)
  /\ s.zip # Unpicked => ValidateZip(s.zip)
  /\ s.refused # Unpicked => s.refused = EmptyArchive
  /\ s.report # "empty"
  /\ s.at = "status" =>
       /\ s.job \in 1 .. Len(js)
       /\ s.polling => s.shown.status \notin TERMINAL_STATUSES
       /\ ~s.polling => ShownIsFinal(s, js)
  /\ s.at # "status" => s.job = 0
  /\ s.export # <<>> =>
       s.at = "status" /\ ~s.polling /\ s.export = Counted(js[s.job].invalid)

UploadsInv ==
  /\ jobs \in Seq(Job) /\ uploads \subseteq Upload /\ screen \in Screen
  /\ \A u \in uploads : UploadSound(u, jobs)
  /\ ScreenSound(screen, jobs)
  /\ AbandonedIsDecided

(* Jobs go on: none is taken back, and one that has settled only ever      *)
(* fails.                                                                  *)
GoesOn(a, b) ==
  a.status \in TERMINAL_STATUSES => b.invalid = a.invalid /\ b.status \in {a.status, "FAILED"}

Evolve(a, b) ==
  /\ Len(a) <= Len(b)
  /\ \A j \in 1 .. Len(a) : GoesOn(a[j], b[j])

LEMMA ScreenStays ==
  ASSUME NEW a \in Seq(Job), NEW b \in Seq(Job), NEW s \in Screen, ScreenSound(s, a), Evolve(a, b)
  PROVE  ScreenSound(s, b)
<1> SUFFICES ASSUME s.at = "status"
             PROVE  /\ s.job \in 1 .. Len(b)
                    /\ ~s.polling => ShownIsFinal(s, b) /\ b[s.job].invalid = a[s.job].invalid
  BY DEF ScreenSound
<1>1. s.job \in 1 .. Len(a) BY DEF ScreenSound
<1>2. Len(a) \in Nat /\ Len(b) \in Nat /\ s.job \in Nat BY LenProperties DEF Screen
<1>3. s.job \in 1 .. Len(b) BY <1>1, <1>2 DEF Evolve
<1>4. GoesOn(a[s.job], b[s.job]) BY <1>1 DEF Evolve
<1>5. ASSUME ~s.polling PROVE ShownIsFinal(s, b) /\ b[s.job].invalid = a[s.job].invalid
  <2>1. ShownIsFinal(s, a) BY <1>5 DEF ScreenSound
  <2> QED BY <1>4, <2>1 DEF ShownIsFinal, GoesOn, TERMINAL_STATUSES
<1> QED BY <1>3, <1>5

LEMMA UploadsStay ==
  ASSUME NEW a \in Seq(Job), NEW b \in Seq(Job), Evolve(a, b), NEW u \in Upload, UploadSound(u, a)
  PROVE  UploadSound(u, b)
<1>1. Len(a) \in Nat /\ Len(b) \in Nat BY LenProperties
<1> QED BY <1>1 DEF Evolve, UploadSound, Upload

(* One job of the dealer's changes.                                        *)
With(js, j, new) == [js EXCEPT ![j] = new]

LEMMA JobChanges ==
  ASSUME NEW a \in Seq(Job), NEW j \in 1 .. Len(a), NEW new \in Job, GoesOn(a[j], new)
  PROVE  /\ With(a, j, new) \in Seq(Job) /\ Len(With(a, j, new)) = Len(a) /\ Evolve(a, With(a, j, new))
         /\ \A i \in 1 .. Len(a) : With(a, j, new)[i] = IF i = j THEN new ELSE a[i]
<1>1. /\ With(a, j, new) \in Seq(Job) /\ Len(With(a, j, new)) = Len(a)
      /\ \A i \in 1 .. Len(a) : With(a, j, new)[i] = IF i = j THEN new ELSE a[i]
  BY ExceptSeq DEF With
<1>2. \A i \in 1 .. Len(a) : GoesOn(a[i], a[i]) BY DEF GoesOn
<1>3. Len(a) \in Nat BY LenProperties
<1> QED BY <1>1, <1>2, <1>3 DEF Evolve

LEMMA FreshScreens ==
  /\ FreshForm \in Screen /\ Away \in Screen
  /\ \A js \in Seq(Job) : ScreenSound(FreshForm, js) /\ ScreenSound(Away, js)
  /\ \A js \in Seq(Job) : \A j \in 1 .. Len(js) : StatusPage(j) \in Screen /\ ScreenSound(StatusPage(j), js)
<1>1. /\ FreshForm \in Screen /\ Away \in Screen
      /\ \A j \in Nat : StatusPage(j) \in Screen
  <2>1. <<>> \in Seq(Nat) OBVIOUS
  <2> QED BY <2>1 DEF FreshForm, Away, StatusPage, Screen, Unpicked, Unseen, FORMATS, Inventories, Archives
<1>2. \A js \in Seq(Job) : ScreenSound(FreshForm, js) /\ ScreenSound(Away, js)
  BY DEF ScreenSound, FreshForm, Away, Unpicked
<1>3. ASSUME NEW js \in Seq(Job), NEW j \in 1 .. Len(js)
      PROVE  ScreenSound(StatusPage(j), js)
  BY DEF ScreenSound, StatusPage, FreshForm, Away, Unpicked, Unseen, TERMINAL_STATUSES
<1>4. \A js \in Seq(Job) : Len(js) \in Nat BY LenProperties
<1> QED BY <1>1, <1>2, <1>3, <1>4

(* The pages of a list of n things, taken by some limit.                   *)
LEMMA PageLength ==
  ASSUME NEW limit \in Nat, NEW n \in Int
  PROVE  Min({limit, Max({0, n})}) = IF n <= 0 THEN 0 ELSE IF limit <= n THEN limit ELSE n
<1>1. Max({0, n}) = IF 0 >= n THEN 0 ELSE n BY MaxOfTwo
<1>2. Max({0, n}) \in Nat BY <1>1
<1> DEFINE m == Max({0, n})
<1> HIDE DEF m
<1>3. Min({limit, m}) = IF limit <= m THEN limit ELSE m BY <1>2, MinOfTwo DEF m
<1>4. Min({limit, Max({0, n})}) = IF limit <= m THEN limit ELSE m BY <1>3 DEF m
<1> QED BY <1>1, <1>2, <1>4 DEF m

LEMMA FirstPage ==
  ASSUME jobs \in Seq(Job), NEW limit \in Nat
  PROVE  Range(FindByDealer(1, limit)) \subseteq 1 .. Len(jobs)
<1> DEFINE n == Len(jobs)
           skip == (1 - 1) * limit
           m == Min({limit, Max({0, n - skip})})
<1>1. n \in Nat BY LenProperties
<1>2. skip = 0 OBVIOUS
<1>3. FindByDealer(1, limit) = [i \in 1 .. m |-> n + 1 - skip - i] BY DEF FindByDealer
<1> HIDE DEF n, skip
<1>4. m = IF n - skip <= 0 THEN 0 ELSE IF limit <= n - skip THEN limit ELSE n - skip
  BY <1>1, <1>2, PageLength
<1> HIDE DEF m
<1>5. \A i \in 1 .. m : n + 1 - skip - i \in 1 .. n BY <1>1, <1>2, <1>4
<1>6. Range(FindByDealer(1, limit)) \subseteq 1 .. n BY <1>3, <1>5 DEF Range
<1> QED BY <1>6 DEF n

(* The dealer's job under way is a job of the dealer's, and so are those   *)
(* of the history.                                                         *)
LEMMA ActiveIsAJob ==
  ASSUME jobs \in Seq(Job), ActiveJob # 0
  PROVE  ActiveJob \in 1 .. Len(jobs)
<1>1. DOMAIN jobs = 1 .. Len(jobs) /\ Len(jobs) \in Nat BY LenProperties
<1>2. Active # {} /\ ActiveJob = Max(Active) BY DEF ActiveJob
<1>3. Active \subseteq 1 .. Len(jobs) BY <1>1 DEF Active
<1>4. Max(Active) \in Active
  <2>1. Active \in SUBSET Nat /\ \A x \in Active : x <= Len(jobs) BY <1>1, <1>3
  <2> QED BY <1>1, <1>2, <2>1, GreatestNatural
<1> QED BY <1>2, <1>3, <1>4

LEMMA HistoryHasJobs ==
  ASSUME jobs \in Seq(Job)
  PROVE  Range(History) \subseteq 1 .. Len(jobs)
<1>1. Range(FindByDealer(1, HistorySize)) \subseteq 1 .. Len(jobs)
  BY UploadPagesAssumption, FirstPage
<1> QED BY <1>1 DEF History

(* Whole pages and one that is not: as many as the rows need.              *)
LEMMA PagesCover ==
  ASSUME NEW S \in Nat \ {0}, NEW n \in Nat \ {0}
  PROVE  /\ TotalPages(n, S) \in Nat \ {0}
         /\ n <= TotalPages(n, S) * S /\ (TotalPages(n, S) - 1) * S < n
<1> DEFINE a == n + S - 1
           q == a \div S
           r == a % S
<1>1. a \in Nat /\ a >= S OBVIOUS
<1> HIDE DEF a
<1>2. q \in Int /\ r \in Int /\ a = S * q + r /\ 0 <= r /\ r < S BY <1>1
<1> HIDE DEF q, r
<1>3. q >= 1
  <2> SUFFICES ASSUME q <= 0 PROVE FALSE BY <1>2
  <2>1. S * q <= 0 BY <1>2
  <2> QED BY <1>1, <1>2, <2>1
<1>4. S * q = q * S /\ (q - 1) * S = q * S - S BY <1>2
<1>5. n <= q * S /\ (q - 1) * S < n
  <2>1. q * S \in Int BY <1>2
  <2> QED BY <1>2, <1>4, <2>1 DEF a
<1>6. TotalPages(n, S) = q BY DEF TotalPages, q, a
<1> QED BY <1>2, <1>3, <1>5, <1>6

(* A page of the rows goes on where the pages before it ended.             *)
LEMMA NextPage ==
  ASSUME NEW S \in Nat \ {0}, NEW j, NEW n \in Nat, jobs[j].invalid = n, NEW p \in Nat, p * S < n
  PROVE  Counted(p * S) \o RejectionsPage(j, p + 1, S) = Counted(IF (p + 1) * S <= n THEN (p + 1) * S ELSE n)
<1> DEFINE x == p * S
           y == (p + 1) * S
           l == Min({S, Max({0, n - x})})
           m == IF y <= n THEN y ELSE n
<1>1. x \in Nat /\ y = x + S OBVIOUS
<1>2. (p + 1) - 1 = p OBVIOUS
<1>3. RejectionsPage(j, p + 1, S) = [i \in 1 .. l |-> x + i] BY <1>2 DEF RejectionsPage
<1> HIDE DEF x, y
<1>4. l = IF n - x <= 0 THEN 0 ELSE IF S <= n - x THEN S ELSE n - x BY <1>1, PageLength
<1> HIDE DEF l
<1>5. x < n BY DEF x
<1>6. l \in Nat /\ m \in Nat /\ m = x + l BY <1>1, <1>4, <1>5
<1> HIDE DEF m
<1>7. Counted(x) \in Seq(Nat) /\ Len(Counted(x)) = x /\ \A i \in 1 .. x : Counted(x)[i] = i
  BY <1>1 DEF Counted
<1>8. /\ [i \in 1 .. l |-> x + i] \in Seq(Nat) /\ Len([i \in 1 .. l |-> x + i]) = l
      /\ \A i \in 1 .. l : [k \in 1 .. l |-> x + k][i] = x + i
  BY <1>1, <1>6
<1>9. Counted(m) \in Seq(Nat) /\ Len(Counted(m)) = m /\ \A i \in 1 .. m : Counted(m)[i] = i
  BY <1>6 DEF Counted
<1> DEFINE rest == [i \in 1 .. l |-> x + i]
           sofar == Counted(x)
           all == sofar \o rest
<1>10. rest \in Seq(Nat) /\ Len(rest) = l /\ \A i \in 1 .. l : rest[i] = x + i BY <1>8
<1> HIDE DEF rest
<1>a. sofar \in Seq(Nat) /\ Len(sofar) = x /\ \A i \in 1 .. x : sofar[i] = i BY <1>7
<1> HIDE DEF sofar
<1>11. /\ all \in Seq(Nat) /\ Len(all) = x + l
       /\ \A i \in 1 .. x + l : all[i] = IF i <= x THEN sofar[i] ELSE rest[i - x]
  BY <1>1, <1>6, <1>a, <1>10, ConcatProperties
<1> HIDE DEF all
<1>12. \A i \in 1 .. m : all[i] = Counted(m)[i]
  <2> SUFFICES ASSUME NEW i \in 1 .. m PROVE all[i] = i BY <1>9
  <2>1. CASE i <= x
    <3>1. i \in 1 .. x BY <1>1, <1>6, <2>1
    <3>2. i \in 1 .. x + l BY <1>6
    <3> QED BY <1>a, <1>11, <2>1, <3>1, <3>2
  <2>2. CASE i > x
    <3>1. i - x \in 1 .. l /\ x + (i - x) = i BY <1>1, <1>6, <2>2
    <3>2. i \in 1 .. x + l /\ ~(i <= x) BY <1>1, <1>6, <2>2
    <3> QED BY <1>10, <1>11, <3>1, <3>2
  <2> QED BY <1>1, <1>6, <2>1, <2>2
<1>13. all = Counted(m) BY <1>6, <1>9, <1>11, <1>12, SeqEqual
<1> QED BY <1>3, <1>13 DEF all, m, x, y, rest, sofar

(* The exported file has the rows of all pages, one after the other: the   *)
(* pages define one function, and it has all the rows at the last of them. *)
LEMMA ExportHasAll ==
  ASSUME NEW j, NEW n \in Nat \ {0}, jobs[j].invalid = n
  PROVE  LET pages == TotalPages(jobs[j].invalid, ExportSize)
             rows == CHOOSE f : f = [k \in 0 .. pages |->
                       IF k = 0 THEN <<>> ELSE f[k - 1] \o RejectionsPage(j, k, ExportSize)]
         IN  rows[pages] = Counted(n)
<1> DEFINE S == ExportSize
           pages == TotalPages(n, S)
           upto(k) == IF k * S <= n THEN k * S ELSE n
           goal == [k \in 0 .. pages |-> Counted(upto(k))]
           filled(f) == [k \in 0 .. pages |-> IF k = 0 THEN <<>> ELSE f[k - 1] \o RejectionsPage(j, k, S)]
<1>1. S \in Nat \ {0} BY UploadPagesAssumption
<1> HIDE DEF S
<1>2. pages \in Nat \ {0} /\ n <= pages * S /\ (pages - 1) * S < n BY <1>1, PagesCover
<1> HIDE DEF pages
<1>3. goal[0] = <<>>
  <2>1. upto(0) = 0 BY <1>1
  <2>2. 0 \in 0 .. pages BY <1>2
  <2>3. Counted(0) = <<>> BY DEF Counted
  <2> QED BY <2>1, <2>2, <2>3
<1>4. ASSUME NEW k \in 0 .. pages, k # 0
      PROVE  goal[k] = goal[k - 1] \o RejectionsPage(j, k, S)
  <2> DEFINE p == k - 1
  <2>1. p \in Nat /\ p \in 0 .. pages /\ k = p + 1 /\ p <= pages - 1 BY <1>2, <1>4
  <2> HIDE DEF p
  <2>2. p * S <= (pages - 1) * S
    <3>1. PICK d \in Nat : pages - 1 = p + d
      <4>1. pages - 1 - p \in Nat /\ pages - 1 = p + (pages - 1 - p) BY <1>2, <2>1
      <4> QED BY <4>1
    <3>2. (p + d) * S = p * S + d * S /\ d * S \in Nat /\ p * S \in Nat BY <1>1, <2>1
    <3> QED BY <3>1, <3>2
  <2>3. p * S \in Nat /\ (pages - 1) * S \in Int BY <1>1, <1>2, <2>1
  <2>4. p * S < n BY <1>2, <2>2, <2>3
  <2>5. upto(p) = p * S BY <2>3, <2>4
  <2>6. Counted(p * S) \o RejectionsPage(j, p + 1, S) = Counted(upto(p + 1))
    BY <1>1, <2>1, <2>4, NextPage
  <2>7. goal[p] = Counted(upto(p)) /\ goal[p + 1] = Counted(upto(p + 1)) BY <1>4, <2>1
  <2>8. goal[k] = goal[p] \o RejectionsPage(j, k, S) BY <2>1, <2>5, <2>6, <2>7
  <2> QED BY <2>8 DEF p
<1>5. goal = filled(goal) BY <1>3, <1>4
<1> HIDE DEF goal
<1> DEFINE rows == CHOOSE f : f = filled(f)
<1>6. rows = filled(rows) BY <1>5
<1> HIDE DEF rows
<1>7. rows[0] = <<>> /\ \A k \in 0 .. pages : k # 0 => rows[k] = rows[k - 1] \o RejectionsPage(j, k, S)
  <2>1. 0 \in 0 .. pages BY <1>2
  <2> QED BY <1>6, <2>1
<1>8. \A k \in 0 .. pages : rows[k] = goal[k]
  <2> DEFINE T == {k \in 0 .. pages : rows[k] # goal[k]}
  <2> SUFFICES ASSUME T # {} PROVE FALSE OBVIOUS
  <2>1. T \in SUBSET Nat BY <1>2
  <2>2. PICK k \in T : \A i \in T : k <= i BY <2>1, LeastNatural
  <2>3. k # 0 BY <1>3, <1>7, <2>2
  <2>4. k \in 0 .. pages /\ k - 1 \in 0 .. pages BY <1>2, <2>2, <2>3
  <2>5. k - 1 \notin T BY <2>2, <2>4
  <2>6. rows[k - 1] = goal[k - 1] BY <2>4, <2>5
  <2>7. rows[k] = goal[k] BY <1>4, <1>7, <2>3, <2>4, <2>6
  <2> QED BY <2>2, <2>7
<1>9. rows[pages] = Counted(n)
  <2>1. pages \in 0 .. pages BY <1>2
  <2>2. upto(pages) = n
    <3>1. pages * S \in Nat BY <1>1, <1>2
    <3> QED BY <1>2, <3>1
  <2>3. goal[pages] = Counted(n) BY <2>1, <2>2 DEF goal
  <2> QED BY <1>8, <2>1, <2>3
<1> QED BY <1>9 DEF rows, pages, S

(* A step that changes one job, and not the screen or who uploads what.    *)
LEMMA JobStep ==
  ASSUME UploadsInv, NEW j \in 1 .. Len(jobs), NEW new \in Job, GoesOn(jobs[j], new),
         jobs' = [jobs EXCEPT ![j] = new], UNCHANGED <<uploads, screen>>,
         new.status = "PENDING" => jobs[j].status = "PENDING" /\ new.published = jobs[j].published
                                     /\ new.lost = jobs[j].lost
  PROVE  UploadsInv'
<1>1. /\ jobs' \in Seq(Job) /\ Len(jobs') = Len(jobs) /\ Evolve(jobs, jobs')
      /\ \A i \in 1 .. Len(jobs) : jobs'[i] = IF i = j THEN new ELSE jobs[i]
  <2>1. jobs \in Seq(Job) BY DEF UploadsInv
  <2>2. jobs' = With(jobs, j, new) BY DEF With
  <2> DEFINE js == With(jobs, j, new)
  <2>3. /\ js \in Seq(Job) /\ Len(js) = Len(jobs) /\ Evolve(jobs, js)
        /\ \A i \in 1 .. Len(jobs) : js[i] = IF i = j THEN new ELSE jobs[i]
    BY <2>1, JobChanges
  <2> HIDE DEF js
  <2>4. jobs' = js BY <2>2 DEF js
  <2> QED BY <2>3, <2>4
<1>2. \A u \in uploads : UploadSound(u, jobs') BY <1>1, UploadsStay DEF UploadsInv
<1>3. ScreenSound(screen, jobs') BY <1>1, ScreenStays DEF UploadsInv
<1>4. DOMAIN jobs = 1 .. Len(jobs) /\ DOMAIN jobs' = 1 .. Len(jobs) BY <1>1, LenProperties DEF UploadsInv
<1>5. AbandonedIsDecided' BY <1>1, <1>4 DEF UploadsInv, AbandonedIsDecided
<1> QED BY <1>1, <1>2, <1>3, <1>5 DEF UploadsInv

(* A step of the page alone.                                               *)
LEMMA ScreenStep ==
  ASSUME UploadsInv, screen' \in Screen, ScreenSound(screen', jobs), UNCHANGED <<jobs, uploads>>
  PROVE  UploadsInv'
BY DEF UploadsInv, AbandonedIsDecided

LEMMA JobTyped ==
  ASSUME UploadsInv, NEW j \in DOMAIN jobs
  PROVE  /\ j \in 1 .. Len(jobs) /\ jobs[j] \in Job
         /\ jobs[j] = [status |-> jobs[j].status, missing |-> jobs[j].missing,
                       published |-> jobs[j].published, counted |-> jobs[j].counted,
                       invalid |-> jobs[j].invalid, quiet |-> jobs[j].quiet, lost |-> jobs[j].lost]
<1>1. j \in 1 .. Len(jobs) BY LenProperties DEF UploadsInv
<1>2. jobs[j] \in Job BY <1>1, ElementOfSeq DEF UploadsInv
<1> QED BY <1>1, <1>2 DEF Job

(* The worker and the clock.                                               *)
LEMMA WorkerKeeps ==
  ASSUME UploadsInv, NEW j \in DOMAIN jobs, StartJob(j) \/ CountRows(j) \/ SettleJob(j) \/ GoQuiet(j)
  PROVE  UploadsInv'
<1>1. j \in 1 .. Len(jobs) /\ jobs[j] \in Job BY JobTyped
<1>2. CASE StartJob(j)
  <2> DEFINE new == [jobs[j] EXCEPT !.status = "PROCESSING", !.quiet = FALSE]
  <2>1. new \in Job /\ new.status = "PROCESSING" BY <1>1 DEF Job
  <2>2. GoesOn(jobs[j], new) BY <1>2 DEF GoesOn, StartJob, TERMINAL_STATUSES
  <2>3. jobs' = [jobs EXCEPT ![j] = new] BY <1>2 DEF StartJob
  <2>4. UNCHANGED <<uploads, screen>> BY <1>2 DEF StartJob
  <2> HIDE DEF new
  <2> QED BY <1>1, <2>1, <2>2, <2>3, <2>4, JobStep
<1>3. CASE CountRows(j)
  <2>1. PICK invalid1 \in InvalidCounts :
          jobs' = [jobs EXCEPT ![j].counted = TRUE, ![j].invalid = invalid1, ![j].quiet = FALSE]
    BY <1>3 DEF CountRows
  <2> DEFINE new == [jobs[j] EXCEPT !.counted = TRUE, !.invalid = invalid1, !.quiet = FALSE]
  <2>2. new \in Job /\ new.status = "PROCESSING" BY <1>1, <1>3 DEF Job, CountRows
  <2>3. GoesOn(jobs[j], new) BY <1>3 DEF GoesOn, CountRows, TERMINAL_STATUSES
  <2>4. jobs' = [jobs EXCEPT ![j] = new] BY <2>1
  <2>5. UNCHANGED <<uploads, screen>> BY <1>3 DEF CountRows
  <2> HIDE DEF new
  <2> QED BY <1>1, <2>2, <2>3, <2>4, <2>5, JobStep
<1>4. CASE SettleJob(j)
  <2>1. PICK s1 \in {"COMPLETED", "PARTIAL", "FAILED"} :
          /\ jobs' = [jobs EXCEPT ![j].status = s1, ![j].quiet = FALSE]
          /\ s1 = "FAILED" \/ jobs[j].status = "PROCESSING"
    BY <1>4 DEF SettleJob
  <2> DEFINE new == [jobs[j] EXCEPT !.status = s1, !.quiet = FALSE]
  <2>2. new \in Job /\ new.status = s1 /\ new.invalid = jobs[j].invalid
    BY <1>1, <2>1 DEF Job, TERMINAL_STATUSES
  <2>3. jobs' = [jobs EXCEPT ![j] = new] BY <2>1
  <2>4. UNCHANGED <<uploads, screen>> BY <1>4 DEF SettleJob
  <2> HIDE DEF new
  <2>5. GoesOn(jobs[j], new) BY <2>1, <2>2 DEF GoesOn, TERMINAL_STATUSES
  <2> QED BY <1>1, <2>1, <2>2, <2>3, <2>4, <2>5, JobStep
<1>5. CASE GoQuiet(j)
  <2> DEFINE new == [jobs[j] EXCEPT !.quiet = TRUE]
  <2>1. /\ new \in Job /\ new.status = jobs[j].status /\ new.published = jobs[j].published
        /\ new.lost = jobs[j].lost /\ new.invalid = jobs[j].invalid
    BY <1>1 DEF Job
  <2>2. jobs' = [jobs EXCEPT ![j] = new] BY <1>5 DEF GoQuiet
  <2>3. UNCHANGED <<uploads, screen>> BY <1>5 DEF GoQuiet
  <2> HIDE DEF new
  <2>4. GoesOn(jobs[j], new) BY <2>1 DEF GoesOn
  <2> QED BY <1>1, <2>1, <2>2, <2>3, <2>4, JobStep
<1> QED BY <1>2, <1>3, <1>4, <1>5

(* What the dealer does on the page, but for leaving it.                   *)
LEMMA FormKeeps ==
  ASSUME UploadsInv,
         CheckActive \/ (\E format \in FORMATS : ChooseFormat(format))
         \/ (\E file \in Inventories : PickInventory(file)) \/ (\E file \in Archives : PickZip(file))
  PROVE  UploadsInv'
<1>1. screen \in Screen /\ ScreenSound(screen, jobs) BY DEF UploadsInv
<1>2. CASE CheckActive
  <2>1. CASE screen' = [screen EXCEPT !.checking = FALSE]
    <3>1. screen' \in Screen BY <1>1, <2>1 DEF Screen
    <3>2. ScreenSound(screen', jobs) BY <1>1, <2>1 DEF Screen, ScreenSound, ShownIsFinal
    <3> QED BY <1>2, <3>1, <3>2, ScreenStep DEF CheckActive
  <2>2. CASE ActiveJob # 0 /\ screen' = StatusPage(ActiveJob)
    <3>1. jobs \in Seq(Job) BY DEF UploadsInv
    <3>2. ActiveJob \in 1 .. Len(jobs) BY <2>2, <3>1, ActiveIsAJob
    <3>3. StatusPage(ActiveJob) \in Screen /\ ScreenSound(StatusPage(ActiveJob), jobs)
      BY <3>1, <3>2, FreshScreens
    <3> QED BY <1>2, <2>2, <3>3, ScreenStep DEF CheckActive
  <2> QED BY <1>2, <2>1, <2>2 DEF CheckActive
<1>3. ASSUME NEW format1 \in FORMATS, ChooseFormat(format1) PROVE UploadsInv'
  <2>1. screen' = [screen EXCEPT !.format = format1, !.inventory = Unpicked] /\ screen.at = "form"
        /\ UNCHANGED <<jobs, uploads>>
    BY <1>3 DEF ChooseFormat, FormOpen
  <2>2. screen' \in Screen BY <1>1, <2>1 DEF Screen
  <2>3. ScreenSound(screen', jobs) BY <1>1, <2>1 DEF Screen, ScreenSound, ShownIsFinal
  <2> QED BY <2>1, <2>2, <2>3, ScreenStep
<1>4. ASSUME NEW file1 \in Inventories, PickInventory(file1) PROVE UploadsInv'
  <2>1. PICK picked1 \in Inventories \cup {Unpicked} :
          /\ picked1 # Unpicked => ValidateInventory(picked1, screen.format)
          /\ screen' = [screen EXCEPT !.inventory = picked1] /\ screen.at = "form"
          /\ UNCHANGED <<jobs, uploads>>
    <3>1. CASE ValidateInventory(file1, screen.format)
      BY <1>4, <3>1, Zenon DEF PickInventory, FormOpen
    <3>2. CASE ~ValidateInventory(file1, screen.format)
      BY <1>4, <3>2, Zenon DEF PickInventory, FormOpen
    <3> QED BY <3>1, <3>2
  <2>2. screen' \in Screen BY <1>1, <2>1 DEF Screen
  <2>3. ScreenSound(screen', jobs) BY <1>1, <2>1 DEF Screen, ScreenSound, ShownIsFinal
  <2> QED BY <2>1, <2>2, <2>3, ScreenStep
<1>5. ASSUME NEW file1 \in Archives, PickZip(file1) PROVE UploadsInv'
  <2>1. PICK picked1 \in Archives \cup {Unpicked} :
          /\ picked1 # Unpicked => ValidateZip(picked1)
          /\ screen' = [screen EXCEPT !.zip = picked1] /\ screen.at = "form"
          /\ UNCHANGED <<jobs, uploads>>
    <3>1. CASE ValidateZip(file1)
      BY <1>5, <3>1, Zenon DEF PickZip, FormOpen
    <3>2. CASE ~ValidateZip(file1)
      BY <1>5, <3>2, Zenon DEF PickZip, FormOpen
    <3> QED BY <3>1, <3>2
  <2>2. screen' \in Screen BY <1>1, <2>1 DEF Screen
  <2>3. ScreenSound(screen', jobs) BY <1>1, <2>1 DEF Screen, ScreenSound, ShownIsFinal
  <2> QED BY <2>1, <2>2, <2>3, ScreenStep
<1> QED BY <1>2, <1>3, <1>4, <1>5

(* The status page: polls, the report and the export.                      *)
LEMMA StatusPageKeeps ==
  ASSUME UploadsInv, Poll \/ LoadReport \/ DownloadCsv
  PROVE  UploadsInv'
<1>1. screen \in Screen /\ ScreenSound(screen, jobs) /\ jobs \in Seq(Job) BY DEF UploadsInv
<1>2. screen.at = "status" BY DEF Poll, LoadReport, DownloadCsv, Settled
<1> DEFINE j == screen.job
<1>3. j \in 1 .. Len(jobs) /\ j \in DOMAIN jobs BY <1>1, <1>2, LenProperties DEF ScreenSound
<1>4. jobs[j] \in Job BY <1>3, JobTyped
<1>5. jobs[j].invalid \in Nat BY <1>4, UploadPagesAssumption DEF Job
<1>6. CASE Poll
  <2> DEFINE status1 == jobs[j].status
             more == status1 \notin TERMINAL_STATUSES
  <2>1. more \in BOOLEAN OBVIOUS
  <2>2. status1 \in TERMINAL_STATUSES \cup {"PENDING", "PROCESSING"} BY <1>4 DEF Job
  <2>3. /\ screen' = [screen EXCEPT !.shown = [status |-> status1, invalid |-> jobs[j].invalid],
                                    !.polling = more]
        /\ screen.polling /\ UNCHANGED <<jobs, uploads>>
    BY <1>6 DEF Poll, JobStatus
  <2>4. more <=> status1 \notin TERMINAL_STATUSES OBVIOUS
  <2> HIDE DEF more
  <2>5. screen' \in Screen BY <1>1, <1>5, <2>1, <2>2, <2>3 DEF Screen
  <2>6. /\ screen'.job = j /\ screen'.at = "status" /\ screen'.inventory = screen.inventory
        /\ screen'.format = screen.format /\ screen'.refused = screen.refused
        /\ screen'.report = screen.report /\ screen'.export = screen.export /\ screen'.polling = more
        /\ screen'.shown.status = status1 /\ screen'.shown.invalid = jobs[j].invalid
    BY <1>1, <1>2, <2>3 DEF Screen
  <2>7. ScreenSound(screen', jobs) BY <1>1, <1>2, <1>3, <2>3, <2>4, <2>6 DEF ScreenSound, ShownIsFinal
  <2> QED BY <2>3, <2>5, <2>7, ScreenStep
<1>7. ASSUME Settled
      PROVE  ~screen.polling /\ screen.shown.invalid = jobs[j].invalid /\ jobs[j].invalid \in Nat \ {0}
  <2>1. ~screen.polling /\ ShownIsFinal(screen, jobs) BY <1>1, <1>2, <1>7 DEF Settled, ScreenSound
  <2> QED BY <1>5, <1>7, <2>1 DEF ShownIsFinal, Settled
<1>8. CASE LoadReport
  <2>1. jobs[j].invalid \in Nat \ {0} /\ ~screen.polling BY <1>7, <1>8 DEF LoadReport
  <2>2. Report(RejectionsPage(j, 1, ExportSize)) = "rows"
    <3> DEFINE S == ExportSize
               n == jobs[j].invalid
               l == Min({S, Max({0, n - 0})})
    <3>1. S \in Nat \ {0} BY UploadPagesAssumption
    <3>2. (1 - 1) * S = 0 BY <3>1
    <3>3. RejectionsPage(j, 1, S) = [i \in 1 .. l |-> 0 + i] BY <3>2 DEF RejectionsPage
    <3>4. n \in Nat \ {0} /\ n - 0 = n BY <2>1
    <3> HIDE DEF n, S
    <3>5. l = IF n - 0 <= 0 THEN 0 ELSE IF S <= n - 0 THEN S ELSE n - 0 BY <3>1, <3>4, PageLength
    <3>6. l \in Nat \ {0} BY <3>1, <3>4, <3>5
    <3> HIDE DEF l
    <3>7. 1 \in DOMAIN RejectionsPage(j, 1, S) BY <3>3, <3>6
    <3>a. DOMAIN <<>> = {} OBVIOUS
    <3>8. RejectionsPage(j, 1, S) # <<>> BY <3>7, <3>a, Zenon
    <3> QED BY <3>8 DEF Report, S
  <2>3. PICK r1 \in {"rows", "error"} :
          screen' = [screen EXCEPT !.report = r1] /\ UNCHANGED <<jobs, uploads>>
    BY <1>8, <2>2 DEF LoadReport
  <2>4. screen' \in Screen BY <1>1, <2>3 DEF Screen
  <2>5. ScreenSound(screen', jobs) BY <1>1, <2>3 DEF Screen, ScreenSound, ShownIsFinal
  <2> QED BY <2>3, <2>4, <2>5, ScreenStep
<1>9. CASE DownloadCsv
  <2>1. jobs[j].invalid \in Nat \ {0} /\ ~screen.polling BY <1>7, <1>9 DEF DownloadCsv
  <2> DEFINE n == jobs[j].invalid
             pages == TotalPages(n, ExportSize)
             rows == CHOOSE f : f = [k \in 0 .. pages |->
                       IF k = 0 THEN <<>> ELSE f[k - 1] \o RejectionsPage(j, k, ExportSize)]
  <2>2. screen' = [screen EXCEPT !.export = rows[pages]] /\ UNCHANGED <<jobs, uploads>>
    BY <1>9 DEF DownloadCsv
  <2>3. rows[pages] = Counted(n) BY <2>1, ExportHasAll
  <2> HIDE DEF rows
  <2>4. screen' = [screen EXCEPT !.export = Counted(n)] BY <2>2, <2>3
  <2>5. Counted(n) \in Seq(Nat) BY <2>1 DEF Counted
  <2>6. screen' \in Screen BY <1>1, <2>4, <2>5 DEF Screen
  <2>7. ScreenSound(screen', jobs) BY <1>1, <1>2, <2>1, <2>4 DEF Screen, ScreenSound, ShownIsFinal
  <2> QED BY <2>2, <2>6, <2>7, ScreenStep
<1> QED BY <1>6, <1>8, <1>9

(* The dealer leaves the page, closes the tab or submits.                  *)
LEMMA DealerMovesKeep ==
  ASSUME UploadsInv, Leave \/ CloseTab \/ SubmitUpload
  PROVE  UploadsInv'
<1>1. jobs \in Seq(Job) /\ uploads \subseteq Upload /\ screen \in Screen BY DEF UploadsInv
<1>2. CASE Leave
  <2>1. UNCHANGED jobs BY <1>2 DEF Leave
  <2>2. screen' \in Screen /\ ScreenSound(screen', jobs)
    <3>1. screen' \in {Away, FreshForm} \cup {StatusPage(j) : j \in Range(History)} BY <1>2 DEF Leave
    <3>2. CASE screen' \in {Away, FreshForm} BY <1>1, <3>2, FreshScreens
    <3>3. CASE screen' \in {StatusPage(j) : j \in Range(History)}
      <4>1. PICK j \in Range(History) : screen' = StatusPage(j) BY <3>3
      <4>2. j \in 1 .. Len(jobs) BY <1>1, HistoryHasJobs
      <4> QED BY <1>1, <4>1, <4>2, FreshScreens
    <3> QED BY <3>1, <3>2, <3>3
  <2> DEFINE off(u) == [u EXCEPT !.onForm = FALSE]
  <2>3. ASSUME NEW u \in uploads
        PROVE  off(u) \in Upload /\ off(u).job = u.job /\ UploadSound(off(u), jobs)
    <3>1. off(u) \in Upload /\ off(u).job = u.job /\ off(u).pc = u.pc /\ off(u).format = u.format
          /\ off(u).file = u.file /\ off(u).zip = u.zip
      BY <1>1 DEF Upload
    <3>2. UploadSound(u, jobs) BY DEF UploadsInv
    <3> HIDE DEF off
    <3>3. CASE u.pc = "presign"
      <4>1. u.job = 0 /\ ValidateInventoryFile(u.format, u.file) /\ (u.zip # Unpicked => ValidateZip(u.zip))
        BY <3>2, <3>3 DEF UploadSound
      <4>2. ValidateInventoryFile(off(u).format, off(u).file) BY <3>1, <4>1 DEF ValidateInventoryFile
      <4>3. off(u).zip # Unpicked => ValidateZip(off(u).zip) BY <3>1, <4>1 DEF ValidateZip
      <4> QED BY <3>1, <3>3, <4>1, <4>2, <4>3 DEF UploadSound
    <3>4. CASE u.pc # "presign" BY <3>1, <3>2, <3>4 DEF UploadSound
    <3> QED BY <3>1, <3>3, <3>4
  <2>4. uploads' = {off(u) : u \in uploads} BY <1>2 DEF Leave
  <2> HIDE DEF off
  <2>5. uploads' \subseteq Upload /\ \A u \in uploads' : UploadSound(u, jobs) BY <2>3, <2>4
  <2>6. AbandonedIsDecided'
    <3>1. \A j \in DOMAIN jobs : (\E u \in uploads : u.job = j) => \E u \in uploads' : u.job = j
      BY <2>3, <2>4
    <3> QED BY <2>1, <3>1 DEF AbandonedIsDecided, UploadsInv
  <2> QED BY <1>1, <2>1, <2>2, <2>5, <2>6 DEF UploadsInv
<1>3. CASE CloseTab
  <2> DEFINE given(j) == jobs[j].lost \/ \E u \in uploads : u.job = j
             new(j) == [jobs[j] EXCEPT !.lost = given(j)]
  <2>1. jobs' = [j \in DOMAIN jobs |-> new(j)] BY <1>3, Zenon DEF CloseTab
  <2>2. DOMAIN jobs = 1 .. Len(jobs) /\ Len(jobs) \in Nat BY <1>1, LenProperties
  <2>3. ASSUME NEW j \in DOMAIN jobs
        PROVE  /\ new(j) \in Job /\ new(j).status = jobs[j].status /\ new(j).invalid = jobs[j].invalid
               /\ new(j).published = jobs[j].published
               /\ new(j).lost <=> given(j)
    <3>1. jobs[j] \in Job BY JobTyped
    <3>2. given(j) \in BOOLEAN
      <4>1. jobs[j].lost \in BOOLEAN BY <3>1 DEF Job
      <4> QED BY <4>1, Zenon
    <3> HIDE DEF given
    <3> QED BY <3>1, <3>2 DEF Job
  <2> HIDE DEF new, given
  <2>4. jobs' \in Seq(Job) /\ Len(jobs') = Len(jobs) /\ \A j \in 1 .. Len(jobs) : jobs'[j] = new(j)
    <3>1. \A j \in 1 .. Len(jobs) : new(j) \in Job BY <2>2, <2>3
    <3>2. jobs' = [j \in 1 .. Len(jobs) |-> new(j)] BY <2>1, <2>2
    <3> DEFINE n == Len(jobs)
    <3>3. n \in Nat BY <2>2
    <3> HIDE DEF n
    <3>4. [j \in 1 .. n |-> new(j)] \in Seq(Job) BY <3>1, <3>3 DEF n
    <3>5. Len([j \in 1 .. n |-> new(j)]) = n BY <3>3
    <3> QED BY <3>2, <3>4, <3>5 DEF n
  <2>5. screen' = FreshForm /\ uploads' = {} BY <1>3 DEF CloseTab
  <2>6. AbandonedIsDecided'
    <3> SUFFICES ASSUME NEW j \in DOMAIN jobs', jobs'[j].status = "PENDING", ~jobs'[j].published
                 PROVE  jobs'[j].lost
      BY DEF AbandonedIsDecided
    <3>1. j \in DOMAIN jobs /\ jobs'[j] = new(j) BY <2>1
    <3>2. jobs[j].status = "PENDING" /\ ~jobs[j].published BY <2>3, <3>1
    <3>3. given(j) BY <3>1, <3>2 DEF UploadsInv, AbandonedIsDecided, given
    <3> QED BY <2>3, <3>1, <3>3
  <2> QED BY <2>4, <2>5, <2>6, FreshScreens DEF UploadsInv
<1>4. CASE SubmitUpload
  <2> DEFINE new == [pc |-> "presign", job |-> 0, format |-> screen.format, zip |-> screen.zip,
                     file |-> screen.inventory, onForm |-> TRUE]
  <2>1. screen.inventory # Unpicked /\ UNCHANGED <<jobs, screen>> BY <1>4 DEF SubmitUpload
  <2>2. new \in Upload BY <1>1, <2>1 DEF Screen, Upload
  <2>3. UploadSound(new, jobs)
    <3>1. /\ ValidateInventory(screen.inventory, screen.format)
          /\ screen.zip # Unpicked => ValidateZip(screen.zip)
      BY <2>1 DEF UploadsInv, ScreenSound
    <3> QED BY <3>1 DEF UploadSound, ValidateInventory, ValidateInventoryFile
  <2>4. uploads' = uploads \cup {new} BY <1>4 DEF SubmitUpload
  <2> HIDE DEF new
  <2>5. AbandonedIsDecided' BY <2>1, <2>4 DEF UploadsInv, AbandonedIsDecided
  <2> QED BY <1>1, <2>1, <2>2, <2>3, <2>4, <2>5 DEF UploadsInv
<1> QED BY <1>2, <1>3, <1>4

(* The job of an upload changes, and its upload with it or for the last    *)
(* time: unless it is decided the upload goes on.                          *)
LEMMA UploadStep ==
  ASSUME UploadsInv, NEW u \in uploads, NEW new \in Job, u.pc # "presign",
         GoesOn(jobs[u.job], new), jobs' = [jobs EXCEPT ![u.job] = new],
         \/ uploads' = uploads \ {u}
            /\ (new.status = "PENDING" /\ ~new.published => new.lost)
         \/ \E v \in Upload : /\ v.pc # "presign" /\ v.job = u.job /\ uploads' = (uploads \ {u}) \cup {v},
         screen' = screen \/ screen' = StatusPage(u.job)
  PROVE  UploadsInv'
<1>1. jobs \in Seq(Job) /\ uploads \subseteq Upload /\ screen \in Screen BY DEF UploadsInv
<1> DEFINE j == u.job
<1>2. j \in 1 .. Len(jobs) BY DEF UploadsInv, UploadSound
<1>a. /\ GoesOn(jobs[j], new) /\ jobs' = [jobs EXCEPT ![j] = new]
      /\ screen' = screen \/ screen' = StatusPage(j)
  OBVIOUS
<1>b. u.job = j /\ \A v \in Upload : v.job = u.job => v.job = j OBVIOUS
<1> HIDE DEF j
<1>3. /\ jobs' \in Seq(Job) /\ Len(jobs') = Len(jobs) /\ Evolve(jobs, jobs')
      /\ \A i \in 1 .. Len(jobs) : jobs'[i] = IF i = j THEN new ELSE jobs[i]
  <2>1. jobs \in Seq(Job) /\ GoesOn(jobs[j], new) /\ jobs' = With(jobs, j, new) BY <1>1, <1>a DEF With
  <2> DEFINE js == With(jobs, j, new)
  <2>3. /\ js \in Seq(Job) /\ Len(js) = Len(jobs) /\ Evolve(jobs, js)
        /\ \A i \in 1 .. Len(jobs) : js[i] = IF i = j THEN new ELSE jobs[i]
    BY <1>2, <2>1, JobChanges
  <2> HIDE DEF js
  <2>4. jobs' = js BY <2>1 DEF js
  <2> QED BY <2>3, <2>4
<1>4. \A v \in uploads : UploadSound(v, jobs') BY <1>1, <1>3, UploadsStay DEF UploadsInv
<1>5. screen' \in Screen /\ ScreenSound(screen', jobs')
  <2>1. ScreenSound(screen, jobs') BY <1>1, <1>3, ScreenStays DEF UploadsInv
  <2>2. StatusPage(j) \in Screen /\ ScreenSound(StatusPage(j), jobs') BY <1>2, <1>3, FreshScreens
  <2> QED BY <1>1, <1>a, <2>1, <2>2
<1>6. DOMAIN jobs = 1 .. Len(jobs) /\ DOMAIN jobs' = 1 .. Len(jobs) BY <1>1, <1>3, LenProperties
<1>7. \A i \in 1 .. Len(jobs) : i # j /\ jobs'[i].status = "PENDING" /\ ~jobs'[i].published =>
        jobs'[i].lost \/ \E v \in uploads \ {u} : v.job = i
  <2> SUFFICES ASSUME NEW i \in 1 .. Len(jobs), i # j, jobs'[i].status = "PENDING", ~jobs'[i].published,
                      ~jobs'[i].lost
               PROVE  \E v \in uploads \ {u} : v.job = i
    OBVIOUS
  <2>1. jobs'[i] = jobs[i] /\ i \in DOMAIN jobs BY <1>3, <1>6
  <2>2. PICK v \in uploads : v.job = i BY <2>1 DEF UploadsInv, AbandonedIsDecided
  <2> QED BY <1>b, <2>2
<1>8. CASE uploads' = uploads \ {u} /\ (new.status = "PENDING" /\ ~new.published => new.lost)
  <2>1. AbandonedIsDecided' BY <1>2, <1>3, <1>6, <1>7, <1>8 DEF AbandonedIsDecided
  <2> QED BY <1>1, <1>3, <1>4, <1>5, <1>8, <2>1 DEF UploadsInv
<1>9. ASSUME NEW v \in Upload, v.pc # "presign", v.job = u.job, uploads' = (uploads \ {u}) \cup {v}
      PROVE  UploadsInv'
  <2>1. UploadSound(v, jobs') BY <1>2, <1>3, <1>9, <1>b DEF UploadSound
  <2>2. AbandonedIsDecided' BY <1>2, <1>3, <1>6, <1>7, <1>9, <1>b DEF AbandonedIsDecided
  <2> QED BY <1>1, <1>3, <1>4, <1>5, <1>9, <2>1, <2>2 DEF UploadsInv
<1> QED BY <1>8, <1>9

(* What the service makes of completeUpload.                               *)
LEMMA CompletedJob ==
  ASSUME NEW a \in Job
  PROVE  /\ Completed(a) \in Job /\ GoesOn(a, Completed(a))
         /\ ~(Completed(a).status = "PENDING" /\ ~Completed(a).published)
BY DEF Job, Completed, GoesOn, TERMINAL_STATUSES

(* The requests of an upload.                                              *)
LEMMA RequestsKeep ==
  ASSUME UploadsInv, NEW u \in uploads,
         Presign(u) \/ Complete(u) \/ \E file \in {"csv", "zip"} : PutDirect(u, file)
  PROVE  UploadsInv'
<1>1. jobs \in Seq(Job) /\ uploads \subseteq Upload /\ screen \in Screen /\ u \in Upload BY DEF UploadsInv
<1>2. UploadSound(u, jobs) BY DEF UploadsInv
<1>a. CASE Presign(u) /\ HasZip(u) /\ ~ValidateZipFile(u.zip)
  <2>1. /\ u.job = 0 /\ ValidateInventoryFile(u.format, u.file) /\ ValidateZip(u.zip)
        /\ u.zip \in Archives
    BY <1>1, <1>2, <1>a DEF UploadSound, Presign, HasZip, Upload
  <2>2. End(u) /\ screen' = [screen EXCEPT !.refused = u.zip] /\ UNCHANGED jobs
    BY <1>a, <2>1, Zenon DEF Presign
  <2>3. u.zip = EmptyArchive BY <1>a, <2>1 DEF ValidateZip, ValidateZipFile, Archives, Sizes, EmptyArchive
  <2>4. screen' \in Screen BY <1>1, <2>1, <2>2 DEF Screen
  <2>5. ScreenSound(screen', jobs)
    BY <1>1, <2>2, <2>3 DEF UploadsInv, Screen, ScreenSound, ShownIsFinal
  <2>6. uploads' = uploads \ {u} BY <2>2 DEF End
  <2>7. AbandonedIsDecided'
    <3>1. DOMAIN jobs = 1 .. Len(jobs) BY <1>1, LenProperties
    <3>2. \A j \in DOMAIN jobs : j # u.job BY <2>1, <3>1
    <3> QED BY <2>2, <2>6, <3>2 DEF UploadsInv, AbandonedIsDecided
  <2> QED BY <1>1, <2>2, <2>4, <2>5, <2>6, <2>7 DEF UploadsInv
<1>3. CASE Presign(u) /\ ~(HasZip(u) /\ ~ValidateZipFile(u.zip))
  <2>1. u.job = 0 /\ ValidateInventoryFile(u.format, u.file) BY <1>2, <1>3 DEF UploadSound, Presign
  <2>2. PICK lost1 \in BOOLEAN :
          /\ jobs' = Append(jobs,
               [status |-> "PENDING", missing |-> IF HasZip(u) THEN {"csv", "zip"} ELSE {"csv"},
                published |-> FALSE, counted |-> FALSE, invalid |-> 0, quiet |-> FALSE, lost |-> lost1])
          /\ IF lost1 THEN End(u)
             ELSE uploads' = (uploads \ {u}) \cup {[u EXCEPT !.pc = "csv", !.job = Len(jobs')]}
          /\ UNCHANGED screen
    BY <1>3, <2>1, Zenon DEF Presign
  <2> DEFINE new == [status |-> "PENDING", missing |-> IF HasZip(u) THEN {"csv", "zip"} ELSE {"csv"},
                     published |-> FALSE, counted |-> FALSE, invalid |-> 0, quiet |-> FALSE, lost |-> lost1]
             n == Len(jobs)
  <2>3. new \in Job BY UploadPagesAssumption DEF Job
  <2>4. new.lost = lost1 OBVIOUS
  <2>5. jobs' = Append(jobs, new) BY <2>2
  <2> HIDE DEF new
  <2>6. n \in Nat BY <1>1, LenProperties
  <2>7. /\ jobs' \in Seq(Job) /\ Len(jobs') = n + 1 /\ jobs'[n + 1] = new
        /\ \A i \in 1 .. n : jobs'[i] = jobs[i]
    BY <1>1, <2>3, <2>5, AppendProperties
  <2>8. DOMAIN jobs = 1 .. n /\ DOMAIN jobs' = 1 .. n + 1 BY <1>1, <2>7, LenProperties
  <2>9. Evolve(jobs, jobs') BY <2>6, <2>7 DEF Evolve, GoesOn
  <2> HIDE DEF n
  <2>10. \A v \in uploads : UploadSound(v, jobs') BY <1>1, <2>7, <2>9, UploadsStay DEF UploadsInv
  <2>11. screen' \in Screen /\ ScreenSound(screen', jobs') BY <1>1, <2>2, <2>7, <2>9, ScreenStays DEF UploadsInv
  <2>12. \A i \in 1 .. n : jobs'[i].status = "PENDING" /\ ~jobs'[i].published =>
           jobs'[i].lost \/ \E v \in uploads \ {u} : v.job = i
    BY <2>1, <2>7, <2>8 DEF UploadsInv, AbandonedIsDecided
  <2>13. \A i \in 1 .. n + 1 : i \in 1 .. n \/ i = n + 1 BY <2>6
  <2>14. CASE lost1
    <3>1. uploads' = uploads \ {u} BY <2>2, <2>14 DEF End
    <3>2. AbandonedIsDecided' BY <2>4, <2>7, <2>8, <2>12, <2>13, <2>14, <3>1 DEF AbandonedIsDecided
    <3> QED BY <1>1, <2>7, <2>10, <2>11, <3>1, <3>2 DEF UploadsInv
  <2>15. CASE ~lost1
    <3> DEFINE v == [u EXCEPT !.pc = "csv", !.job = n + 1]
    <3>1. v \in Upload /\ v.pc = "csv" /\ v.job = n + 1 
      <4>1. u \in Upload /\ n + 1 \in Nat BY <1>1, <2>6
      <4> DEFINE m == n + 1
      <4>2. m \in Nat BY <4>1
      <4> HIDE DEF m
      <4>3. [u EXCEPT !.pc = "csv", !.job = m] \in Upload BY <4>1, <4>2 DEF Upload
      <4>4. [u EXCEPT !.pc = "csv", !.job = m].pc = "csv" /\ [u EXCEPT !.pc = "csv", !.job = m].job = m
        BY <4>1 DEF Upload
      <4> QED BY <4>3, <4>4 DEF m
    <3>2. uploads' = (uploads \ {u}) \cup {v} BY <2>2, <2>7, <2>15
    <3> HIDE DEF v
    <3>3. UploadSound(v, jobs') BY <2>6, <2>7, <3>1 DEF UploadSound
    <3>4. AbandonedIsDecided' BY <2>7, <2>8, <2>12, <2>13, <3>1, <3>2 DEF AbandonedIsDecided
    <3> QED BY <1>1, <2>7, <2>10, <2>11, <3>1, <3>2, <3>3, <3>4 DEF UploadsInv
  <2> QED BY <2>14, <2>15
<1>4. ASSUME u.pc # "presign" PROVE u.job \in 1 .. Len(jobs) /\ jobs[u.job] \in Job /\ u.job \in DOMAIN jobs
  <2>1. u.job \in 1 .. Len(jobs) BY <1>2, <1>4 DEF UploadSound
  <2> QED BY <1>1, <2>1, ElementOfSeq, LenProperties
<1>5. ASSUME NEW file1 \in {"csv", "zip"}, PutDirect(u, file1) PROVE UploadsInv'
  <2>1. PICK ok1, stored1 \in BOOLEAN :
          /\ jobs' = [jobs EXCEPT ![u.job].missing = IF stored1 THEN @ \ {file1} ELSE @]
          /\ Proceed(u, IF ok1 THEN PutNext(u, file1) ELSE "salvage")
    BY <1>5 DEF PutDirect
  <2>2. u.pc # "presign" /\ screen' = screen BY <1>5 DEF PutDirect
  <2>3. jobs[u.job] \in Job BY <1>4, <2>2
  <2>4. PICK m1 \in SUBSET {"csv", "zip"} : jobs' = [jobs EXCEPT ![u.job].missing = m1]
    <3>1. jobs[u.job].missing \in SUBSET {"csv", "zip"} BY <2>3 DEF Job
    <3>2. CASE stored1
      BY <1>4, <2>1, <2>2, <3>1, <3>2
    <3>3. CASE ~stored1
      BY <1>4, <2>1, <2>2, <3>1, <3>3
    <3> QED BY <3>2, <3>3
  <2> DEFINE new == [jobs[u.job] EXCEPT !.missing = m1]
  <2>5. new \in Job /\ new.status = jobs[u.job].status /\ new.invalid = jobs[u.job].invalid
    BY <2>3 DEF Job
  <2>6. jobs' = [jobs EXCEPT ![u.job] = new] BY <2>4
  <2> HIDE DEF new
  <2>7. GoesOn(jobs[u.job], new) BY <2>5 DEF GoesOn
  <2>8. PICK pc1 \in {"zip", "complete", "salvage"} : uploads' = (uploads \ {u}) \cup {[u EXCEPT !.pc = pc1]}
    <3>1. (IF ok1 THEN PutNext(u, file1) ELSE "salvage") \in {"zip", "complete", "salvage"}
      BY DEF PutNext
    <3> QED BY <2>1, <3>1 DEF Proceed
  <2> DEFINE v == [u EXCEPT !.pc = pc1]
  <2>9. v \in Upload /\ v.pc # "presign" /\ v.job = u.job BY <1>1, <2>8 DEF Upload
  <2>10. uploads' = (uploads \ {u}) \cup {v} BY <2>8
  <2> HIDE DEF v
  <2> QED BY <2>2, <2>5, <2>6, <2>7, <2>9, <2>10, UploadStep
<1>6. CASE Complete(u)
  <2>1. u.pc # "presign" /\ uploads' = uploads \ {u} BY <1>6 DEF Complete, End
  <2> DEFINE a == jobs[u.job]
             lost1 == [a EXCEPT !.lost = TRUE]
  <2>2. a \in Job BY <1>4, <2>1
  <2>3. lost1 \in Job /\ lost1.lost /\ GoesOn(a, lost1) BY <2>2 DEF Job, GoesOn
  <2>4. /\ Completed(a) \in Job /\ GoesOn(a, Completed(a))
        /\ ~(Completed(a).status = "PENDING" /\ ~Completed(a).published)
    BY <2>2, CompletedJob
  <2>5. CASE /\ jobs' = [jobs EXCEPT ![u.job] = Completed(@)]
             /\ screen' = screen \/ screen' = StatusPage(u.job)
    <3>1. jobs' = [jobs EXCEPT ![u.job] = Completed(a)] BY <1>4, <2>1, <2>5
    <3> QED BY <2>1, <2>4, <2>5, <3>1, UploadStep
  <2>6. CASE jobs' = [jobs EXCEPT ![u.job] = [@ EXCEPT !.lost = TRUE]] /\ screen' = screen
    <3>1. jobs' = [jobs EXCEPT ![u.job] = lost1] BY <1>4, <2>1, <2>6
    <3> HIDE DEF lost1
    <3> QED BY <2>1, <2>3, <2>6, <3>1, UploadStep
  <2>7. \/ /\ jobs' = [jobs EXCEPT ![u.job] = Completed(@)]
           /\ screen' = screen \/ screen' = StatusPage(u.job)
        \/ jobs' = [jobs EXCEPT ![u.job] = [@ EXCEPT !.lost = TRUE]] /\ screen' = screen
    BY <1>6, Zenon DEF Complete
  <2> QED BY <2>5, <2>6, <2>7
<1> QED BY <1>3, <1>5, <1>6, <1>a

LEMMA UploadsKept == UploadsInv /\ [UploadPagesNext]_uploadPageVars => UploadsInv'
<1> SUFFICES ASSUME UploadsInv, [UploadPagesNext]_uploadPageVars PROVE UploadsInv'
  OBVIOUS
<1>1. CASE UNCHANGED uploadPageVars
  BY <1>1 DEF UploadsInv, AbandonedIsDecided, uploadPageVars
<1>2. CASE UploadPagesNext
  <2>1. CASE CheckActive \/ (\E format \in FORMATS : ChooseFormat(format))
             \/ (\E file \in Inventories : PickInventory(file)) \/ (\E file \in Archives : PickZip(file))
    BY <2>1, FormKeeps
  <2>2. CASE Poll \/ LoadReport \/ DownloadCsv
    BY <2>2, StatusPageKeeps
  <2>3. CASE Leave \/ CloseTab \/ SubmitUpload
    BY <2>3, DealerMovesKeep
  <2>4. ASSUME NEW u \in uploads,
               Presign(u) \/ Complete(u) \/ \E file \in {"csv", "zip"} : PutDirect(u, file)
        PROVE  UploadsInv'
    BY <2>4, RequestsKeep
  <2>5. ASSUME NEW j \in DOMAIN jobs, StartJob(j) \/ CountRows(j) \/ SettleJob(j) \/ GoQuiet(j)
        PROVE  UploadsInv'
    BY <2>5, WorkerKeeps
  <2> QED BY <1>2, <2>1, <2>2, <2>3, <2>4, <2>5, Zenon DEF UploadPagesNext
<1> QED BY <1>1, <1>2

LEMMA UploadsBegin == UploadPagesInit => UploadsInv
<1> SUFFICES ASSUME UploadPagesInit PROVE UploadsInv
  OBVIOUS
<1>1. jobs = <<>> /\ uploads = {} /\ screen = FreshForm BY DEF UploadPagesInit
<1>2. <<>> \in Seq(Job) /\ DOMAIN <<>> = {} OBVIOUS
<1> QED BY <1>1, <1>2, FreshScreens DEF UploadsInv, AbandonedIsDecided

LEMMA UploadsAreTyped == UploadsInv => UploadPagesTypeOK
<1> SUFFICES ASSUME UploadsInv PROVE UploadPagesTypeOK
  OBVIOUS
<1>1. Len(jobs) \in Nat BY LenProperties DEF UploadsInv
<1>2. ASSUME NEW j \in DOMAIN jobs
      PROVE  /\ jobs[j].status \in TERMINAL_STATUSES \cup {"PENDING", "PROCESSING"}
             /\ jobs[j].missing \subseteq {"csv", "zip"} /\ jobs[j].invalid \in InvalidCounts
             /\ {jobs[j].published, jobs[j].counted, jobs[j].quiet, jobs[j].lost} \subseteq BOOLEAN
  <2>1. jobs[j] \in Job BY JobTyped
  <2> QED BY <2>1 DEF Job
<1>3. \A u \in uploads : u \in Upload /\ u.job \in 0 .. Len(jobs)
  BY <1>1 DEF UploadsInv, UploadSound
<1>4. screen.at \in {"form", "status", "away"} /\ screen.job \in 0 .. Len(jobs)
  BY <1>1 DEF UploadsInv, Screen, ScreenSound
<1> QED BY <1>2, <1>3, <1>4 DEF UploadPagesTypeOK, Upload

(* Jobs, uploads and the screen have their types, and refer to jobs there  *)
(* are (UploadPages.tla, UploadPagesTypeOK).                               *)
THEOREM UploadsTyped == UploadPagesInit /\ [][UploadPagesNext]_uploadPageVars => []UploadPagesTypeOK
<1> QED BY UploadsBegin, UploadsKept, UploadsAreTyped, PTL

(* A page that has stopped polling shows what its job ended with, the      *)
(* export has all the skipped rows once and in order, what the page lets   *)
(* pass the service takes, but for an empty archive, and no upload that    *)
(* failed looks under way                                                  *)
(* (UploadPages.tla, UploadsAreFollowed).                                  *)
THEOREM UploadsFollowed ==
  UploadPagesInit /\ [][UploadPagesNext]_uploadPageVars => []UploadsAreFollowed
<1>1. UploadsInv => UploadsAreFollowed
  <2> SUFFICES ASSUME UploadsInv PROVE UploadsAreFollowed
    OBVIOUS
  <2>1. StatusIsFinal BY DEF UploadsInv, ScreenSound, ShownIsFinal, StatusIsFinal
  <2>2. ExportIsComplete BY DEF UploadsInv, ScreenSound, ExportIsComplete, Counted
  <2>3. PageMirrorsService BY DEF UploadsInv, ScreenSound, PageMirrorsService, EmptyArchive
  <2> QED BY <2>1, <2>2, <2>3 DEF UploadsInv, UploadsAreFollowed
<1> QED BY <1>1, UploadsBegin, UploadsKept, PTL

----
(***************************************************************************)
(* The administrators' pages.                                              *)
(***************************************************************************)
Accounts == [status : AccountStatus, active : BOOLEAN]

UserRows == [id : UnderReview, status : AccountStatus, active : BOOLEAN]

BackendTyped ==
  backend \in [users : [UnderReview -> Accounts], jobs : [Batches -> BatchStatuses],
               log : SUBSET (AuditActions \X UnderReview)]

OpenedTyped ==
  /\ opened \in [at : DOMAIN KeysOf, key : {opened.key}, busy : UnderReview \cup {NobodyBusy}]
  /\ opened.key \in KeysOf[opened.at]

HookTyped == hook \in [of : {hook.of}, rows : {hook.rows}, loading : BOOLEAN, error : BOOLEAN]

CallsTyped ==
  calling \subseteq [op : Ops, id : UnderReview, step : {"sent", "done", "failed"}, mounted : BOOLEAN]

RestTyped ==
  /\ query.step \in {"none", "sent", "served"}
  /\ reported \subseteq UnderReview /\ changes \in 0 .. MaxConsoleChanges

(* A page of users has rows of users, and so has the answer on its way.    *)
UsersListed ==
  opened.at = "users" =>
    /\ hook.rows \subseteq UserRows
    /\ query.step = "served" => query.rows \subseteq UserRows

ConsoleTypes ==
  BackendTyped /\ OpenedTyped /\ HookTyped /\ CallsTyped /\ RestTyped /\ UsersListed

LEMMA ConsoleTypesHold == ConsoleTypes => ConsoleTypeOK
<1> SUFFICES ASSUME ConsoleTypes PROVE ConsoleTypeOK OBVIOUS
<1>1. /\ backend.users \in [UnderReview -> [status : AccountStatus, active : BOOLEAN]]
      /\ backend.jobs \in [Batches -> BatchStatuses] /\ backend.log \subseteq AuditActions \X UnderReview
  BY DEF ConsoleTypes, BackendTyped, Accounts
<1>2. opened.at \in DOMAIN KeysOf /\ opened.key \in KeysOf[opened.at]
      /\ opened.busy \in UnderReview \cup {NobodyBusy}
  BY DEF ConsoleTypes, OpenedTyped
<1>3. hook.loading \in BOOLEAN /\ hook.error \in BOOLEAN
  <2>1. HookTyped BY DEF ConsoleTypes
  <2> QED BY <2>1, Zenon DEF HookTyped
<1>4. {hook.loading, hook.error} \subseteq BOOLEAN BY <1>3, Zenon
<1>5. CallsTyped /\ RestTyped BY DEF ConsoleTypes
<1> QED BY <1>1, <1>2, <1>4, <1>5, Zenon DEF ConsoleTypeOK, CallsTyped, RestTyped

LEMMA KeysAre ==
  /\ DOMAIN KeysOf = {"users", "uploads", "reasons", "reports", "auditLogs", "dashboard"}
  /\ KeysOf["reports"] = {{1}, 1 .. 3}
BY DEF KeysOf

LEMMA FirstKeyIsAKey == \A at \in DOMAIN KeysOf : FirstKey(at) \in KeysOf[at]
<1> TAKE at \in DOMAIN KeysOf
<1>1. CASE at = "users" BY <1>1 DEF KeysOf, FirstKey
<1>2. CASE at = "uploads" BY <1>2 DEF KeysOf, FirstKey
<1>3. CASE at = "reasons" BY <1>3 DEF KeysOf, FirstKey
<1>4. CASE at = "reports" BY <1>4 DEF KeysOf, FirstKey
<1>5. CASE at = "auditLogs" BY <1>5 DEF KeysOf, FirstKey
<1>6. CASE at = "dashboard" BY <1>6 DEF KeysOf, FirstKey
<1> QED BY <1>1, <1>2, <1>3, <1>4, <1>5, <1>6, KeysAre

LEMMA UsersAreRows == \A key : BackendTyped => ListUsers(key) \subseteq UserRows
<1> TAKE key
<1> HAVE BackendTyped
<1>1. \A d \in UnderReview : backend.users[d] \in Accounts BY DEF BackendTyped
<1>2. \A d \in UnderReview : [id |-> d, status |-> backend.users[d].status,
                              active |-> backend.users[d].active] \in UserRows
  BY <1>1, Zenon DEF Accounts, UserRows
<1> QED BY <1>2 DEF ListUsers

LEMMA MutatedIsAccount ==
  ASSUME NEW op \in Ops, NEW account \in Accounts
  PROVE  Mutated(op, account) \in Accounts
<1>1. /\ [account EXCEPT !.status = "VERIFIED"] \in Accounts
      /\ [account EXCEPT !.status = "REJECTED"] \in Accounts
      /\ [account EXCEPT !.active = FALSE] \in Accounts
  BY DEF Accounts, AccountStatus
<1>2. CASE op = "approve" /\ account.status = "PENDING" BY <1>1, <1>2 DEF Mutated
<1>3. CASE op = "reject" /\ account.status = "PENDING" BY <1>1, <1>3 DEF Mutated
<1>4. CASE op = "deactivate" BY <1>1, <1>4 DEF Mutated
<1>5. CASE op # "deactivate" /\ account.status # "PENDING" BY <1>5 DEF Mutated
<1> QED BY <1>2, <1>3, <1>4, <1>5 DEF Ops

(* What the server has of one account, in the view that is open.           *)
OwnRows(d) == {own \in ListUsers(opened.key) : own.id = d}

(* Rows that rest on the screen, and the answer on its way, have what was  *)
(* reported as done.                                                       *)
OwnWorkKept ==
  opened.at = "users" => \A d \in reported :
    /\ AtRestNow => {own \in hook.rows : own.id = d} = OwnRows(d)
    /\ query.step = "served" => {own \in query.rows : own.id = d} = OwnRows(d)

ConsoleInv == ConsoleTypes /\ ShownAnswersKey /\ OwnWorkKept

LEMMA WorkKeptShows == OwnWorkKept => OwnWorkShows
BY DEF OwnWorkKept, OwnWorkShows, OwnRows

LEMMA ConsoleBegins == ConsoleInit => ConsoleInv
<1> SUFFICES ASSUME ConsoleInit PROVE ConsoleInv OBVIOUS
<1>1. BackendTyped
  <2>1. [status |-> "PENDING", active |-> TRUE] \in Accounts BY DEF Accounts, AccountStatus
  <2> QED BY <2>1 DEF ConsoleInit, BackendTyped, BatchStatuses
<1>2. OpenedTyped
  <2>1. "now" \in KeysOf["dashboard"] BY DEF KeysOf
  <2> QED BY <2>1, KeysAre DEF ConsoleInit, OpenedTyped
<1>3. HookTyped /\ hook.loading BY DEF ConsoleInit, HookTyped, Mounted
<1>4. CallsTyped /\ RestTyped BY ConsoleAssumption DEF ConsoleInit, CallsTyped, RestTyped, Asked
<1>5. opened.at = "dashboard" BY DEF ConsoleInit
<1>6. UsersListed BY <1>5 DEF UsersListed
<1>7. ShownAnswersKey BY <1>3 DEF ShownAnswersKey, AtRestNow
<1>8. OwnWorkKept BY <1>5 DEF OwnWorkKept
<1> QED BY <1>1, <1>2, <1>3, <1>4, <1>6, <1>7, <1>8 DEF ConsoleInv, ConsoleTypes

LEMMA RefetchAsks ==
  ASSUME HookTyped, Refetch
  PROVE  /\ HookTyped' /\ hook'.loading = TRUE /\ hook'.rows = hook.rows
         /\ query'.step = "sent"
BY DEF HookTyped, Refetch, Asked

LEMMA FailureIsAnError ==
  ASSUME HookTyped, hook' = [hook EXCEPT !.loading = FALSE, !.error = TRUE]
  PROVE  HookTyped' /\ hook'.error = TRUE /\ hook'.rows = hook.rows
BY DEF HookTyped

(* Nothing rests on the screen and no answer is on its way.                *)
LEMMA LoadingKeeps ==
  ASSUME HookTyped', hook'.loading \/ hook'.error, query'.step # "served",
         (opened.at = "users")' => hook'.rows \subseteq UserRows
  PROVE  UsersListed' /\ ShownAnswersKey' /\ OwnWorkKept'
BY DEF UsersListed, ShownAnswersKey, OwnWorkKept, AtRestNow

LEMMA QueryServedKeeps == ConsoleInv /\ QueryServed => ConsoleInv'
<1> SUFFICES ASSUME ConsoleInv, QueryServed PROVE ConsoleInv' OBVIOUS
<1>1. UNCHANGED <<backend, opened, hook, calling, reported, changes>> BY DEF QueryServed
<1>2. query'.step = "served" /\ query'.rows = RowsFor(opened.at, opened.key) BY DEF QueryServed
<1>3. /\ BackendTyped' /\ OpenedTyped' /\ HookTyped' /\ CallsTyped' /\ RestTyped'
      /\ BackendTyped
  BY <1>1, <1>2 DEF ConsoleInv, ConsoleTypes, BackendTyped, OpenedTyped, HookTyped, CallsTyped, RestTyped
<1>4. opened.at = "users" => query'.rows = ListUsers(opened.key) BY <1>2 DEF RowsFor
<1>5. UsersListed' BY <1>1, <1>3, <1>4, UsersAreRows DEF ConsoleInv, ConsoleTypes, UsersListed
<1>6. ShownAnswersKey' BY <1>1 DEF ConsoleInv, ShownAnswersKey, AtRestNow
<1>7. ListUsers(opened.key)' = ListUsers(opened.key) BY <1>1 DEF ListUsers
<1>8. OwnWorkKept' BY <1>1, <1>4, <1>7 DEF ConsoleInv, OwnWorkKept, OwnRows, AtRestNow
<1> QED BY <1>3, <1>5, <1>6, <1>8 DEF ConsoleInv, ConsoleTypes

LEMMA ArrivedKeeps == ConsoleInv /\ Arrived => ConsoleInv'
<1> SUFFICES ASSUME ConsoleInv, Arrived PROVE ConsoleInv' OBVIOUS
<1>1. UNCHANGED <<backend, opened, calling, reported, changes>> /\ query.step = "served" BY DEF Arrived
<1>2. /\ hook' = [of |-> <<opened.at, opened.key>>, rows |-> query.rows, loading |-> FALSE, error |-> FALSE]
      /\ query'.step = "none"
  BY DEF Arrived, NoQuery
<1>3. BackendTyped' /\ OpenedTyped' /\ HookTyped' /\ CallsTyped' /\ RestTyped'
  BY <1>1, <1>2 DEF ConsoleInv, ConsoleTypes, BackendTyped, OpenedTyped, HookTyped, CallsTyped, RestTyped
<1>4. hook'.rows = query.rows /\ hook'.of = <<opened.at, opened.key>> BY <1>2
<1>5. UsersListed' BY <1>1, <1>2, <1>4 DEF ConsoleInv, ConsoleTypes, UsersListed
<1>6. ShownAnswersKey' BY <1>1, <1>4 DEF ShownAnswersKey
<1>7. ListUsers(opened.key)' = ListUsers(opened.key) BY <1>1 DEF ListUsers
<1>8. OwnWorkKept' BY <1>1, <1>2, <1>4, <1>7 DEF ConsoleInv, OwnWorkKept, OwnRows
<1> QED BY <1>3, <1>5, <1>6, <1>8 DEF ConsoleInv, ConsoleTypes

LEMMA QueryFailedKeeps == ConsoleInv /\ QueryFailed => ConsoleInv'
<1> SUFFICES ASSUME ConsoleInv, QueryFailed PROVE ConsoleInv' OBVIOUS
<1>1. UNCHANGED <<backend, opened, calling, reported, changes>> /\ query'.step = "none"
  BY DEF QueryFailed, NoQuery
<1>2. HookTyped' /\ hook'.error = TRUE /\ hook'.rows = hook.rows
  BY FailureIsAnError DEF QueryFailed, ConsoleInv, ConsoleTypes
<1>3. BackendTyped' /\ OpenedTyped' /\ CallsTyped' /\ RestTyped'
  BY <1>1 DEF ConsoleInv, ConsoleTypes, BackendTyped, OpenedTyped, CallsTyped, RestTyped
<1>4. (opened.at = "users")' => hook'.rows \subseteq UserRows
  BY <1>1, <1>2 DEF ConsoleInv, ConsoleTypes, UsersListed
<1>5. UsersListed' /\ ShownAnswersKey' /\ OwnWorkKept' BY <1>1, <1>2, <1>4, LoadingKeeps
<1> QED BY <1>2, <1>3, <1>5 DEF ConsoleInv, ConsoleTypes

LEMMA ApplyKeyKeeps == ASSUME ConsoleInv, NEW key1, ApplyKey(key1) PROVE ConsoleInv'
<1>1. /\ UNCHANGED <<backend, calling, reported, changes>>
      /\ key1 \in KeysOf[opened.at] /\ opened' = [opened EXCEPT !.key = key1] /\ Refetch
  BY DEF ApplyKey
<1>2. /\ HookTyped' /\ hook'.loading = TRUE /\ hook'.rows = hook.rows
      /\ query'.step = "sent"
  BY <1>1, RefetchAsks DEF ConsoleInv, ConsoleTypes
<1>3. OpenedTyped' /\ opened'.at = opened.at BY <1>1 DEF ConsoleInv, ConsoleTypes, OpenedTyped
<1>4. BackendTyped' /\ CallsTyped' /\ RestTyped'
  BY <1>1, <1>2 DEF ConsoleInv, ConsoleTypes, BackendTyped, CallsTyped, RestTyped
<1>5. (opened.at = "users")' => hook'.rows \subseteq UserRows
  BY <1>2, <1>3 DEF ConsoleInv, ConsoleTypes, UsersListed
<1>6. UsersListed' /\ ShownAnswersKey' /\ OwnWorkKept' BY <1>2, <1>5, LoadingKeeps
<1> QED BY <1>2, <1>3, <1>4, <1>6 DEF ConsoleInv, ConsoleTypes

LEMMA OpenPageKeeps == ASSUME ConsoleInv, NEW at1 \in DOMAIN KeysOf, OpenPage(at1) PROVE ConsoleInv'
<1>1. /\ opened' = [at |-> at1, key |-> FirstKey(at1), busy |-> NobodyBusy]
      /\ hook' = Mounted /\ query' = Asked /\ reported' = {} /\ UNCHANGED <<backend, changes>>
      /\ calling' = {[c EXCEPT !.mounted = FALSE] : c \in calling}
  BY DEF OpenPage
<1>2. HookTyped' /\ hook'.loading = TRUE /\ hook'.rows = {} /\ query'.step = "sent"
  BY <1>1 DEF HookTyped, Mounted, Asked
<1>3. OpenedTyped' BY <1>1, FirstKeyIsAKey DEF OpenedTyped
<1>4. CallsTyped'
  <2> DEFINE Calls == [op : Ops, id : UnderReview, step : {"sent", "done", "failed"}, mounted : BOOLEAN]
  <2>1. \A c \in Calls : [c EXCEPT !.mounted = FALSE] \in Calls OBVIOUS
  <2>2. calling \subseteq Calls BY DEF ConsoleInv, ConsoleTypes, CallsTyped
  <2> HIDE DEF Calls
  <2>3. calling' = {[c EXCEPT !.mounted = FALSE] : c \in calling} BY <1>1
  <2>4. \A e \in calling' : \E c \in calling : e = [c EXCEPT !.mounted = FALSE] BY <2>3, Zenon
  <2>5. calling' \subseteq Calls BY <2>1, <2>2, <2>4
  <2> QED BY <2>5 DEF CallsTyped, Calls
<1>5. BackendTyped' /\ RestTyped' BY <1>1, <1>2 DEF ConsoleInv, ConsoleTypes, BackendTyped, RestTyped
<1>6. UsersListed' /\ ShownAnswersKey' /\ OwnWorkKept' BY <1>2, LoadingKeeps
<1> QED BY <1>2, <1>3, <1>4, <1>5, <1>6 DEF ConsoleInv, ConsoleTypes

(* Steps that leave the page as it is, its busy row apart.                 *)
LEMMA PageRests ==
  ASSUME ConsoleInv, UNCHANGED <<backend, hook, query>>, reported' = reported,
         opened'.at = opened.at, opened'.key = opened.key
  PROVE  BackendTyped' /\ HookTyped' /\ UsersListed' /\ ShownAnswersKey' /\ OwnWorkKept'
<1>1. BackendTyped' /\ HookTyped' /\ UsersListed'
  BY DEF ConsoleInv, ConsoleTypes, BackendTyped, HookTyped, UsersListed
<1>2. ShownAnswersKey' BY DEF ConsoleInv, ShownAnswersKey, AtRestNow
<1>3. ListUsers(opened.key)' = ListUsers(opened.key) BY DEF ListUsers
<1>4. OwnWorkKept' BY <1>3 DEF ConsoleInv, OwnWorkKept, OwnRows, AtRestNow
<1> QED BY <1>1, <1>2, <1>4

LEMMA RunMutationKeeps ==
  ASSUME ConsoleInv, NEW op1 \in Ops, NEW row1 \in hook.rows, RunMutation(op1, row1)
  PROVE  ConsoleInv'
<1>1. /\ opened.at = "users" /\ opened' = [opened EXCEPT !.busy = row1.id]
      /\ calling' = calling \cup {[op |-> op1, id |-> row1.id, step |-> "sent", mounted |-> TRUE]}
      /\ changes < MaxConsoleChanges /\ changes' = changes + 1
      /\ UNCHANGED <<backend, hook, query, reported>>
  BY DEF RunMutation
<1>2. row1.id \in UnderReview BY <1>1 DEF ConsoleInv, ConsoleTypes, UsersListed, UserRows
<1>3. OpenedTyped' /\ opened'.at = opened.at /\ opened'.key = opened.key
  BY <1>1, <1>2 DEF ConsoleInv, ConsoleTypes, OpenedTyped
<1>4. CallsTyped'
  <2>1. [op |-> op1, id |-> row1.id, step |-> "sent", mounted |-> TRUE]
          \in [op : Ops, id : UnderReview, step : {"sent", "done", "failed"}, mounted : BOOLEAN]
    BY <1>2
  <2> QED BY <1>1, <2>1 DEF ConsoleInv, ConsoleTypes, CallsTyped
<1>5. RestTyped' BY <1>1, ConsoleAssumption DEF ConsoleInv, ConsoleTypes, RestTyped
<1>6. BackendTyped' /\ HookTyped' /\ UsersListed' /\ ShownAnswersKey' /\ OwnWorkKept'
  BY <1>1, <1>3, PageRests
<1> QED BY <1>3, <1>4, <1>5, <1>6 DEF ConsoleInv, ConsoleTypes

LEMMA ReportDoneKeeps ==
  ASSUME ConsoleInv, NEW call1 \in calling, ReportDone(call1)
  PROVE  ConsoleInv'
<1> DEFINE done1 == call1.step = "done" /\ call1.mounted
<1>1. /\ calling' = calling \ {call1} /\ UNCHANGED <<backend, changes>>
      /\ opened' = IF call1.mounted THEN [opened EXCEPT !.busy = NobodyBusy] ELSE opened
      /\ IF done1 THEN Refetch ELSE UNCHANGED <<hook, query>>
      /\ reported' = IF done1 THEN reported \cup {call1.id} ELSE reported
  BY DEF ReportDone
<1> HIDE DEF done1
<1>2. call1.id \in UnderReview BY DEF ConsoleInv, ConsoleTypes, CallsTyped
<1>3. OpenedTyped' /\ opened'.at = opened.at /\ opened'.key = opened.key
  BY <1>1 DEF ConsoleInv, ConsoleTypes, OpenedTyped
<1>4. CallsTyped' BY <1>1 DEF ConsoleInv, ConsoleTypes, CallsTyped
<1>5. CASE done1
  <2>1. /\ HookTyped' /\ hook'.loading = TRUE /\ hook'.rows = hook.rows
        /\ query'.step = "sent"
    BY <1>1, <1>5, RefetchAsks DEF ConsoleInv, ConsoleTypes
  <2>2. BackendTyped' /\ RestTyped'
    BY <1>1, <1>2, <1>5, <2>1 DEF ConsoleInv, ConsoleTypes, BackendTyped, RestTyped
  <2>3. (opened.at = "users")' => hook'.rows \subseteq UserRows
    BY <1>3, <2>1 DEF ConsoleInv, ConsoleTypes, UsersListed
  <2>4. UsersListed' /\ ShownAnswersKey' /\ OwnWorkKept' BY <2>1, <2>3, LoadingKeeps
  <2> QED BY <1>3, <1>4, <2>1, <2>2, <2>4 DEF ConsoleInv, ConsoleTypes
<1>6. CASE ~done1
  <2>1. UNCHANGED <<hook, query>> /\ reported' = reported BY <1>1, <1>6
  <2>2. RestTyped' BY <1>1, <2>1 DEF ConsoleInv, ConsoleTypes, RestTyped
  <2>3. BackendTyped' /\ HookTyped' /\ UsersListed' /\ ShownAnswersKey' /\ OwnWorkKept'
    BY <1>1, <1>3, <2>1, PageRests
  <2> QED BY <1>3, <1>4, <2>2, <2>3 DEF ConsoleInv, ConsoleTypes
<1> QED BY <1>5, <1>6

(* An account changes: the others, and their rows, are as they were.       *)
LEMMA AccountChangesKeep ==
  ASSUME ConsoleInv, NEW d1 \in UnderReview, NEW changed1 \in Accounts,
         backend'.users = [backend.users EXCEPT ![d1] = changed1], BackendTyped',
         UNCHANGED <<hook, query>>, reported' = reported \ {d1}, opened' = opened
  PROVE  HookTyped' /\ OpenedTyped' /\ UsersListed' /\ ShownAnswersKey' /\ OwnWorkKept'
<1>1. HookTyped' /\ OpenedTyped' /\ UsersListed'
  BY DEF ConsoleInv, ConsoleTypes, HookTyped, OpenedTyped, UsersListed
<1>2. ShownAnswersKey' BY DEF ConsoleInv, ShownAnswersKey, AtRestNow
<1>3. \A d \in UnderReview \ {d1} : backend'.users[d] = backend.users[d]
  BY DEF ConsoleInv, ConsoleTypes, BackendTyped
<1>4. ASSUME NEW d \in UnderReview \ {d1} PROVE OwnRows(d)' = OwnRows(d)
  BY <1>3 DEF OwnRows, ListUsers
<1>5. reported' \subseteq UnderReview \ {d1} BY DEF ConsoleInv, ConsoleTypes, RestTyped
<1>6. ASSUME opened'.at = "users", NEW d \in reported'
      PROVE  /\ AtRestNow' => {own \in hook'.rows : own.id = d} = OwnRows(d)'
             /\ query'.step = "served" => {own \in query'.rows : own.id = d} = OwnRows(d)'
  <2>1. OwnRows(d)' = OwnRows(d) BY <1>4, <1>5
  <2>2. d \in reported /\ opened.at = "users" BY <1>6
  <2>3. AtRestNow' = AtRestNow BY DEF AtRestNow
  <2> QED BY <2>1, <2>2, <2>3 DEF ConsoleInv, OwnWorkKept
<1>7. OwnWorkKept' BY <1>6 DEF OwnWorkKept
<1> QED BY <1>1, <1>2, <1>7

LEMMA UserUpdated ==
  ASSUME ConsoleInv, NEW d1 \in UnderReview, NEW changed1 \in Accounts,
         NEW log1 \in SUBSET (AuditActions \X UnderReview),
         backend' = [backend EXCEPT !.users[d1] = changed1, !.log = log1]
  PROVE  BackendTyped' /\ backend'.users = [backend.users EXCEPT ![d1] = changed1]
BY DEF ConsoleInv, ConsoleTypes, BackendTyped

LEMMA AccountUpdated ==
  ASSUME ConsoleInv, NEW d1 \in UnderReview, NEW changed1 \in Accounts,
         backend' = [backend EXCEPT !.users[d1] = changed1]
  PROVE  BackendTyped' /\ backend'.users = [backend.users EXCEPT ![d1] = changed1]
BY DEF ConsoleInv, ConsoleTypes, BackendTyped

LEMMA PerformKeeps ==
  ASSUME ConsoleInv, NEW call1 \in calling, Perform(call1)
  PROVE  ConsoleInv'
<1> DEFINE account1 == backend.users[call1.id]
           changed1 == Mutated(call1.op, account1)
           Ended(step1) == (calling \ {call1}) \cup {[call1 EXCEPT !.step = step1]}
           log1 == backend.log \cup {<<AuditOf[call1.op], call1.id>>}
<1>1. call1.op \in Ops /\ call1.id \in UnderReview BY DEF ConsoleInv, ConsoleTypes, CallsTyped
<1>2. account1 \in Accounts BY <1>1 DEF ConsoleInv, ConsoleTypes, BackendTyped
<1>3. changed1 \in Accounts
  <2> HIDE DEF account1
  <2> QED BY <1>1, <1>2, MutatedIsAccount
<1>4. log1 \in SUBSET (AuditActions \X UnderReview)
  <2>1. AuditOf[call1.op] \in AuditActions BY <1>1 DEF AuditOf, Ops, AuditActions
  <2>2. <<AuditOf[call1.op], call1.id>> \in AuditActions \X UnderReview BY <1>1, <2>1
  <2>3. backend.log \subseteq AuditActions \X UnderReview BY DEF ConsoleInv, ConsoleTypes, BackendTyped
  <2> QED BY <2>2, <2>3
<1>5. /\ reported' = reported \ {call1.id} /\ UNCHANGED <<opened, hook, query, changes>>
      /\ \/ /\ backend' = [backend EXCEPT !.users[call1.id] = changed1, !.log = log1]
            /\ \E step1 \in {"done", "failed"} : calling' = Ended(step1)
         \/ /\ backend' = [backend EXCEPT !.users[call1.id] = changed1]
            /\ calling' = Ended("failed")
         \/ calling' = Ended("failed") /\ UNCHANGED backend
  <2>1. backend \in [users : {backend.users}, jobs : {backend.jobs}, log : {backend.log}]
    BY DEF ConsoleInv, ConsoleTypes, BackendTyped
  <2>2. [backend EXCEPT !.users[call1.id] = changed1, !.log = @ \cup {<<AuditOf[call1.op], call1.id>>}]
          = [backend EXCEPT !.users[call1.id] = changed1, !.log = log1]
    OBVIOUS
  <2> QED BY <2>2 DEF Perform
<1>6. \A step1 \in {"done", "failed"} : Ended(step1) \subseteq
         [op : Ops, id : UnderReview, step : {"sent", "done", "failed"}, mounted : BOOLEAN]
  BY DEF ConsoleInv, ConsoleTypes, CallsTyped
<1> HIDE DEF changed1, log1, Ended
<1>7. CallsTyped' BY <1>5, <1>6 DEF CallsTyped
<1>8. RestTyped' BY <1>5 DEF ConsoleInv, ConsoleTypes, RestTyped
<1>9. PICK changed2 \in Accounts : BackendTyped' /\ backend'.users = [backend.users EXCEPT ![call1.id] = changed2]
  <2>1. CASE backend' = [backend EXCEPT !.users[call1.id] = changed1, !.log = log1]
    BY <2>1, <1>1, <1>3, <1>4, UserUpdated
  <2>2. CASE backend' = [backend EXCEPT !.users[call1.id] = changed1]
    BY <2>2, <1>1, <1>3, AccountUpdated
  <2>3. CASE UNCHANGED backend
    <3>1. BackendTyped' BY <2>3 DEF ConsoleInv, ConsoleTypes, BackendTyped
    <3>2. backend'.users = [backend.users EXCEPT ![call1.id] = account1]
      BY <2>3, <1>1 DEF ConsoleInv, ConsoleTypes, BackendTyped
    <3> QED BY <3>1, <3>2, <1>2
  <2> QED BY <1>5, <2>1, <2>2, <2>3
<1>10. HookTyped' /\ OpenedTyped' /\ UsersListed' /\ ShownAnswersKey' /\ OwnWorkKept'
  BY <1>1, <1>5, <1>9, AccountChangesKeep
<1> QED BY <1>7, <1>8, <1>9, <1>10 DEF ConsoleInv, ConsoleTypes

LEMMA ChangedByOthersKeeps ==
  ASSUME ConsoleInv, NEW d1 \in UnderReview, ChangedByOthers(d1)
  PROVE  ConsoleInv'
<1>1. /\ reported' = reported \ {d1} /\ changes < MaxConsoleChanges /\ changes' = changes + 1
      /\ UNCHANGED <<opened, hook, query, calling>>
  BY DEF ChangedByOthers
<1>2. PICK changed1 \in Accounts : backend' = [backend EXCEPT !.users[d1] = changed1]
  BY DEF ChangedByOthers, Accounts
<1>3. BackendTyped' /\ backend'.users = [backend.users EXCEPT ![d1] = changed1] BY <1>2, AccountUpdated
<1>4. HookTyped' /\ OpenedTyped' /\ UsersListed' /\ ShownAnswersKey' /\ OwnWorkKept'
  BY <1>1, <1>3, AccountChangesKeep
<1>5. CallsTyped' /\ RestTyped'
  BY <1>1, ConsoleAssumption DEF ConsoleInv, ConsoleTypes, CallsTyped, RestTyped
<1> QED BY <1>3, <1>4, <1>5 DEF ConsoleInv, ConsoleTypes

LEMMA JobEndsKeeps ==
  ASSUME ConsoleInv, NEW batch1 \in Batches, JobEnds(batch1)
  PROVE  ConsoleInv'
<1>1. /\ changes < MaxConsoleChanges /\ changes' = changes + 1
      /\ UNCHANGED <<opened, hook, query, calling, reported>>
  BY DEF JobEnds
<1>2. PICK status1 \in BatchStatuses : backend' = [backend EXCEPT !.jobs[batch1] = status1]
  BY DEF JobEnds
<1>3. BackendTyped' /\ backend'.users = backend.users
  BY <1>2 DEF ConsoleInv, ConsoleTypes, BackendTyped
<1>4. CallsTyped' /\ RestTyped' /\ OpenedTyped' /\ HookTyped' /\ UsersListed'
  BY <1>1, ConsoleAssumption
  DEF ConsoleInv, ConsoleTypes, CallsTyped, RestTyped, OpenedTyped, HookTyped, UsersListed
<1>5. ShownAnswersKey' BY <1>1 DEF ConsoleInv, ShownAnswersKey, AtRestNow
<1>6. ListUsers(opened.key)' = ListUsers(opened.key) BY <1>1, <1>3 DEF ListUsers
<1>7. OwnWorkKept' BY <1>1, <1>6 DEF ConsoleInv, OwnWorkKept, OwnRows, AtRestNow
<1> QED BY <1>3, <1>4, <1>5, <1>7 DEF ConsoleInv, ConsoleTypes

LEMMA ConsoleKept == ConsoleInv /\ [ConsoleNext]_consoleVars => ConsoleInv'
<1> SUFFICES ASSUME ConsoleInv, [ConsoleNext]_consoleVars PROVE ConsoleInv' OBVIOUS
<1>1. CASE QueryServed \/ Arrived \/ QueryFailed
  BY <1>1, QueryServedKeeps, ArrivedKeeps, QueryFailedKeeps
<1>2. CASE SetTab \/ SetStatus \/ RunReport \/ OnSearch \/ ToggleExpanded
  BY <1>2, ApplyKeyKeeps DEF SetTab, SetStatus, RunReport, OnSearch, ToggleExpanded
<1>3. CASE \E at \in DOMAIN KeysOf : OpenPage(at) BY <1>3, OpenPageKeeps
<1>4. CASE \E op \in Ops, own \in hook.rows : RunMutation(op, own) BY <1>4, RunMutationKeeps
<1>5. CASE \E c \in calling : Perform(c) \/ ReportDone(c) BY <1>5, PerformKeeps, ReportDoneKeeps
<1>6. CASE \E d \in UnderReview : ChangedByOthers(d) BY <1>6, ChangedByOthersKeeps
<1>7. CASE \E batch \in Batches : JobEnds(batch) BY <1>7, JobEndsKeeps
<1>8. CASE UNCHANGED consoleVars
  <2>1. UNCHANGED <<backend, hook, query, opened, calling, reported, changes>> BY <1>8 DEF consoleVars
  <2>2. BackendTyped' /\ HookTyped' /\ UsersListed' /\ ShownAnswersKey' /\ OwnWorkKept'
    BY <2>1, PageRests
  <2>3. OpenedTyped' /\ CallsTyped' /\ RestTyped'
    BY <2>1 DEF ConsoleInv, ConsoleTypes, OpenedTyped, CallsTyped, RestTyped
  <2> QED BY <2>2, <2>3 DEF ConsoleInv, ConsoleTypes
<1> QED BY <1>1, <1>2, <1>3, <1>4, <1>5, <1>6, <1>7, <1>8 DEF ConsoleNext

(* Every variable of the administrators' pages has its type.               *)
THEOREM ConsoleTyped == ConsoleInit /\ [][ConsoleNext]_consoleVars => []ConsoleTypeOK
<1>1. ConsoleInv => ConsoleTypeOK BY ConsoleTypesHold DEF ConsoleInv
<1> QED BY <1>1, ConsoleBegins, ConsoleKept, PTL

----
(* Rounded to four places and multiplied back, a rate gives the number it  *)
(* was made of: of fewer than ten thousand jobs, not of any number of them.*)
LEMMA QuotientBounds ==
  \A a \in Nat, b \in Nat \ {0} :
    /\ a \div b \in Nat
    /\ (a \div b) * b <= a /\ a < (a \div b) * b + b
BY Z3

LEMMA RateRecovers ==
  ASSUME NEW part1 \in Nat, NEW whole1 \in Nat, part1 <= whole1, whole1 < 10000
  PROVE  Recovered(Rate(part1, whole1), whole1) = part1
<1>1. CASE whole1 = 0
  <2>1. Rate(part1, whole1) = 0 /\ part1 = 0 BY <1>1 DEF Rate
  <2> QED BY <2>1, <1>1 DEF Recovered
<1>2. CASE whole1 # 0
  <2> DEFINE num1 == 20000 * part1 + whole1
             den1 == 2 * whole1
             rate1 == num1 \div den1
             back1 == rate1 * whole1
  <2>1. num1 \in Nat /\ den1 \in Nat \ {0} BY <1>2
  <2>2. /\ rate1 \in Nat /\ rate1 * (2 * whole1) <= 20000 * part1 + whole1
        /\ 20000 * part1 + whole1 < rate1 * (2 * whole1) + 2 * whole1
    <3>1. /\ rate1 \in Nat
          /\ rate1 * den1 <= num1 /\ num1 < rate1 * den1 + den1
      <4> HIDE DEF num1, den1
      <4> QED BY <2>1, QuotientBounds
    <3> HIDE DEF rate1
    <3> QED BY <3>1
  <2>3. Rate(part1, whole1) = rate1 BY <1>2 DEF Rate
  <2> HIDE DEF rate1
  <2>4. rate1 * (2 * whole1) = 2 * back1 /\ 2 * rate1 * whole1 = 2 * back1 /\ back1 \in Nat BY <2>2
  <2> HIDE DEF back1
  <2>5. 20000 * part1 <= 2 * back1 + 10000 /\ 2 * back1 + 10000 < 20000 * part1 + 20000
    BY <2>2, <2>4
  <2>6. (2 * back1 + 10000) \div 20000 = part1 BY <2>4, <2>5
  <2> QED BY <2>3, <2>4, <2>6 DEF Recovered
<1> QED BY <1>1, <1>2

(* A report whose figures add up.                                          *)
AddsUp(report) ==
  LET slices == SlicesOf(report) IN
  /\ slices.failed = report.failed /\ slices.partial = report.partial
  /\ slices.failed + slices.partial + slices.successful = report.jobs
  /\ report.points[1] + (IF 2 \in DOMAIN report.points THEN report.points[2] + report.points[3] ELSE 0)
       = report.jobs

LEMMA DaysMakeTheWindow ==
  ASSUME NEW days \in {{1}, 1 .. 3}
  PROVE  LET points1 == DailyPoints(days) IN
           points1[1] + (IF 2 \in DOMAIN points1 THEN points1[2] + points1[3] ELSE 0)
             = Cardinality(InWindow(days))
<1> DEFINE Of(day) == {b \in Batches : CreatedOn(b) = day}
           points1 == DailyPoints(days)
<1>1. \A day : IsFiniteSet(Of(day)) BY ConsoleAssumption, FS_Subset
<1>2. \A b : CreatedOn(b) \in {1, 3} BY DEF CreatedOn
<1>3. CASE days = {1}
  <2>1. points1[1] = Cardinality(Of(1)) /\ DOMAIN points1 = {1} BY <1>3 DEF DailyPoints
  <2>2. InWindow(days) = Of(1) BY <1>3 DEF InWindow
  <2>3. Cardinality(Of(1)) \in Nat BY <1>1, FS_CardinalityType
  <2> HIDE DEF points1, Of
  <2>4. points1[1] + (IF 2 \in DOMAIN points1 THEN points1[2] + points1[3] ELSE 0)
          = Cardinality(InWindow(days))
    BY <2>1, <2>2, <2>3
  <2> QED BY <2>4 DEF points1
<1>4. CASE days = 1 .. 3
  <2>1. /\ points1[1] = Cardinality(Of(1)) /\ points1[2] = Cardinality(Of(2))
        /\ points1[3] = Cardinality(Of(3)) /\ 2 \in DOMAIN points1
    BY <1>4 DEF DailyPoints
  <2>2. Of(2) = {} BY <1>2
  <2>3. Cardinality(Of(2)) = 0 BY <2>2, FS_EmptySet
  <2>4. InWindow(days) = Of(1) \cup Of(3) /\ Of(1) \cap Of(3) = {} BY <1>2, <1>4 DEF InWindow
  <2>5. Cardinality(Of(1)) \in Nat /\ Cardinality(Of(3)) \in Nat BY <1>1, FS_CardinalityType
  <2> HIDE DEF points1, Of
  <2>6. Cardinality(Of(1) \cup Of(3))
          = Cardinality(Of(1)) + Cardinality(Of(3)) - Cardinality(Of(1) \cap Of(3))
    BY <1>1, FS_Union
  <2>7. Cardinality(Of(1) \cap Of(3)) = 0 BY <2>4, FS_EmptySet
  <2>8. Cardinality(InWindow(days)) = Cardinality(Of(1)) + Cardinality(Of(3)) BY <2>4, <2>5, <2>6, <2>7
  <2>9. points1[1] + (IF 2 \in DOMAIN points1 THEN points1[2] + points1[3] ELSE 0)
          = Cardinality(InWindow(days))
    BY <2>1, <2>3, <2>5, <2>8
  <2> QED BY <2>9 DEF points1
<1> QED BY <1>3, <1>4

LEMMA PartsOfTheWindow ==
  ASSUME NEW made1 \in SUBSET Batches
  PROVE  LET all1 == Cardinality(made1)
             failed1 == Cardinality(Having("FAILED", made1))
             partial1 == Cardinality(Having("PARTIAL", made1)) IN
           /\ all1 \in Nat /\ failed1 \in Nat /\ partial1 \in Nat
           /\ failed1 + partial1 <= all1 /\ all1 <= Cardinality(Batches)
<1> DEFINE F == Having("FAILED", made1)
           P == Having("PARTIAL", made1)
<1>1. IsFiniteSet(made1) /\ Cardinality(made1) <= Cardinality(Batches)
  BY ConsoleAssumption, FS_Subset
<1>2. F \subseteq made1 /\ P \subseteq made1 /\ F \cap P = {} /\ F \cup P \subseteq made1 BY DEF Having
<1> HIDE DEF F, P
<1>3. IsFiniteSet(F) /\ IsFiniteSet(P) /\ Cardinality(F \cup P) <= Cardinality(made1)
  BY <1>1, <1>2, FS_Subset
<1>4. Cardinality(F \cup P) = Cardinality(F) + Cardinality(P) - Cardinality(F \cap P)
  BY <1>3, FS_Union
<1>5. Cardinality(F \cap P) = 0 BY <1>2, FS_EmptySet
<1>6. Cardinality(F) \in Nat /\ Cardinality(P) \in Nat /\ Cardinality(made1) \in Nat
  BY <1>1, <1>3, FS_CardinalityType
<1>7. Cardinality(F) + Cardinality(P) <= Cardinality(made1) BY <1>3, <1>4, <1>5, <1>6
<1> QED BY <1>1, <1>6, <1>7 DEF F, P

LEMMA ReportsAddUp ==
  ASSUME Cardinality(Batches) < 10000, NEW days \in {{1}, 1 .. 3}, NEW report \in LoadReports(days)
  PROVE  AddsUp(report)
<1> DEFINE made1 == InWindow(days)
           all1 == Cardinality(made1)
           failed1 == Cardinality(Having("FAILED", made1))
           partial1 == Cardinality(Having("PARTIAL", made1))
           points1 == DailyPoints(days)
<1>1. report = [jobs |-> all1, errorRate |-> Rate(failed1, all1), partialRate |-> Rate(partial1, all1),
                failed |-> failed1, partial |-> partial1, points |-> points1]
  BY DEF LoadReports
<1>2. made1 \in SUBSET Batches BY DEF InWindow
<1>3. /\ all1 \in Nat /\ failed1 \in Nat /\ partial1 \in Nat
      /\ failed1 + partial1 <= all1 /\ all1 <= Cardinality(Batches)
  <2> HIDE DEF made1
  <2> QED BY <1>2, PartsOfTheWindow
<1>4. points1[1] + (IF 2 \in DOMAIN points1 THEN points1[2] + points1[3] ELSE 0) = all1
  BY DaysMakeTheWindow
<1>5. Cardinality(Batches) \in Nat BY ConsoleAssumption, FS_CardinalityType
<1> HIDE DEF all1, failed1, partial1, points1
<1>6. all1 < 10000 /\ failed1 <= all1 /\ partial1 <= all1 BY <1>3, <1>5
<1>7. Recovered(Rate(failed1, all1), all1) = failed1 /\ Recovered(Rate(partial1, all1), all1) = partial1
  BY <1>3, <1>6, RateRecovers
<1>8. /\ report.jobs = all1 /\ report.failed = failed1 /\ report.partial = partial1
      /\ report.points = points1
      /\ Recovered(report.errorRate, report.jobs) = failed1
      /\ Recovered(report.partialRate, report.jobs) = partial1
  BY <1>1, <1>7
<1>9. /\ SlicesOf(report).failed = failed1 /\ SlicesOf(report).partial = partial1
      /\ SlicesOf(report).successful = all1 - failed1 - partial1
  BY <1>3, <1>8 DEF SlicesOf
<1> QED BY <1>3, <1>4, <1>8, <1>9 DEF AddsUp

FiguresKept ==
  opened.at = "reports" =>
    /\ \A report \in hook.rows : AddsUp(report)
    /\ query.step = "served" => \A report \in query.rows : AddsUp(report)

LEMMA FiguresHold == FiguresKept => FiguresAddUp BY DEF FiguresKept, FiguresAddUp, AddsUp

LEMMA FiguresBegin == ConsoleInit => FiguresKept BY DEF ConsoleInit, FiguresKept

LEMMA FiguresStay ==
  ASSUME Cardinality(Batches) < 10000, ConsoleInv, FiguresKept, [ConsoleNext]_consoleVars
  PROVE  FiguresKept'
<1> USE DEF FiguresKept
<1>1. CASE QueryServed
  <2>1. UNCHANGED <<opened, hook>> /\ query'.rows = RowsFor(opened.at, opened.key)
    BY <1>1 DEF QueryServed
  <2>2. ASSUME opened.at = "reports" PROVE \A report \in query'.rows : AddsUp(report)
    <3>1. opened.key \in {{1}, 1 .. 3} BY <2>2, KeysAre DEF ConsoleInv, ConsoleTypes, OpenedTyped
    <3>2. query'.rows = LoadReports(opened.key) BY <2>1, <2>2 DEF RowsFor
    <3> QED BY <3>1, <3>2, ReportsAddUp
  <2> QED BY <2>1, <2>2
<1>2. CASE Arrived BY <1>2 DEF Arrived, NoQuery
<1>3. CASE QueryFailed
  <2>1. HookTyped BY DEF ConsoleInv, ConsoleTypes
  <2>2. hook'.rows = hook.rows BY <1>3, <2>1, FailureIsAnError DEF QueryFailed
  <2> QED BY <1>3, <2>2 DEF QueryFailed, NoQuery
<1>4. ASSUME NEW key1, ApplyKey(key1) PROVE FiguresKept'
  <2>1. HookTyped BY DEF ConsoleInv, ConsoleTypes
  <2>2. hook'.rows = hook.rows /\ query'.step = "sent" BY <1>4, <2>1, RefetchAsks DEF ApplyKey
  <2>3. opened'.at = opened.at BY <1>4 DEF ApplyKey, ConsoleInv, ConsoleTypes, OpenedTyped
  <2> QED BY <2>2, <2>3
<1>5. CASE SetTab \/ SetStatus \/ RunReport \/ OnSearch \/ ToggleExpanded
  BY <1>4, <1>5 DEF SetTab, SetStatus, RunReport, OnSearch, ToggleExpanded
<1>6. ASSUME NEW at1 \in DOMAIN KeysOf, OpenPage(at1) PROVE FiguresKept'
  BY <1>6 DEF OpenPage, Mounted, Asked
<1>7. ASSUME NEW op1 \in Ops, NEW row1 \in hook.rows, RunMutation(op1, row1) PROVE FiguresKept'
  <2>1. UNCHANGED <<hook, query>> BY <1>7 DEF RunMutation
  <2>2. opened'.at = opened.at BY <1>7 DEF RunMutation, ConsoleInv, ConsoleTypes, OpenedTyped
  <2> QED BY <2>1, <2>2
<1>8. ASSUME NEW call1 \in calling, ReportDone(call1) PROVE FiguresKept'
  <2>1. HookTyped BY DEF ConsoleInv, ConsoleTypes
  <2>2. opened'.at = opened.at BY <1>8 DEF ReportDone, ConsoleInv, ConsoleTypes, OpenedTyped
  <2>3. CASE Refetch
    <3>1. hook'.rows = hook.rows /\ query'.step = "sent" BY <2>1, <2>3, RefetchAsks
    <3> QED BY <2>2, <3>1
  <2>4. CASE UNCHANGED <<hook, query>> BY <2>2, <2>4
  <2> QED BY <1>8, <2>3, <2>4 DEF ReportDone
<1>9. CASE UNCHANGED <<opened, hook, query>> BY <1>9
<1>10. CASE UNCHANGED consoleVars BY <1>9, <1>10 DEF consoleVars
<1>11. ASSUME NEW call1 \in calling, Perform(call1) PROVE FiguresKept' BY <1>9, <1>11 DEF Perform
<1>12. ASSUME NEW d1 \in UnderReview, ChangedByOthers(d1) PROVE FiguresKept'
  BY <1>9, <1>12 DEF ChangedByOthers
<1>13. ASSUME NEW batch1 \in Batches, JobEnds(batch1) PROVE FiguresKept' BY <1>9, <1>13 DEF JobEnds
<1> HIDE DEF FiguresKept
<1> QED BY <1>1, <1>2, <1>3, <1>5, <1>6, <1>7, <1>8, <1>10, <1>11, <1>12, <1>13 DEF ConsoleNext

(* What an administrator sees without an error answers the key it is under *)
(* and has the administrator's own work, and the figures of a report add   *)
(* up, although they are made of rates of four places: of fewer than ten   *)
(* thousand jobs, which is what the places allow.                          *)
THEOREM AdminPagesAreRight ==
  ASSUME Cardinality(Batches) < 10000
  PROVE  ConsoleInit /\ [][ConsoleNext]_consoleVars => []AdminPagesAreTrue
<1>1. ConsoleInit => ConsoleInv /\ FiguresKept BY ConsoleBegins, FiguresBegin
<1>2. ConsoleInv /\ FiguresKept /\ [ConsoleNext]_consoleVars => ConsoleInv' /\ FiguresKept'
  BY ConsoleKept, FiguresStay
<1>3. ConsoleInv /\ FiguresKept => AdminPagesAreTrue
  BY WorkKeptShows, FiguresHold DEF ConsoleInv, AdminPagesAreTrue
<1> QED BY <1>1, <1>2, <1>3, PTL

----
(***************************************************************************)
(* The search page.                                                        *)
(***************************************************************************)

(* The only search that can still be heard is the one for the URL.         *)
SearchInv ==
  /\ SearchPageTypeOK
  /\ \A s \in searches : ~s.aborted => s.filters = url
  /\ ResultsAreWanted

LEMMA SearchPageBegins == SearchPageInit => SearchInv
<1> SUFFICES ASSUME SearchPageInit PROVE SearchInv OBVIOUS
<1>1. NoFilters \in Filters /\ NoFilters.facets = {} BY DEF NoFilters, Filters
<1>2. SearchPageTypeOK
  <2>1. started \in 0 .. MaxSearches /\ 1 \in 1 .. MaxSearches
    BY SearchPageAssumption DEF SearchPageInit
  <2>2. searches \subseteq [filters : Filters, id : 1 .. MaxSearches, aborted : BOOLEAN]
    BY <1>1, <2>1 DEF SearchPageInit
  <2>3. page \in [result : Filters \cup {NothingYet}, loading : BOOLEAN, error : BOOLEAN]
    BY DEF SearchPageInit
  <2>4. wanted \in [facets : SUBSET Facets, stale : BOOLEAN] BY DEF SearchPageInit
  <2> QED BY <1>1, <2>1, <2>2, <2>3, <2>4 DEF SearchPageInit, SearchPageTypeOK
<1> QED BY <1>1, <1>2 DEF SearchPageInit, SearchInv, ResultsAreWanted

(* A control: the next URL, and what was wanted, agree unless it is stale. *)
LEMMA ControlKeeps ==
  ASSUME SearchInv, UNCHANGED <<url, searches, page, started>>,
         pending' \in Filters, draftRef' \in Filters,
         wanted' \in [facets : SUBSET Facets, stale : BOOLEAN],
         ~wanted'.stale => pending'.facets = wanted'.facets
  PROVE  SearchInv'
<1>1. SearchPageTypeOK' BY DEF SearchInv, SearchPageTypeOK
<1> QED BY <1>1 DEF SearchInv, ResultsAreWanted

LEMMA FromAppliedKeeps ==
  ASSUME SearchInv, NEW filters1 \in Filters, NEW facets1 \in SUBSET Facets,
         FromApplied(filters1, facets1),
         url.facets = wanted.facets => filters1.facets = facets1
  PROVE  SearchInv'
<1>1. /\ pending' = filters1 /\ UNCHANGED <<url, draftRef, searches, page, started>>
      /\ wanted' = [facets |-> facets1, stale |-> wanted.stale \/ pending # url]
  BY DEF FromApplied
<1>2. /\ wanted \in [facets : SUBSET Facets, stale : BOOLEAN] /\ draftRef \in Filters
      /\ ~wanted.stale => pending.facets = wanted.facets
  BY DEF SearchInv, SearchPageTypeOK, ResultsAreWanted
<1> DEFINE stale1 == wanted.stale \/ pending # url
<1>3. stale1 \in BOOLEAN /\ (~stale1 => ~wanted.stale /\ pending = url) OBVIOUS
<1>4. wanted' = [facets |-> facets1, stale |-> stale1] BY <1>1
<1> HIDE DEF stale1
<1>5. wanted' \in [facets : SUBSET Facets, stale : BOOLEAN] /\ wanted'.facets = facets1
      /\ wanted'.stale = stale1
  BY <1>3, <1>4
<1>6. ~wanted'.stale => pending'.facets = wanted'.facets BY <1>1, <1>2, <1>3, <1>5
<1> QED BY <1>1, <1>2, <1>5, <1>6, ControlKeeps

LEMMA ControlsKeep ==
  ASSUME SearchInv,
         \/ \E facet \in Facets : UpdateDraft(facet) \/ RemoveApplied(facet)
         \/ \E sort \in {"newest", "price"} : SetSort(sort)
         \/ \E q \in BOOLEAN : SetKeyword(q)
         \/ ClearFilters
  PROVE  SearchInv'
<1>1. /\ wanted \in [facets : SUBSET Facets, stale : BOOLEAN]
      /\ draftRef \in Filters /\ url \in Filters /\ pending \in Filters
      /\ ~wanted.stale => pending.facets = wanted.facets
  BY DEF SearchInv, SearchPageTypeOK, ResultsAreWanted
<1>2. ASSUME NEW facet \in Facets, UpdateDraft(facet) PROVE SearchInv'
  <2> DEFINE stale1 == wanted.stale \/ draftRef # pending
             new1 == [draftRef EXCEPT !.facets = Ticked(@, facet), !.q = FALSE]
             facets1 == Ticked(wanted.facets, facet)
  <2>1. /\ pending' = new1 /\ draftRef' = new1 /\ UNCHANGED <<url, searches, page, started>>
        /\ wanted' = [facets |-> facets1, stale |-> stale1]
    BY <1>2 DEF UpdateDraft
  <2>2. stale1 \in BOOLEAN /\ (~stale1 => ~wanted.stale /\ pending = draftRef) OBVIOUS
  <2>3. \A fs \in SUBSET Facets : Ticked(fs, facet) \in SUBSET Facets BY DEF Ticked
  <2>4. facets1 \in SUBSET Facets BY <1>1, <2>3
  <2>5. new1 \in Filters /\ new1.facets = Ticked(draftRef.facets, facet)
    BY <1>1, <2>3 DEF Filters
  <2>6. ~stale1 => new1.facets = facets1 BY <1>1, <2>2, <2>5
  <2> HIDE DEF stale1, new1, facets1
  <2>7. wanted' \in [facets : SUBSET Facets, stale : BOOLEAN] /\ wanted'.facets = facets1
        /\ wanted'.stale = stale1
    BY <2>1, <2>2, <2>4
  <2> QED BY <2>1, <2>5, <2>6, <2>7, ControlKeeps
<1>3. ASSUME NEW facet \in Facets, RemoveApplied(facet) PROVE SearchInv'
  <2> DEFINE new1 == [url EXCEPT !.facets = @ \ {facet}]
             facets1 == wanted.facets \ {facet}
  <2>1. FromApplied(new1, facets1) BY <1>3 DEF RemoveApplied
  <2>2. new1 \in Filters /\ new1.facets = url.facets \ {facet} /\ facets1 \in SUBSET Facets
    BY <1>1 DEF Filters
  <2>3. url.facets = wanted.facets => new1.facets = facets1 BY <2>2
  <2> HIDE DEF new1, facets1
  <2> QED BY <2>1, <2>2, <2>3, FromAppliedKeeps
<1>4. ASSUME NEW sort \in {"newest", "price"}, SetSort(sort) PROVE SearchInv'
  <2> DEFINE new1 == [url EXCEPT !.sort = sort]
             facets1 == wanted.facets
  <2>1. FromApplied(new1, facets1) BY <1>4 DEF SetSort
  <2>2. new1 \in Filters /\ new1.facets = url.facets /\ facets1 \in SUBSET Facets
    BY <1>1 DEF Filters
  <2>3. url.facets = wanted.facets => new1.facets = facets1 BY <2>2
  <2> HIDE DEF new1, facets1
  <2> QED BY <2>1, <2>2, <2>3, FromAppliedKeeps
<1>5. ASSUME NEW q1 \in BOOLEAN, SetKeyword(q1) PROVE SearchInv'
  <2> DEFINE new1 == [url EXCEPT !.facets = {}, !.q = q1]
  <2>1. FromApplied(new1, {}) BY <1>5 DEF SetKeyword
  <2>2. new1 \in Filters /\ new1.facets = {} BY <1>1 DEF Filters
  <2> HIDE DEF new1
  <2> QED BY <2>1, <2>2, FromAppliedKeeps
<1>6. CASE ClearFilters
  <2> DEFINE stale1 == wanted.stale \/ draftRef # NoFilters
  <2>1. /\ pending' = NoFilters /\ UNCHANGED <<url, draftRef, searches, page, started>>
        /\ wanted' = [facets |-> {}, stale |-> stale1]
    BY <1>6 DEF ClearFilters
  <2>2. stale1 \in BOOLEAN OBVIOUS
  <2> HIDE DEF stale1
  <2>3. NoFilters \in Filters /\ NoFilters.facets = {} BY DEF NoFilters, Filters
  <2>4. wanted' \in [facets : SUBSET Facets, stale : BOOLEAN] /\ wanted'.facets = {}
    BY <2>1, <2>2
  <2> QED BY <1>1, <2>1, <2>3, <2>4, ControlKeeps
<1> QED BY <1>2, <1>3, <1>4, <1>5, <1>6

LEMMA RenderedKeeps ==
  ASSUME SearchInv, NEW late \in BOOLEAN, Rendered(late)
  PROVE  SearchInv'
<1> DEFINE new1 == [filters |-> pending, id |-> started + 1, aborted |-> FALSE]
           Old(s) == [s EXCEPT !.aborted = TRUE]
<1>1. /\ pending \in Filters /\ pending' = pending /\ url' = pending /\ draftRef' = pending
      /\ started' = started + 1 /\ started < MaxSearches /\ started \in 0 .. MaxSearches
      /\ searches' = {new1} \cup IF late THEN {Old(s) : s \in searches} ELSE {}
      /\ page' = [page EXCEPT !.loading = TRUE, !.error = FALSE]
      /\ wanted' = [facets |-> pending.facets, stale |-> FALSE]
      /\ searches \subseteq [filters : Filters, id : 1 .. MaxSearches, aborted : BOOLEAN]
      /\ page \in [result : Filters \cup {NothingYet}, loading : BOOLEAN, error : BOOLEAN]
  BY DEF Rendered, SearchFor, SearchInv, SearchPageTypeOK
<1>2. started + 1 \in 1 .. MaxSearches /\ started + 1 \in 0 .. MaxSearches
  BY <1>1, SearchPageAssumption
<1>3. /\ new1 \in [filters : Filters, id : 1 .. MaxSearches, aborted : BOOLEAN]
      /\ new1.filters = pending /\ ~new1.aborted
  BY <1>1, <1>2
<1>4. \A s \in searches :
        Old(s) \in [filters : Filters, id : 1 .. MaxSearches, aborted : BOOLEAN] /\ Old(s).aborted
  BY <1>1
<1> HIDE DEF new1, Old
<1>5. /\ searches' \subseteq [filters : Filters, id : 1 .. MaxSearches, aborted : BOOLEAN]
      /\ \A s \in searches' : ~s.aborted => s.filters = url'
  BY <1>1, <1>3, <1>4
<1>6. page' \in [result : Filters \cup {NothingYet}, loading : BOOLEAN, error : BOOLEAN] /\ page'.loading
  BY <1>1
<1>7. wanted' \in [facets : SUBSET Facets, stale : BOOLEAN] /\ wanted'.facets = pending.facets
  BY <1>1 DEF Filters
<1>8. SearchPageTypeOK' BY <1>1, <1>2, <1>5, <1>6, <1>7 DEF SearchPageTypeOK
<1> QED BY <1>1, <1>5, <1>6, <1>7, <1>8 DEF SearchInv, ResultsAreWanted

LEMMA SearchesKeep ==
  ASSUME SearchInv, NEW s \in searches, SearchAnswered(s) \/ Failed(s)
  PROVE  SearchInv'
<1>1. /\ searches' \subseteq searches /\ UNCHANGED <<url, pending, draftRef, wanted, started>>
      /\ page \in [result : Filters \cup {NothingYet}, loading : BOOLEAN, error : BOOLEAN]
      /\ s \in [filters : Filters, id : 1 .. MaxSearches, aborted : BOOLEAN]
  BY DEF SearchInv, SearchPageTypeOK, SearchAnswered, Failed
<1>2. CASE s.aborted
  <2>1. page' = page BY <1>2 DEF SearchAnswered, Failed
  <2> QED BY <1>1, <2>1 DEF SearchInv, SearchPageTypeOK, ResultsAreWanted
<1>3. CASE ~s.aborted /\ SearchAnswered(s)
  <2>1. page' = [result |-> s.filters, loading |-> FALSE, error |-> FALSE] /\ s.filters = url
    BY <1>3 DEF SearchAnswered, SearchInv
  <2>2. page' \in [result : Filters \cup {NothingYet}, loading : BOOLEAN, error : BOOLEAN]
        /\ page'.result = url
    BY <1>1, <2>1
  <2> QED BY <1>1, <2>2 DEF SearchInv, SearchPageTypeOK, ResultsAreWanted
<1>4. CASE ~s.aborted /\ Failed(s)
  <2>1. page' = [page EXCEPT !.loading = FALSE, !.error = TRUE] BY <1>4 DEF Failed
  <2>2. page' \in [result : Filters \cup {NothingYet}, loading : BOOLEAN, error : BOOLEAN]
        /\ page'.error
    BY <1>1, <2>1
  <2> QED BY <1>1, <2>2 DEF SearchInv, SearchPageTypeOK, ResultsAreWanted
<1> QED BY <1>2, <1>3, <1>4

LEMMA SearchPageKept == SearchInv /\ [SearchPageNext]_searchVars => SearchInv'
<1> SUFFICES ASSUME SearchInv, [SearchPageNext]_searchVars PROVE SearchInv' OBVIOUS
<1>1. CASE UNCHANGED searchVars
  BY <1>1 DEF searchVars, SearchInv, SearchPageTypeOK, ResultsAreWanted
<1>2. CASE SearchPageNext
  BY <1>2, ControlsKeep, RenderedKeeps, SearchesKeep DEF SearchPageNext
<1> QED BY <1>1, <1>2

(* The search page's variables are of their types.                         *)
THEOREM SearchPageTyped == SearchPageSpec => []SearchPageTypeOK
<1>1. SearchInv => SearchPageTypeOK BY DEF SearchInv
<1> QED BY <1>1, SearchPageBegins, SearchPageKept, PTL DEF SearchPageSpec

(* In whichever order searches are answered, the results at rest are those *)
(* of the URL, and a URL to come holds every box that was ticked.          *)
THEOREM ResultsAreOfTheUrl == SearchPageSpec => []ResultsAreWanted
<1>1. SearchInv => ResultsAreWanted BY DEF SearchInv
<1> QED BY <1>1, SearchPageBegins, SearchPageKept, PTL DEF SearchPageSpec

----
(***************************************************************************)
(* The landing page.                                                       *)
(***************************************************************************)

(* The one count that can still be heard is of what is chosen, and none is *)
(* under way while the timer runs or words are typed.                      *)
HomeInv ==
  /\ bar \in [typed : BOOLEAN, choice : Wishes]
  /\ counts \subseteq [of : Wishes, number : 1 .. MaxCounts, aborted : BOOLEAN]
  /\ counted \in 0 .. MaxCounts
  /\ AtHome =>
       /\ timer => ~bar.typed
       /\ \A c \in counts : ~c.aborted => c.of = bar.choice /\ ~timer /\ ~bar.typed
  /\ ButtonKeepsItsWord

(* How many vehicles there are is a number.                                *)
LEMMA TotalIsNat == \A w : TotalOf(w) \in Nat
<1>1. IsFiniteSet(MakesSold) /\ IsFiniteSet(PRICE_STEPS)
  <2>1. IsFiniteSet({}) /\ \A S : IsFiniteSet(S) => \A x : IsFiniteSet(S \cup {x})
    BY FS_EmptySet, FS_AddElement
  <2>2. MakesSold = ({} \cup {"honda"}) \cup {"toyota"} /\ PRICE_STEPS = ({} \cup {1}) \cup {2}
    BY DEF MakesSold, PRICE_STEPS
  <2> QED BY <2>1, <2>2
<1>2. IsFiniteSet(MakesSold \X PRICE_STEPS) BY <1>1, FS_Product
<1> SUFFICES ASSUME NEW w PROVE TotalOf(w) \in Nat OBVIOUS
<1> DEFINE found == {c \in MakesSold \X PRICE_STEPS :
                       /\ offered[c[1]][c[2]] = 1
                       /\ w.make \in {"any", c[1]}
                       /\ w.maxPrice = NoCeiling \/ c[2] <= w.maxPrice}
<1>3. found \subseteq MakesSold \X PRICE_STEPS OBVIOUS
<1>4. TotalOf(w) = Cardinality(found) BY DEF TotalOf
<1> HIDE DEF found
<1>5. IsFiniteSet(found) BY <1>2, <1>3, FS_Subset
<1> QED BY <1>4, <1>5, FS_CardinalityType

LEMMA HomeBegins == HomePageInit => HomeInv
<1> SUFFICES ASSUME HomePageInit PROVE HomeInv OBVIOUS
<1>1. bar = [typed |-> FALSE, choice |-> AnyVehicle] /\ timer = TRUE /\ counts = {} /\ counted = 0
  BY DEF HomePageInit
<1>2. AnyVehicle \in Wishes BY DEF AnyVehicle, Wishes
<1>3. bar \in [typed : BOOLEAN, choice : Wishes] /\ ~bar.typed BY <1>1, <1>2
<1>4. counted \in 0 .. MaxCounts BY <1>1, HomePageAssumption
<1> QED BY <1>1, <1>3, <1>4 DEF HomeInv, ButtonKeepsItsWord

LEMMA HomeKept == HomeInv /\ [HomePageNext]_homeVars => HomeInv'
<1> SUFFICES ASSUME HomeInv, [HomePageNext]_homeVars PROVE HomeInv' OBVIOUS
<1>1. /\ bar \in [typed : BOOLEAN, choice : Wishes]
      /\ counts \subseteq [of : Wishes, number : 1 .. MaxCounts, aborted : BOOLEAN]
      /\ counted \in 0 .. MaxCounts
  BY DEF HomeInv
<1>2. ASSUME NEW typed1 \in BOOLEAN, NEW choice1 \in Wishes, NEW late \in BOOLEAN,
             Choose([typed |-> typed1, choice |-> choice1], late)
      PROVE  HomeInv'
  <2>1. /\ bar' = [typed |-> typed1, choice |-> choice1] /\ timer' = ~typed1
        /\ counts' = IF late THEN {[c EXCEPT !.aborted = TRUE] : c \in counts} ELSE {}
        /\ UNCHANGED <<offered, button, newest, arrived, changed, counted, sales>>
    BY <1>2 DEF Choose
  <2>2. bar' \in [typed : BOOLEAN, choice : Wishes] /\ bar'.typed = typed1 BY <2>1
  <2>3. \A c \in counts : LET d == [c EXCEPT !.aborted = TRUE] IN
          d \in [of : Wishes, number : 1 .. MaxCounts, aborted : BOOLEAN] /\ d.aborted
    BY <1>1
  <2>4. /\ counts' \subseteq [of : Wishes, number : 1 .. MaxCounts, aborted : BOOLEAN]
        /\ \A c \in counts' : c.aborted
    BY <2>1, <2>3
  <2>5. timer' <=> ~bar'.typed BY <2>1, <2>2
  <2>6. ButtonKeepsItsWord' BY <2>5 DEF ButtonKeepsItsWord
  <2> QED BY <1>1, <2>1, <2>2, <2>4, <2>5, <2>6 DEF HomeInv
<1>3. CASE TimerFires
  <2> DEFINE new1 == [of |-> bar.choice, number |-> counted + 1, aborted |-> FALSE]
  <2>1. /\ AtHome /\ timer /\ counts' = counts \cup {new1} /\ counted < MaxCounts
        /\ timer' = FALSE /\ counted' = counted + 1 /\ changed' = FALSE
        /\ UNCHANGED <<offered, bar, button, newest, arrived, sales>>
    BY <1>3 DEF TimerFires
  <2>2. counted + 1 \in 1 .. MaxCounts /\ counted' \in 0 .. MaxCounts
    BY <1>1, <2>1, HomePageAssumption
  <2>3. /\ new1 \in [of : Wishes, number : 1 .. MaxCounts, aborted : BOOLEAN]
        /\ ~new1.aborted /\ new1.of = bar.choice
    BY <1>1, <2>2
  <2> HIDE DEF new1
  <2>4. \A c \in counts : c.aborted BY <2>1 DEF HomeInv
  <2>5. ~bar.typed BY <2>1 DEF HomeInv
  <2>6. ButtonKeepsItsWord' BY <2>1, <2>3 DEF ButtonKeepsItsWord
  <2> QED BY <1>1, <2>1, <2>2, <2>3, <2>4, <2>5, <2>6 DEF HomeInv
<1>4. CASE SubmitHero
  <2>1. arrived' = [q |-> bar.typed, choice |-> bar.choice, at |-> "search"] /\ counts' = {}
        /\ UNCHANGED <<offered, bar, button, newest, changed, counted, sales>>
    BY <1>4 DEF SubmitHero
  <2>2. ~AtHome' BY <2>1 DEF AtHome
  <2> QED BY <1>1, <2>1, <2>2 DEF HomeInv, ButtonKeepsItsWord
<1>5. ASSUME NEW c \in counts, CountAnswered(c) PROVE HomeInv'
  <2>1. /\ counts' = counts \ {c}
        /\ button' = IF c.aborted THEN button ELSE [known |-> TRUE, total |-> TotalOf(c.of), of |-> c.of]
        /\ UNCHANGED <<offered, bar, timer, newest, arrived, changed, counted, sales>>
    BY <1>5 DEF CountAnswered
  <2>2. TotalOf(bar.choice)' = TotalOf(bar.choice) BY <2>1 DEF TotalOf
  <2>3. AtHome' = AtHome BY <2>1 DEF AtHome
  <2>4. ButtonKeepsItsWord'
    <3>1. CASE c.aborted
      BY <2>1, <2>2, <2>3, <3>1 DEF HomeInv, ButtonKeepsItsWord
    <3>2. CASE ~c.aborted
      <4>1. AtHome => c.of = bar.choice BY <3>2 DEF HomeInv
      <4> QED BY <2>1, <2>2, <2>3, <3>2, <4>1 DEF ButtonKeepsItsWord
    <3> QED BY <3>1, <3>2
  <2> QED BY <1>1, <2>1, <2>3, <2>4 DEF HomeInv
<1>6. ASSUME NEW c \in counts, CountFailed(c) PROVE HomeInv'
  <2>1. /\ counts' = counts \ {c} /\ changed' = (changed \/ ~c.aborted)
        /\ UNCHANGED <<offered, bar, button, timer, newest, arrived, counted, sales>>
    BY <1>6 DEF CountFailed
  <2>2. TotalOf(bar.choice)' = TotalOf(bar.choice) BY <2>1 DEF TotalOf
  <2>3. AtHome' = AtHome BY <2>1 DEF AtHome
  <2>4. ButtonKeepsItsWord' BY <2>1, <2>2, <2>3 DEF HomeInv, ButtonKeepsItsWord
  <2> QED BY <1>1, <2>1, <2>3, <2>4 DEF HomeInv
<1>7. CASE (\E ok \in BOOLEAN : NewestAnswered(ok)) \/ UNCHANGED homeVars
  <2>1. UNCHANGED <<offered, bar, button, timer, counts, arrived, changed, counted>>
    BY <1>7 DEF NewestAnswered, homeVars
  <2>2. TotalOf(bar.choice)' = TotalOf(bar.choice) BY <2>1 DEF TotalOf
  <2>3. AtHome' = AtHome BY <2>1 DEF AtHome
  <2>4. ButtonKeepsItsWord' BY <2>1, <2>2, <2>3 DEF HomeInv, ButtonKeepsItsWord
  <2> QED BY <1>1, <2>1, <2>3, <2>4 DEF HomeInv
<1>8. ASSUME NEW make \in MakesSold, NEW price \in PRICE_STEPS, OffersChange(make, price) PROVE HomeInv'
  <2>1. changed' = TRUE /\ UNCHANGED <<bar, button, timer, counts, newest, arrived, counted>>
    BY <1>8 DEF OffersChange
  <2>2. AtHome' = AtHome BY <2>1 DEF AtHome
  <2> QED BY <1>1, <2>1, <2>2 DEF HomeInv, ButtonKeepsItsWord
<1> QED BY <1>2, <1>3, <1>4, <1>5, <1>6, <1>7, <1>8 DEF HomePageNext

(* In whichever order counts come back, and after words were typed and     *)
(* deleted again, the number on the button is that of the choice.          *)
THEOREM ButtonIsTrue == HomePageSpec => []ButtonKeepsItsWord
<1>1. HomeInv => ButtonKeepsItsWord BY DEF HomeInv
<1> QED BY <1>1, HomeBegins, HomeKept, PTL DEF HomePageSpec

HomeTypes ==
  /\ offered \in [MakesSold -> [PRICE_STEPS -> 0 .. 1]]
  /\ bar \in [typed : BOOLEAN, choice : Wishes]
  /\ button.known \in BOOLEAN /\ button.total \in Nat /\ button.of \in Wishes
  /\ counts \subseteq [of : Wishes, number : 1 .. MaxCounts, aborted : BOOLEAN]
  /\ newest \in {"loading", "listed", "empty"}
  /\ arrived \in [q : BOOLEAN, choice : Wishes, at : {"home", "search"}]
  /\ counted \in 0 .. MaxCounts /\ sales \in 0 .. MaxSales

LEMMA HomeTypesKept == HomeInv /\ HomeTypes /\ [HomePageNext]_homeVars => HomeTypes'
<1> SUFFICES ASSUME HomeInv, HomeTypes, [HomePageNext]_homeVars, HomeInv' PROVE HomeTypes'
  BY HomeKept
<1>1. /\ bar' \in [typed : BOOLEAN, choice : Wishes]
      /\ counts' \subseteq [of : Wishes, number : 1 .. MaxCounts, aborted : BOOLEAN]
      /\ counted' \in 0 .. MaxCounts
  BY DEF HomeInv
<1>2. CASE UNCHANGED <<offered, button, newest, arrived, sales>>
  BY <1>1, <1>2 DEF HomeTypes
<1>3. CASE SubmitHero
  <2>1. arrived' = [q |-> bar.typed, choice |-> bar.choice, at |-> "search"]
        /\ UNCHANGED <<offered, button, newest, sales>>
    BY <1>3 DEF SubmitHero
  <2>2. arrived' \in [q : BOOLEAN, choice : Wishes, at : {"home", "search"}] BY <2>1 DEF HomeTypes
  <2> QED BY <1>1, <2>1, <2>2 DEF HomeTypes
<1>4. ASSUME NEW c \in counts, CountAnswered(c) PROVE HomeTypes'
  <2>1. /\ button' = IF c.aborted THEN button ELSE [known |-> TRUE, total |-> TotalOf(c.of), of |-> c.of]
        /\ UNCHANGED <<offered, newest, arrived, sales>>
    BY <1>4 DEF CountAnswered
  <2>2. c.of \in Wishes BY DEF HomeTypes
  <2>3. TotalOf(c.of) \in Nat BY TotalIsNat
  <2>4. button'.known \in BOOLEAN /\ button'.total \in Nat /\ button'.of \in Wishes
    BY <2>1, <2>2, <2>3 DEF HomeTypes
  <2> QED BY <1>1, <2>1, <2>4 DEF HomeTypes
<1>5. ASSUME NEW ok \in BOOLEAN, NewestAnswered(ok) PROVE HomeTypes'
  BY <1>1, <1>5 DEF NewestAnswered, HomeTypes
<1>6. ASSUME NEW make \in MakesSold, NEW price \in PRICE_STEPS, OffersChange(make, price) PROVE HomeTypes'
  <2>1. /\ offered' = [offered EXCEPT ![make][price] = 1 - @] /\ sales' = sales + 1 /\ sales < MaxSales
        /\ UNCHANGED <<button, newest, arrived>>
    BY <1>6 DEF OffersChange
  <2>2. offered[make] \in [PRICE_STEPS -> 0 .. 1] BY DEF HomeTypes
  <2>3. 1 - offered[make][price] \in 0 .. 1 BY <2>2
  <2>4. offered' \in [MakesSold -> [PRICE_STEPS -> 0 .. 1]] BY <2>1, <2>2, <2>3 DEF HomeTypes
  <2>5. sales' \in 0 .. MaxSales BY <2>1, HomePageAssumption DEF HomeTypes
  <2> QED BY <1>1, <2>1, <2>4, <2>5 DEF HomeTypes
<1>7. CASE \/ TimerFires \/ UNCHANGED homeVars \/ \E c \in counts : CountFailed(c)
           \/ \E typed1 \in BOOLEAN, choice1 \in Wishes, late \in BOOLEAN :
                Choose([typed |-> typed1, choice |-> choice1], late)
  BY <1>2, <1>7 DEF TimerFires, CountFailed, Choose, homeVars
<1> QED BY <1>3, <1>4, <1>5, <1>6, <1>7 DEF HomePageNext

HomeFlags == timer \in BOOLEAN /\ changed \in BOOLEAN

LEMMA HomeFlagsKept == HomeInv /\ HomeFlags /\ [HomePageNext]_homeVars => HomeFlags'
<1> SUFFICES ASSUME HomeInv, HomeFlags, [HomePageNext]_homeVars PROVE HomeFlags' OBVIOUS
<1>1. bar.typed \in BOOLEAN BY DEF HomeInv
<1> QED
  BY <1>1 DEF HomePageNext, homeVars, Choose, TimerFires, CountAnswered, CountFailed, NewestAnswered,
      SubmitHero, OffersChange, HomeFlags

(* The landing page's variables are of their types.                        *)
THEOREM HomePageTyped == HomePageSpec => []HomePageTypeOK
<1>1. HomePageInit => HomeTypes
  <2> SUFFICES ASSUME HomePageInit PROVE HomeTypes OBVIOUS
  <2>1. offered \in [MakesSold -> [PRICE_STEPS -> 0 .. 1]]
    BY DEF HomePageInit, MakesSold, PRICE_STEPS
  <2>2. AnyVehicle \in Wishes BY DEF AnyVehicle, Wishes
  <2>3. NotArrived \in [q : BOOLEAN, choice : Wishes, at : {"home", "search"}] BY <2>2 DEF NotArrived
  <2> QED BY <2>1, <2>2, <2>3, HomePageAssumption DEF HomePageInit, HomeTypes, NoCount
<1>2. HomePageInit => HomeFlags BY DEF HomePageInit, HomeFlags
<1>3. HomeTypes /\ HomeFlags => HomePageTypeOK BY DEF HomeTypes, HomeFlags, HomePageTypeOK
<1> QED BY <1>1, <1>2, <1>3, HomeBegins, HomeKept, HomeTypesKept, HomeFlagsKept, PTL DEF HomePageSpec

----
(***************************************************************************)
(* The filters of the search page.                                         *)
(***************************************************************************)

FilterKeys == {"types", "makes", "models", "specs", "maxPrice"}

(* A page beyond the first is of the filters for which it was chosen.      *)
PageChosen(filters) == filters.page > 1 => Patch(filters) = paged

(* As long as nobody hurried: the snapshot is what is rendered, models are *)
(* of makes searched for, and the price in the input is the one applied,   *)
(* or waits for the render.                                                *)
Unhurried ==
  /\ next = rendered => Patch(draft) = Patch(rendered)
  /\ ~unmade => \A x \in next.models : MadeBy[x] \in next.makes
  /\ panel.open /\ ~range.typing /\ next.maxPrice = rendered.maxPrice => range.text = rendered.maxPrice

FilterInv ==
  /\ FilterPanelTypeOK
  /\ PageChosen(rendered) /\ PageChosen(next)
  /\ panel.open => panel.fetch \in {Scope(rendered), "none"}
  /\ panel.open /\ panel.fetch = "none" => panel.list \in {Scope(rendered), "error"}
  /\ ~hurried => Unhurried

LEMMA ScopeTyped == \A filters \in AllFilters : Scope(filters) \in Scopes
<1> SUFFICES ASSUME NEW filters \in AllFilters PROVE Scope(filters) \in Scopes OBVIOUS
<1>1. filters.types \subseteq TypeNames BY DEF AllFilters
<1>2. CASE Cardinality(filters.types) = 1
  <2>1. filters.types # {} BY <1>2, FS_EmptySet
  <2> QED BY <1>1, <1>2, <2>1 DEF Scope, Scopes, TypeNames
<1>3. CASE Cardinality(filters.types) # 1 BY <1>3 DEF Scope, Scopes
<1> QED BY <1>2, <1>3

LEMMA OnPageOne ==
  ASSUME NEW filters \in AllFilters
  PROVE  /\ Patch(filters) \in AllFilters /\ Patch(filters).page = 1 /\ Patch(Patch(filters)) = Patch(filters)
         /\ Patch(filters).types = filters.types /\ Patch(filters).makes = filters.makes
         /\ Patch(filters).models = filters.models /\ Patch(filters).specs = filters.specs
         /\ Patch(filters).maxPrice = filters.maxPrice
<1> DEFINE p == [filters EXCEPT !.page = 1]
<1>1. /\ p \in AllFilters /\ p.page = 1 /\ p.types = filters.types /\ p.makes = filters.makes
      /\ p.models = filters.models /\ p.specs = filters.specs /\ p.maxPrice = filters.maxPrice
  BY DEF AllFilters
<1>2. Patch(filters) = p BY DEF Patch
<1> HIDE DEF p
<1>3. [p EXCEPT !.page = 1] = p BY <1>1 DEF AllFilters
<1>4. Patch(p) = p BY <1>3 DEF Patch
<1> QED BY <1>1, <1>2, <1>4

(* Two that differ in their page only.                                     *)
LEMMA SamePatch ==
  ASSUME NEW f1 \in AllFilters, NEW f2 \in AllFilters, Patch(f1) = Patch(f2)
  PROVE  /\ f1.types = f2.types /\ f1.makes = f2.makes /\ f1.models = f2.models
         /\ f1.specs = f2.specs /\ f1.maxPrice = f2.maxPrice
BY OnPageOne

LEMMA UnfilteredTyped == Unfiltered \in AllFilters /\ Unfiltered.models = {} /\ Unfiltered.page = 1
BY DEF Unfiltered, AllFilters

FilterTypes ==
  /\ {rendered, next, draft, paged} \subseteq AllFilters
  /\ panel \in [open : BOOLEAN, list : Scopes \cup {"none", "error"}, fetch : Scopes \cup {"none"}]
  /\ range \in [text : {0, 5}, typing : BOOLEAN]
  /\ panelClicks \in 0 .. MaxPanelClicks

LEMMA TypesAre == FilterPanelTypeOK <=> FilterTypes /\ hurried \in BOOLEAN /\ unmade \in BOOLEAN
BY DEF FilterPanelTypeOK, FilterTypes

LEMMA ClickCounts ==
  ASSUME FilterInv, Clicked
  PROVE  /\ panelClicks' \in 0 .. MaxPanelClicks /\ hurried' \in BOOLEAN
         /\ ~hurried' => ~hurried /\ next = rendered
<1>1. panelClicks \in 0 .. MaxPanelClicks /\ hurried \in BOOLEAN
  BY TypesAre DEF FilterInv, FilterTypes
<1>2. panelClicks < MaxPanelClicks /\ panelClicks' = panelClicks + 1 /\ hurried' = (hurried \/ next # rendered)
  BY DEF Clicked
<1>3. panelClicks' \in 0 .. MaxPanelClicks BY <1>1, <1>2, FilterPanelAssumption
<1> QED BY <1>1, <1>2, <1>3

(* A control of the sidebar: what it makes of the snapshot, at page 1.     *)
LEMMA UpdateKeeps ==
  ASSUME FilterInv, NEW filters1 \in AllFilters, Update(filters1),
         range' \in [text : {0, 5}, typing : BOOLEAN],
         panelClicks' \in 0 .. MaxPanelClicks, hurried' \in BOOLEAN, unmade' = unmade,
         ~hurried' => ~hurried /\ next = rendered,
         ~hurried' /\ ~unmade => \A x \in filters1.models : MadeBy[x] \in filters1.makes,
         ~hurried' /\ panel.open /\ ~range'.typing /\ filters1.maxPrice = rendered.maxPrice
           => range'.text = rendered.maxPrice
  PROVE  FilterInv'
<1>1. /\ draft' = filters1 /\ next' = Patch(filters1) /\ UNCHANGED <<rendered, panel, paged>>
      /\ FilterTypes /\ unmade \in BOOLEAN
  BY TypesAre DEF Update, FilterInv
<1>2. /\ next' \in AllFilters /\ next'.page = 1 /\ Patch(next') = next'
      /\ next'.makes = filters1.makes /\ next'.models = filters1.models
      /\ next'.maxPrice = filters1.maxPrice
  BY <1>1, OnPageOne
<1>3. FilterTypes' BY <1>1, <1>2 DEF FilterTypes
<1>4. FilterPanelTypeOK' BY <1>1, <1>3 DEF FilterPanelTypeOK, FilterTypes
<1>5. PageChosen(rendered)' /\ PageChosen(next)' BY <1>1, <1>2 DEF FilterInv, PageChosen
<1>6. ~hurried' => Unhurried'
  <2> SUFFICES ASSUME ~hurried' PROVE Unhurried' OBVIOUS
  <2>1. next' = rendered' => Patch(draft') = Patch(rendered') BY <1>1, <1>2
  <2>2. ~unmade' => \A x \in next'.models : MadeBy[x] \in next'.makes BY <1>2
  <2>3. panel'.open /\ ~range'.typing /\ next'.maxPrice = rendered'.maxPrice => range'.text = rendered'.maxPrice
    BY <1>1, <1>2
  <2> QED BY <2>1, <2>2, <2>3 DEF Unhurried
<1>7. Scope(rendered)' = Scope(rendered) BY <1>1 DEF Scope
<1> QED BY <1>1, <1>4, <1>5, <1>6, <1>7 DEF FilterInv

(* A chip, a page, Clear: the next URL from the rendered one.              *)
LEMMA ChipKeeps ==
  ASSUME FilterInv, Clicked, next' \in AllFilters, unmade' \in BOOLEAN,
         paged' \in AllFilters,
         UNCHANGED <<rendered, draft, panel, range>>,
         PageChosen(next)', PageChosen(rendered)',
         ~hurried /\ next = rendered /\ ~unmade' => \A x \in next'.models : MadeBy[x] \in next'.makes
  PROVE  FilterInv'
<1>1. FilterTypes /\ hurried' \in BOOLEAN /\ panelClicks' \in 0 .. MaxPanelClicks
      /\ (~hurried' => ~hurried /\ next = rendered)
  BY TypesAre, ClickCounts DEF FilterInv
<1>2. FilterTypes' BY <1>1 DEF FilterTypes
<1>3. FilterPanelTypeOK' BY <1>1, <1>2 DEF FilterPanelTypeOK, FilterTypes
<1>4. ~hurried' => Unhurried'
  BY <1>1 DEF FilterInv, Unhurried
<1>5. Scope(rendered)' = Scope(rendered) BY DEF Scope
<1> QED BY <1>1, <1>3, <1>4, <1>5 DEF FilterInv

LEMMA BoxesKeep ==
  ASSUME FilterInv,
         \/ \E t \in TypeNames : ToggleType(t)
         \/ \E m \in MakeNames : ToggleMake(m)
         \/ \E x \in ModelNames : ToggleModel(x)
         \/ \E key \in SpecNames : setSpec(key)
  PROVE  FilterInv'
<1>1. /\ FilterTypes /\ hurried \in BOOLEAN /\ Clicked /\ UNCHANGED <<range, unmade>>
  BY TypesAre DEF FilterInv, ToggleType, ToggleMake, ToggleModel, setSpec
<1>2. /\ panelClicks' \in 0 .. MaxPanelClicks /\ hurried' \in BOOLEAN
      /\ ~hurried' => ~hurried /\ next = rendered
  BY <1>1, ClickCounts
<1>3. /\ rendered \in AllFilters /\ next \in AllFilters /\ draft \in AllFilters
      /\ range' \in [text : {0, 5}, typing : BOOLEAN]
  BY <1>1 DEF FilterTypes
<1>4. ~hurried' =>
        /\ draft.makes = rendered.makes /\ draft.models = rendered.models
        /\ draft.maxPrice = rendered.maxPrice
        /\ ~unmade => \A x \in rendered.models : MadeBy[x] \in rendered.makes
        /\ panel.open /\ ~range.typing => range.text = rendered.maxPrice
  BY <1>2, <1>3, SamePatch DEF FilterInv, Unhurried
<1>5. ASSUME NEW f \in AllFilters, Update(f), f.maxPrice = draft.maxPrice,
             ~hurried' /\ ~unmade => \A x \in f.models : MadeBy[x] \in f.makes
      PROVE  FilterInv'
  <2>1. unmade' = unmade /\ range' = range BY <1>1
  <2>2. ~hurried' /\ panel.open /\ ~range'.typing /\ f.maxPrice = rendered.maxPrice
          => range'.text = rendered.maxPrice
    BY <1>4, <2>1
  <2> QED BY <1>2, <1>3, <1>5, <2>1, <2>2, UpdateKeeps
<1>6. ASSUME NEW t \in TypeNames, ToggleType(t) PROVE FilterInv'
  <2> DEFINE types1 == ToggleValue(rendered.types, t)
             f == [draft EXCEPT !.types = types1]
  <2>1. types1 \in SUBSET TypeNames BY <1>3 DEF ToggleValue, AllFilters
  <2>2. Update(f) BY <1>6 DEF ToggleType
  <2> HIDE DEF types1
  <2>3. /\ f \in AllFilters /\ f.models = draft.models /\ f.makes = draft.makes /\ f.maxPrice = draft.maxPrice
    BY <1>3, <2>1 DEF AllFilters
  <2> HIDE DEF f
  <2>4. ~hurried' /\ ~unmade => \A x \in f.models : MadeBy[x] \in f.makes BY <1>4, <2>3
  <2> QED BY <1>5, <2>2, <2>3, <2>4
<1>7. ASSUME NEW m \in MakeNames, ToggleMake(m) PROVE FilterInv'
  <2>1. CASE m \in rendered.makes
    <3> DEFINE makes1 == rendered.makes \ {m}
               models1 == {x \in rendered.models : x \in Listed(panel.list, ModelNames) /\ MadeBy[x] \in makes1}
               f == [draft EXCEPT !.makes = makes1, !.models = models1]
    <3>1. Update(f) BY <1>7, <2>1 DEF ToggleMake
    <3>2. makes1 \subseteq MakeNames /\ models1 \subseteq ModelNames
          /\ \A x \in models1 : MadeBy[x] \in makes1
      BY <1>3 DEF AllFilters
    <3> HIDE DEF makes1, models1
    <3>3. f \in AllFilters /\ f.models = models1 /\ f.makes = makes1 /\ f.maxPrice = draft.maxPrice
      BY <1>3, <3>2 DEF AllFilters
    <3> HIDE DEF f
    <3>4. \A x \in f.models : MadeBy[x] \in f.makes BY <3>2, <3>3
    <3> QED BY <1>5, <3>1, <3>3, <3>4
  <2>2. CASE m \notin rendered.makes
    <3> DEFINE makes1 == rendered.makes \cup {m}
               f == [draft EXCEPT !.makes = makes1]
    <3>1. Update(f) BY <1>7, <2>2 DEF ToggleMake
    <3>2. makes1 \subseteq MakeNames /\ rendered.makes \subseteq makes1 BY <1>3 DEF AllFilters
    <3> HIDE DEF makes1
    <3>3. f \in AllFilters /\ f.models = draft.models /\ f.makes = makes1 /\ f.maxPrice = draft.maxPrice
      BY <1>3, <3>2 DEF AllFilters
    <3> HIDE DEF f
    <3>4. ~hurried' /\ ~unmade => \A x \in f.models : MadeBy[x] \in f.makes BY <1>4, <3>2, <3>3
    <3> QED BY <1>5, <3>1, <3>3, <3>4
  <2> QED BY <2>1, <2>2
<1>8. ASSUME NEW x1 \in ModelNames, ToggleModel(x1) PROVE FilterInv'
  <2> DEFINE models1 == ToggleValue(rendered.models, x1)
             f == [draft EXCEPT !.models = models1]
  <2>1. models1 \subseteq ModelNames /\ models1 \subseteq rendered.models \cup {x1}
    BY <1>3 DEF ToggleValue, AllFilters
  <2>2. Update(f) /\ MadeBy[x1] \in rendered.makes BY <1>8 DEF ToggleModel
  <2> HIDE DEF models1
  <2>3. f \in AllFilters /\ f.models = models1 /\ f.makes = draft.makes /\ f.maxPrice = draft.maxPrice
    BY <1>3, <2>1 DEF AllFilters
  <2> HIDE DEF f
  <2>4. ~hurried' /\ ~unmade => \A x \in f.models : MadeBy[x] \in f.makes BY <1>4, <2>1, <2>2, <2>3
  <2> QED BY <1>5, <2>2, <2>3, <2>4
<1>9. ASSUME NEW key \in SpecNames, setSpec(key) PROVE FilterInv'
  <2> DEFINE specs1 == ToggleValue(rendered.specs, key)
             f == [draft EXCEPT !.specs = specs1]
  <2>1. specs1 \in SUBSET SpecNames BY <1>3 DEF ToggleValue, AllFilters
  <2>2. Update(f) BY <1>9 DEF setSpec
  <2> HIDE DEF specs1
  <2>3. f \in AllFilters /\ f.models = draft.models /\ f.makes = draft.makes /\ f.maxPrice = draft.maxPrice
    BY <1>3, <2>1 DEF AllFilters
  <2> HIDE DEF f
  <2>4. ~hurried' /\ ~unmade => \A x \in f.models : MadeBy[x] \in f.makes BY <1>4, <2>3
  <2> QED BY <1>5, <2>2, <2>3, <2>4
<1> QED BY <1>6, <1>7, <1>8, <1>9

LEMMA PricesKeep ==
  ASSUME FilterInv, (\E text \in {0, 5} : TypePrice(text)) \/ PriceSettles
  PROVE  FilterInv'
<1>1. FilterTypes /\ hurried \in BOOLEAN /\ unmade \in BOOLEAN BY TypesAre DEF FilterInv
<1>2. ASSUME NEW text \in {0, 5}, TypePrice(text) PROVE FilterInv'
  <2>1. /\ Clicked /\ range' = [text |-> text, typing |-> TRUE]
        /\ UNCHANGED <<rendered, next, draft, panel, unmade, paged>>
    BY <1>2 DEF TypePrice
  <2>2. /\ panelClicks' \in 0 .. MaxPanelClicks /\ hurried' \in BOOLEAN
        /\ ~hurried' => ~hurried /\ next = rendered
    BY <2>1, ClickCounts
  <2>3. FilterTypes' /\ range'.typing BY <1>1, <2>1, <2>2 DEF FilterTypes
  <2>4. FilterPanelTypeOK' BY <1>1, <2>1, <2>2, <2>3 DEF FilterPanelTypeOK, FilterTypes
  <2>5. ~hurried' => Unhurried' BY <2>1, <2>2, <2>3 DEF FilterInv, Unhurried
  <2>6. Scope(rendered)' = Scope(rendered) BY <2>1 DEF Scope
  <2>7. PageChosen(rendered)' /\ PageChosen(next)' BY <2>1 DEF FilterInv, PageChosen
  <2> QED BY <2>1, <2>4, <2>5, <2>6, <2>7 DEF FilterInv
<1>3. CASE PriceSettles
  <2> DEFINE text1 == range.text
             f == [draft EXCEPT !.maxPrice = text1]
  <2>1. /\ Update(f) /\ range' = [range EXCEPT !.typing = FALSE]
        /\ hurried' = (hurried \/ next # rendered) /\ UNCHANGED <<unmade, panelClicks>>
    BY <1>3 DEF PriceSettles
  <2>2. text1 \in {0, 5} BY <1>1 DEF FilterTypes
  <2>3. range' \in [text : {0, 5}, typing : BOOLEAN] /\ range'.text = text1
    BY <1>1, <2>1 DEF FilterTypes
  <2>4. draft \in AllFilters /\ rendered \in AllFilters /\ panelClicks' \in 0 .. MaxPanelClicks
    BY <1>1, <2>1 DEF FilterTypes
  <2>5. hurried' \in BOOLEAN /\ (~hurried' => ~hurried /\ next = rendered) BY <1>1, <2>1
  <2> HIDE DEF text1
  <2>6. f \in AllFilters /\ f.models = draft.models /\ f.makes = draft.makes /\ f.maxPrice = text1
    BY <2>2, <2>4 DEF AllFilters
  <2> HIDE DEF f
  <2>7. ~hurried' /\ ~unmade => \A x \in f.models : MadeBy[x] \in f.makes
    BY <2>4, <2>5, <2>6, SamePatch DEF FilterInv, Unhurried
  <2> QED BY <2>1, <2>3, <2>4, <2>5, <2>6, <2>7, UpdateKeeps
<1> QED BY <1>2, <1>3

LEMMA ChipsKeep ==
  ASSUME FilterInv,
         \/ \E key \in FilterKeys : RemoveChip(key)
         \/ \E p \in 1 .. 2 : SetPage(p)
         \/ ClearAll
  PROVE  FilterInv'
<1>1. FilterTypes /\ hurried \in BOOLEAN /\ unmade \in BOOLEAN BY TypesAre DEF FilterInv
<1>2. rendered \in AllFilters /\ paged \in AllFilters BY <1>1 DEF FilterTypes
<1>3. ~hurried /\ next = rendered /\ ~unmade => \A x \in rendered.models : MadeBy[x] \in rendered.makes
  BY DEF FilterInv, Unhurried
<1>4. ASSUME NEW key \in FilterKeys, RemoveChip(key) PROVE FilterInv'
  <2> DEFINE f == [rendered EXCEPT ![key] = Unfiltered[key]]
  <2>1. /\ Clicked /\ next' = Patch(f) /\ unmade' = (unmade \/ key = "makes")
        /\ UNCHANGED <<rendered, draft, panel, range, paged>>
    BY <1>4 DEF RemoveChip
  <2>2. /\ f \in AllFilters
        /\ f.models = (IF key = "models" THEN {} ELSE rendered.models)
        /\ f.makes = (IF key = "makes" THEN {} ELSE rendered.makes)
    <3>1. CASE key = "types" BY <1>2, <3>1 DEF AllFilters, Unfiltered
    <3>2. CASE key = "makes" BY <1>2, <3>2 DEF AllFilters, Unfiltered
    <3>3. CASE key = "models" BY <1>2, <3>3 DEF AllFilters, Unfiltered
    <3>4. CASE key = "specs" BY <1>2, <3>4 DEF AllFilters, Unfiltered
    <3>5. CASE key = "maxPrice" BY <1>2, <3>5 DEF AllFilters, Unfiltered
    <3> QED BY <3>1, <3>2, <3>3, <3>4, <3>5 DEF FilterKeys
  <2> HIDE DEF f
  <2>3. /\ next' \in AllFilters /\ next'.page = 1 /\ next'.models = f.models /\ next'.makes = f.makes
    BY <2>1, <2>2, OnPageOne
  <2>4. unmade' \in BOOLEAN /\ (~unmade' => ~unmade /\ key # "makes") BY <1>1, <2>1
  <2>5. PageChosen(next)' /\ PageChosen(rendered)' BY <2>1, <2>3 DEF FilterInv, PageChosen
  <2>6. ~hurried /\ next = rendered /\ ~unmade' => \A x \in next'.models : MadeBy[x] \in next'.makes
    BY <1>3, <2>2, <2>3, <2>4
  <2> QED BY <1>2, <2>1, <2>3, <2>4, <2>5, <2>6, ChipKeeps
<1>5. ASSUME NEW p \in 1 .. 2, SetPage(p) PROVE FilterInv'
  <2>1. /\ Clicked /\ next' = [rendered EXCEPT !.page = p] /\ paged' = Patch(rendered)
        /\ UNCHANGED <<rendered, draft, panel, range, unmade>>
    BY <1>5 DEF SetPage, Patch
  <2>2. /\ next' \in AllFilters /\ next'.models = rendered.models /\ next'.makes = rendered.makes
        /\ Patch(next') = Patch(rendered)
    BY <1>2, <2>1 DEF AllFilters, Patch
  <2>3. paged' \in AllFilters BY <1>2, <2>1, OnPageOne
  <2>4. PageChosen(next)' /\ PageChosen(rendered)' BY <2>1, <2>2 DEF PageChosen
  <2> QED BY <1>1, <1>3, <2>1, <2>2, <2>3, <2>4, ChipKeeps
<1>6. CASE ClearAll
  <2>1. /\ Clicked /\ next' = Unfiltered /\ UNCHANGED <<rendered, draft, panel, range, unmade, paged>>
    BY <1>6 DEF ClearAll
  <2>2. PageChosen(next)' /\ PageChosen(rendered)' BY <2>1, UnfilteredTyped DEF FilterInv, PageChosen
  <2> QED BY <1>1, <1>2, <2>1, <2>2, UnfilteredTyped, ChipKeeps
<1> QED BY <1>4, <1>5, <1>6

LEMMA RenderKeeps ==
  ASSUME FilterInv, RenderUrl
  PROVE  FilterInv'
<1>1. FilterTypes /\ hurried \in BOOLEAN /\ unmade \in BOOLEAN BY TypesAre DEF FilterInv
<1>2. /\ rendered' = next /\ draft' = next /\ UNCHANGED <<next, hurried, paged, panelClicks>>
      /\ panel' = IF panel.open /\ Scope(next) # Scope(rendered) THEN [panel EXCEPT !.fetch = Scope(next)]
                  ELSE panel
      /\ range' = IF next.maxPrice # rendered.maxPrice /\ ~range.typing
                  THEN [range EXCEPT !.text = next.maxPrice] ELSE range
      /\ unmade' = (unmade /\ next.models # {})
  BY DEF RenderUrl
<1>3. next \in AllFilters BY <1>1 DEF FilterTypes
<1>4. Scope(next) \in Scopes /\ "none" \notin Scopes BY <1>3, ScopeTyped DEF Scopes
<1>5. Scope(rendered)' = Scope(next) BY <1>2 DEF Scope
<1>6. /\ panel' \in [open : BOOLEAN, list : Scopes \cup {"none", "error"}, fetch : Scopes \cup {"none"}]
      /\ panel'.open = panel.open
      /\ panel.open => panel'.fetch \in {Scope(next), "none"}
      /\ panel.open /\ panel'.fetch = "none" => panel'.list \in {Scope(next), "error"}
  <2>1. CASE panel.open /\ Scope(next) # Scope(rendered)
    <3> DEFINE s1 == Scope(next)
    <3>1. panel' = [panel EXCEPT !.fetch = s1] /\ s1 \in Scopes BY <1>2, <1>4, <2>1
    <3> HIDE DEF s1
    <3>2. /\ panel' \in [open : BOOLEAN, list : Scopes \cup {"none", "error"}, fetch : Scopes \cup {"none"}]
          /\ panel'.open = panel.open /\ panel'.fetch = s1
      BY <1>1, <3>1 DEF FilterTypes
    <3> QED BY <1>4, <3>2 DEF s1
  <2>2. CASE ~panel.open
    <3>1. panel' = panel BY <1>2, <2>2
    <3> QED BY <1>1, <2>2, <3>1 DEF FilterTypes
  <2>3. CASE Scope(next) = Scope(rendered)
    <3>1. panel' = panel BY <1>2, <2>3
    <3> QED BY <1>1, <2>3, <3>1 DEF FilterTypes, FilterInv
  <2> QED BY <2>1, <2>2, <2>3
<1>7. next.maxPrice \in {0, 5} BY <1>3 DEF AllFilters
<1>8. /\ range' \in [text : {0, 5}, typing : BOOLEAN] /\ range'.typing = range.typing
      /\ range'.text = IF next.maxPrice # rendered.maxPrice /\ ~range.typing THEN next.maxPrice ELSE range.text
  BY <1>1, <1>2, <1>7 DEF FilterTypes
<1>9. FilterTypes' BY <1>1, <1>2, <1>3, <1>6, <1>8 DEF FilterTypes
<1>10. unmade' \in BOOLEAN /\ (~unmade' => ~unmade \/ next.models = {}) BY <1>1, <1>2
<1>11. FilterPanelTypeOK' BY <1>1, <1>2, <1>9, <1>10 DEF FilterPanelTypeOK, FilterTypes
<1>12. PageChosen(rendered)' /\ PageChosen(next)' BY <1>2 DEF FilterInv, PageChosen
<1>13. ~hurried' => Unhurried'
  <2> SUFFICES ASSUME ~hurried PROVE Unhurried' BY <1>2
  <2>1. Unhurried BY DEF FilterInv
  <2>2. ~unmade' => \A x \in next'.models : MadeBy[x] \in next'.makes
    BY <1>2, <1>10, <2>1 DEF Unhurried
  <2>3. panel'.open /\ ~range'.typing => range'.text = next.maxPrice
    BY <1>6, <1>8, <2>1 DEF Unhurried
  <2> QED BY <1>2, <2>2, <2>3 DEF Unhurried
<1> QED BY <1>2, <1>5, <1>6, <1>11, <1>12, <1>13 DEF FilterInv

LEMMA PanelKeeps ==
  ASSUME FilterInv, (\E ok \in BOOLEAN : MakesAnswered(ok)) \/ Drawer
  PROVE  FilterInv'
<1>1. FilterTypes /\ hurried \in BOOLEAN /\ unmade \in BOOLEAN BY TypesAre DEF FilterInv
<1>2. /\ UNCHANGED <<rendered, next, draft, unmade, paged>> /\ rendered \in AllFilters
  BY <1>1 DEF MakesAnswered, Drawer, FilterTypes
<1>3. Scope(rendered)' = Scope(rendered) /\ Scope(rendered) \in Scopes /\ "none" \notin Scopes
  BY <1>2, ScopeTyped DEF Scope, Scopes
<1>4. PageChosen(rendered)' /\ PageChosen(next)' BY <1>2 DEF FilterInv, PageChosen
<1>5. ASSUME NEW ok \in BOOLEAN, MakesAnswered(ok) PROVE FilterInv'
  <2>1. /\ panel.fetch # "none" /\ UNCHANGED <<range, hurried, panelClicks>>
        /\ panel' = [panel EXCEPT !.list = IF ok THEN panel.fetch ELSE "error", !.fetch = "none"]
    BY <1>5 DEF MakesAnswered
  <2>2. /\ panel' \in [open : BOOLEAN, list : Scopes \cup {"none", "error"}, fetch : Scopes \cup {"none"}]
        /\ panel'.open = panel.open /\ panel'.fetch = "none" /\ panel'.list \in {panel.fetch, "error"}
    BY <1>1, <2>1 DEF FilterTypes
  <2>3. FilterTypes' BY <1>1, <1>2, <2>1, <2>2 DEF FilterTypes
  <2>4. FilterPanelTypeOK' BY <1>1, <1>2, <2>1, <2>3 DEF FilterPanelTypeOK, FilterTypes
  <2>5. ~hurried' => Unhurried' BY <1>2, <2>1, <2>2 DEF FilterInv, Unhurried
  <2>6. panel'.open => panel'.list \in {Scope(rendered), "error"}
    BY <2>1, <2>2 DEF FilterInv
  <2> QED BY <1>2, <1>3, <1>4, <2>2, <2>4, <2>5, <2>6 DEF FilterInv
<1>6. CASE Drawer
  <2>1. /\ Clicked /\ range' = [text |-> rendered.maxPrice, typing |-> FALSE]
        /\ panel' = IF panel.open THEN PanelClosed ELSE PanelOpened(rendered)
    BY <1>6 DEF Drawer
  <2>2. /\ panelClicks' \in 0 .. MaxPanelClicks /\ hurried' \in BOOLEAN
        /\ ~hurried' => ~hurried /\ next = rendered
    BY <2>1, ClickCounts
  <2>3. /\ panel' \in [open : BOOLEAN, list : Scopes \cup {"none", "error"}, fetch : Scopes \cup {"none"}]
        /\ panel'.open => panel'.fetch = Scope(rendered)
    BY <1>3, <2>1 DEF PanelClosed, PanelOpened
  <2>4. range' \in [text : {0, 5}, typing : BOOLEAN] /\ range'.text = rendered.maxPrice
    BY <1>2, <2>1 DEF AllFilters
  <2>5. FilterTypes' BY <1>1, <1>2, <2>2, <2>3, <2>4 DEF FilterTypes
  <2>6. FilterPanelTypeOK' BY <1>1, <1>2, <2>2, <2>5 DEF FilterPanelTypeOK, FilterTypes
  <2>7. ~hurried' => Unhurried' BY <1>2, <2>2, <2>4 DEF FilterInv, Unhurried
  <2> QED BY <1>2, <1>3, <1>4, <2>3, <2>6, <2>7 DEF FilterInv
<1> QED BY <1>5, <1>6

LEMMA FiltersBegin == FilterPanelInit => FilterInv
<1> SUFFICES ASSUME FilterPanelInit PROVE FilterInv OBVIOUS
<1>1. /\ rendered = Unfiltered /\ next = Unfiltered /\ draft = Unfiltered /\ paged = Unfiltered
      /\ panel = PanelOpened(Unfiltered) /\ range = [text |-> 0, typing |-> FALSE]
      /\ hurried = FALSE /\ unmade = FALSE /\ panelClicks = 0
  BY DEF FilterPanelInit
<1>2. Scope(rendered) \in Scopes /\ "none" \notin Scopes BY <1>1, UnfilteredTyped, ScopeTyped DEF Scopes
<1>3. /\ panel \in [open : BOOLEAN, list : Scopes \cup {"none", "error"}, fetch : Scopes \cup {"none"}]
      /\ panel.fetch = Scope(rendered)
  BY <1>1, <1>2 DEF PanelOpened
<1>4. FilterPanelTypeOK
  <2>1. FilterTypes
    BY <1>1, <1>3, UnfilteredTyped, FilterPanelAssumption DEF FilterTypes
  <2>2. hurried \in BOOLEAN /\ unmade \in BOOLEAN BY <1>1
  <2> QED BY <2>1, <2>2, TypesAre
<1>5. PageChosen(rendered) /\ PageChosen(next) BY <1>1, UnfilteredTyped DEF PageChosen
<1>6. Unfiltered.maxPrice = 0 BY DEF Unfiltered
<1>7. Unhurried BY <1>1, <1>6, UnfilteredTyped DEF Unhurried
<1> QED BY <1>2, <1>3, <1>4, <1>5, <1>7 DEF FilterInv

LEMMA FiltersKept == FilterInv /\ [FilterPanelNext]_panelVars => FilterInv'
<1> SUFFICES ASSUME FilterInv, [FilterPanelNext]_panelVars PROVE FilterInv' OBVIOUS
<1>1. CASE UNCHANGED panelVars
  <2>1. UNCHANGED <<rendered, next, draft, panel, range, hurried, unmade, paged, panelClicks>>
    BY <1>1 DEF panelVars
  <2>2. Scope(rendered)' = Scope(rendered) BY <2>1 DEF Scope
  <2>3. FilterPanelTypeOK' BY <2>1 DEF FilterInv, FilterPanelTypeOK
  <2>4. PageChosen(rendered)' /\ PageChosen(next)' BY <2>1 DEF FilterInv, PageChosen
  <2>5. Unhurried' <=> Unhurried BY <2>1 DEF Unhurried
  <2> QED BY <2>1, <2>2, <2>3, <2>4, <2>5 DEF FilterInv
<1>2. CASE FilterPanelNext
  BY <1>2, BoxesKeep, PricesKeep, ChipsKeep, RenderKeeps, PanelKeeps DEF FilterPanelNext, FilterKeys
<1> QED BY <1>1, <1>2

(* Filters, sidebar and input are of their types.                          *)
THEOREM FilterPanelTyped == FilterPanelSpec => []FilterPanelTypeOK
<1>1. FilterInv => FilterPanelTypeOK BY DEF FilterInv
<1> QED BY <1>1, FiltersBegin, FiltersKept, PTL DEF FilterPanelSpec

(* However lists, typing and clicks interleave: the models searched for are*)
(* of the makes searched for, a page beyond the first is of its filters,   *)
(* the makes listed are those of the types, and the price in the input is  *)
(* the one applied.                                                        *)
THEOREM FiltersAreHeldTogether == FilterPanelSpec => []FiltersHoldTogether
<1>1. FilterInv => FiltersHoldTogether
  BY DEF FilterInv, Unhurried, PageChosen, Patch, FiltersHoldTogether
<1> QED BY <1>1, FiltersBegin, FiltersKept, PTL DEF FilterPanelSpec

----
(***************************************************************************)
(* A vehicle's page.                                                       *)
(***************************************************************************)
LEMMA VehiclesAre ==
  /\ VehicleIds = {"a", "b", "c"} /\ "none" \notin VehicleIds
  /\ \A v \in VehicleIds : Described[v].photos \in {0, 2, 3} /\ Described[v].created \in 1 .. 3
                           /\ Described[v].type = "car"
  /\ \A u, v \in VehicleIds : Described[u].created = Described[v].created => u = v
BY DEF VehicleIds, Described, Description

LEMMA PointsAreNatural == \A condition : \A points \in Nat : Points(condition, points) \in Nat
BY DEF Points

LEMMA ScoreIsNatural == ASSUME NEW v, NEW t PROVE Score(v, t) \in Nat
<1> DEFINE p1 == Points(v.model = t.model, 30)
           p2 == Points(v.make = t.make, 20)
           p3 == Points(v.type = t.type, 15)
           p4 == Points(PriceWithin(v, t, 15), 10)
           p5 == Points(Distance(v.year, t.year) <= 2, 5)
           p6 == Points(MileageWithin(v, t, 20), 5)
           p7 == Points(SameKnown(v, t, "fuel"), 5)
           p8 == Points(SameKnown(v, t, "transmission"), 5)
           p9 == Points(SameKnown(v, t, "city"), 5)
<1>1. p1 \in Nat /\ p2 \in Nat /\ p3 \in Nat /\ p4 \in Nat /\ p5 \in Nat BY PointsAreNatural
<1>2. p6 \in Nat /\ p7 \in Nat /\ p8 \in Nat /\ p9 \in Nat BY PointsAreNatural
<1>3. Score(v, t) = p1 + p2 + p3 + p4 + p5 + p6 + p7 + p8 + p9 BY DEF Score
<1> HIDE DEF p1, p2, p3, p4, p5, p6, p7, p8, p9
<1> QED BY <1>1, <1>2, <1>3

(* The order of the similar vehicles is a strict and total one.            *)
LEMMA BeforeIsAnOrder ==
  ASSUME NEW t \in VehicleIds
  PROVE  /\ \A u \in VehicleIds : ~Before(t, u, u)
         /\ \A u, v \in VehicleIds : u # v => Before(t, u, v) \/ Before(t, v, u)
<1> DEFINE score(w) == Score(Described[w], Described[t])
           newer(u, v) == Described[u].created > Described[v].created
<1>1. \A w : score(w) \in Nat BY ScoreIsNatural
<1>2. \A u, v : Before(t, u, v) <=> (score(u) > score(v) \/ (score(u) = score(v) /\ newer(u, v)))
  BY DEF Before
<1>3. \A u \in VehicleIds : ~newer(u, u) BY VehiclesAre
<1>4. \A u, v \in VehicleIds : u # v => newer(u, v) \/ newer(v, u) BY VehiclesAre
<1> HIDE DEF score, newer
<1> QED BY <1>1, <1>2, <1>3, <1>4

Near(t) == available \ {t}

LEMMA AllResemble ==
  ASSUME NEW t \in VehicleIds, available \subseteq VehicleIds
  PROVE  {v \in available \ {t} : Resembles(Described[v], Described[t])} = Near(t)
<1>1. \A v \in VehicleIds : Resembles(Described[v], Described[t]) BY VehiclesAre DEF Resembles
<1> QED BY <1>1 DEF Near

(* What is found: the near vehicles, each at one place, the best first.    *)
Ranked(t, s, n) ==
  /\ s \in [1 .. n -> Near(t)]
  /\ \A i, j \in 1 .. n : i < j => Before(t, s[i], s[j])
  /\ \A u \in Near(t) : \E k \in 1 .. n : s[k] = u

LEMMA NearIsSmall ==
  ASSUME NEW t \in VehicleIds, available \subseteq VehicleIds
  PROVE  \/ Near(t) = {}
         \/ \E x \in VehicleIds : Near(t) = {x}
         \/ \E x \in VehicleIds, y \in VehicleIds : x # y /\ Near(t) = {x, y}
<1>1. PICK x \in VehicleIds, y \in VehicleIds : x # y /\ Near(t) \subseteq {x, y}
  <2>1. CASE t = "a"
    <3>1. Near(t) \subseteq {"b", "c"} BY <2>1, VehiclesAre DEF Near
    <3> QED BY <3>1, VehiclesAre
  <2>2. CASE t = "b"
    <3>1. Near(t) \subseteq {"a", "c"} BY <2>2, VehiclesAre DEF Near
    <3> QED BY <3>1, VehiclesAre
  <2>3. CASE t = "c"
    <3>1. Near(t) \subseteq {"a", "b"} BY <2>3, VehiclesAre DEF Near
    <3> QED BY <3>1, VehiclesAre
  <2> QED BY <2>1, <2>2, <2>3, VehiclesAre
<1>2. CASE x \in Near(t) /\ y \in Near(t)
  <2>1. Near(t) = {x, y} BY <1>1, <1>2
  <2> QED BY <2>1, <1>1
<1>3. CASE x \in Near(t) /\ y \notin Near(t)
  <2>1. Near(t) = {x} BY <1>1, <1>3
  <2> QED BY <2>1
<1>4. CASE x \notin Near(t) /\ y \in Near(t)
  <2>1. Near(t) = {y} BY <1>1, <1>4
  <2> QED BY <2>1
<1>5. CASE x \notin Near(t) /\ y \notin Near(t)
  <2>1. Near(t) = {} BY <1>1, <1>5
  <2> QED BY <2>1
<1> QED BY <1>2, <1>3, <1>4, <1>5

LEMMA PairHasTwo == \A x, y : x # y => Cardinality({x, y}) = 2 /\ IsFiniteSet({x, y})
<1> TAKE x, y
<1> HAVE x # y
<1>1. IsFiniteSet({x}) /\ Cardinality({x}) = 1 BY FS_Singleton
<1>2. /\ IsFiniteSet({x} \cup {y})
      /\ Cardinality({x} \cup {y}) = IF y \in {x} THEN Cardinality({x}) ELSE Cardinality({x}) + 1
  BY <1>1, FS_AddElement
<1>3. {x} \cup {y} = {x, y} OBVIOUS
<1> QED BY <1>1, <1>2, <1>3

LEMMA FoundIsRanked ==
  ASSUME NEW t \in VehicleIds, available \subseteq VehicleIds,
         NEW found, found = CHOOSE s \in [1 .. Cardinality(Near(t)) -> Near(t)] :
                              \A i, j \in DOMAIN s : i < j => Before(t, s[i], s[j])
  PROVE  Cardinality(Near(t)) \in 0 .. 2 /\ Ranked(t, found, Cardinality(Near(t)))
<1> DEFINE n == Cardinality(Near(t))
           InOrder(s) == \A i, j \in DOMAIN s : i < j => Before(t, s[i], s[j])
<1>1. CASE Near(t) = {}
  <2>1. n = 0 BY <1>1, FS_EmptySet
  <2>2. [i \in 1 .. 0 |-> "none"] \in [1 .. n -> Near(t)] /\ InOrder([i \in 1 .. 0 |-> "none"])
    BY <2>1
  <2>3. found \in [1 .. n -> Near(t)] /\ InOrder(found) BY <2>2
  <2> QED BY <2>1, <2>3, <1>1 DEF Ranked
<1>2. ASSUME NEW x \in VehicleIds, Near(t) = {x}
      PROVE  n \in 0 .. 2 /\ Ranked(t, found, n)
  <2>1. n = 1 BY <1>2, FS_Singleton
  <2>2. [i \in 1 .. 1 |-> x] \in [1 .. n -> Near(t)] /\ InOrder([i \in 1 .. 1 |-> x])
    BY <2>1, <1>2
  <2>3. found \in [1 .. n -> Near(t)] /\ InOrder(found) BY <2>2
  <2>4. found[1] = x BY <2>1, <2>3, <1>2
  <2> QED BY <2>1, <2>3, <2>4, <1>2 DEF Ranked
<1>3. ASSUME NEW x \in VehicleIds, NEW y \in VehicleIds, x # y, Near(t) = {x, y}, Before(t, x, y)
      PROVE  n \in 0 .. 2 /\ Ranked(t, found, n)
  <2> DEFINE both == [i \in 1 .. 2 |-> IF i = 1 THEN x ELSE y]
  <2>1. n = 2
    <3>1. Cardinality({x, y}) = 2 BY <1>3, PairHasTwo
    <3> QED BY <3>1, <1>3
  <2>2. both \in [1 .. n -> Near(t)] /\ InOrder(both)
    <3> HIDE DEF n
    <3>1. both \in [1 .. 2 -> {x, y}] BY <1>3
    <3>2. InOrder(both) BY <1>3, <3>1
    <3> QED BY <2>1, <3>1, <3>2, <1>3
  <2> HIDE DEF both
  <2>3. found \in [1 .. n -> Near(t)] /\ InOrder(found) BY <2>2
  <2>4. found[1] \in {x, y} /\ found[2] \in {x, y} /\ Before(t, found[1], found[2])
    BY <2>1, <2>3, <1>3
  <2>5. found[1] # found[2] BY <2>4, BeforeIsAnOrder
  <2>6. \A u \in Near(t) : \E k \in 1 .. 2 : found[k] = u BY <2>4, <2>5, <1>3
  <2> QED BY <2>1, <2>3, <2>6 DEF Ranked
<1>4. ASSUME NEW x \in VehicleIds, NEW y \in VehicleIds, x # y, Near(t) = {x, y}
      PROVE  n \in 0 .. 2 /\ Ranked(t, found, n)
  <2>1. Before(t, x, y) \/ Before(t, y, x) BY <1>4, BeforeIsAnOrder
  <2>2. Near(t) = {y, x} BY <1>4
  <2> QED BY <2>1, <2>2, <1>3, <1>4
<1> QED BY <1>1, <1>2, <1>4, NearIsSmall

(* The list of similar vehicles: not the vehicle itself, on offer, the best*)
(* first and none left out for a worse one.                                *)
ListIsRight(t, ranked, among) ==
  LET onList == ToSet(ranked) IN
    /\ Cardinality(onList) = Len(ranked)
    /\ onList \subseteq among \ {t}
    /\ \A i \in DOMAIN ranked, j \in DOMAIN ranked : i < j => Before(t, ranked[i], ranked[j])
    /\ \A u \in among \ (onList \cup {t}) :
         /\ Len(ranked) = RecLimit
         /\ \A v \in onList : Before(t, v, u)

LEMMA SimilarAreRight ==
  ASSUME NEW t \in VehicleIds, available \subseteq VehicleIds
  PROVE  FindSimilar(t) \in Seq(VehicleIds) /\ ListIsRight(t, FindSimilar(t), available)
<1> DEFINE n == Cardinality(Near(t))
           found == CHOOSE s \in [1 .. Cardinality(Near(t)) -> Near(t)] :
                      \A i, j \in DOMAIN s : i < j => Before(t, s[i], s[j])
           m == IF n < RecLimit THEN n ELSE RecLimit
           ranked == SubSeq(found, 1, m)
<1>1. n \in 0 .. 2 /\ Ranked(t, found, n) BY FoundIsRanked
<1>2. Near(t) \subseteq VehicleIds BY DEF Near
<1>3. Len(found) = n
  <2> HIDE DEF n, found
  <2> QED BY <1>1 DEF Ranked
<1>4. FindSimilar(t) = ranked BY <1>3, AllResemble DEF FindSimilar
<1>5. m \in 0 .. 2 /\ m <= n /\ (m < n => m = RecLimit)
  <2> HIDE DEF n
  <2> QED BY <1>1, VehiclePageAssumption
<1> HIDE DEF n, found, m
<1>6. \A i \in 1 .. m : found[i] \in VehicleIds BY <1>1, <1>2, <1>5 DEF Ranked
<1>7. ranked \in Seq(VehicleIds) /\ Len(ranked) = m /\ \A i \in 1 .. m : ranked[i] = found[i]
  <2>1. /\ ranked \in Seq(VehicleIds)
        /\ Len(ranked) = IF 1 <= m THEN m - 1 + 1 ELSE 0
        /\ \A i \in 1 .. m - 1 + 1 : ranked[i] = found[1 + i - 1]
    BY <1>5, <1>6, SubSeqProperties
  <2> HIDE DEF ranked
  <2> QED BY <2>1, <1>5
<1> HIDE DEF ranked
<1>8. DOMAIN ranked = 1 .. m BY <1>7
<1>9. ToSet(ranked) = {ranked[i] : i \in 1 .. m} BY <1>8 DEF ToSet
<1>10. \A i, j \in 1 .. m : i < j => Before(t, ranked[i], ranked[j]) BY <1>1, <1>5, <1>7 DEF Ranked
<1>11. Cardinality(ToSet(ranked)) = m
  <2>1. CASE m = 0 BY <2>1, <1>9, FS_EmptySet
  <2>2. CASE m = 1
    <3>1. ToSet(ranked) = {ranked[1]} BY <2>2, <1>9
    <3> QED BY <3>1, <2>2, FS_Singleton
  <2>3. CASE m = 2
    <3>1. ToSet(ranked) = {ranked[1], ranked[2]} BY <2>3, <1>9
    <3>2. Before(t, ranked[1], ranked[2]) /\ ranked[1] \in VehicleIds BY <2>3, <1>10, <1>6, <1>7
    <3>3. ranked[1] # ranked[2] BY <3>2, BeforeIsAnOrder
    <3> QED BY <3>1, <3>3, <2>3, PairHasTwo
  <2> QED BY <2>1, <2>2, <2>3, <1>5
<1>12. ToSet(ranked) \subseteq Near(t) BY <1>9, <1>7, <1>1, <1>5 DEF Ranked
<1>13. ASSUME NEW u \in Near(t), u \notin ToSet(ranked)
       PROVE  m = RecLimit /\ \A v \in ToSet(ranked) : Before(t, v, u)
  <2>1. PICK k \in 1 .. n : found[k] = u BY <1>1 DEF Ranked
  <2>2. k \notin 1 .. m BY <2>1, <1>7, <1>9, <1>13
  <2>3. m < k BY <2>1, <2>2, <1>1, <1>5
  <2>4. \A i \in 1 .. m : Before(t, found[i], u) BY <2>1, <2>3, <1>1, <1>5 DEF Ranked
  <2>5. m = RecLimit BY <2>3, <2>1, <1>1, <1>5
  <2> QED BY <2>4, <2>5, <1>7, <1>9
<1>14. ListIsRight(t, ranked, available)
  BY <1>7, <1>8, <1>10, <1>11, <1>12, <1>13 DEF ListIsRight, Near
<1> QED BY <1>4, <1>7, <1>14

----
(* The page: what it shows is a vehicle there is, and links to photos were *)
(* good for longer than the margin when they were handed out.              *)
Longest == IF Margin < PresignExpiry THEN Margin ELSE PresignExpiry - 1

IsPage(next1) ==
  /\ next1 \in [view : Views, id : VehicleIds \cup {"none"}, since : 0 .. MaxAge, until : 0 .. Forever]
  /\ next1.view = "vehicle" => next1.id \in VehicleIds
  /\ next1.until > 0 =>
       /\ next1.id \in VehicleIds /\ Described[next1.id].photos > 0
       /\ next1.until - next1.since > Longest

PageIsRight == IsPage(shown) /\ photo \in Nat

VisitTyped ==
  /\ available \subseteq VehicleIds /\ {route, pageOf} \subseteq VehicleIds
  /\ fetches \subseteq [id : VehicleIds, number : 1 .. MaxFetches, aborted : BOOLEAN]
  /\ fetched \in 1 .. MaxFetches /\ moves \in 0 .. MaxMoves
  /\ mode \in Modes /\ age \in 0 .. MaxAge

(* A link still handed out has the margin left after that.                 *)
LinksAreKept ==
  /\ signed \in [VehicleIds -> [until : 0 .. Forever, kept : 0 .. Forever]]
  /\ \A v \in VehicleIds : signed[v].kept > age =>
       signed[v].until - signed[v].kept = PresignExpiry - UsableSeconds

(* The only answer that is still wanted is that of the page mounted.       *)
AnswersAreWanted ==
  /\ \A f \in fetches : ~f.aborted => f.id = pageOf
  /\ (\A f \in fetches : f.aborted) =>
        shown.view \in {"notFound", "error"} \/ (shown.view = "vehicle" /\ shown.id = pageOf)

Sections == [of : VehicleIds \cup {"none"}, list : Seq(VehicleIds),
             state : {"loading", "listed", "failed"}, among : SUBSET VehicleIds]

SectionIsRight ==
  /\ similar \in Sections
  /\ shown.view = "vehicle" <=> similar.of # "none"
  /\ similar.of # "none" => similar.of = shown.id
  /\ similar.state = "listed" => ListIsRight(similar.of, similar.list, similar.among)

VehicleInv == VisitTyped /\ LinksAreKept /\ PageIsRight /\ AnswersAreWanted /\ SectionIsRight

LEMMA VehicleInvHolds == VehicleInv => VehiclePageTypeOK /\ VehiclePageIsTrue
<1> SUFFICES ASSUME VehicleInv PROVE VehiclePageTypeOK /\ VehiclePageIsTrue OBVIOUS
<1>1. VehiclePageTypeOK
  <2>1. /\ similar.of \in VehicleIds \cup {"none"} /\ similar.state \in {"loading", "listed", "failed"}
        /\ similar.list \in Seq(VehicleIds) /\ similar.among \subseteq VehicleIds
    BY DEF VehicleInv, SectionIsRight, Sections
  <2> QED BY <2>1 DEF VehicleInv, VisitTyped, LinksAreKept, PageIsRight, IsPage, VehiclePageTypeOK
<1>2. PhotosShown > 0 => CurrentPhoto \in 0 .. (PhotosShown - 1)
  <2>1. PhotosShown \in {0, 2, 3}
    BY VehiclesAre DEF VehicleInv, PageIsRight, IsPage, PhotosShown
  <2>2. photo \in Nat BY DEF VehicleInv, PageIsRight
  <2> QED BY <2>1, <2>2 DEF CurrentPhoto
<1>3. shown.until > 0 =>
        shown.until - shown.since > (IF Margin < PresignExpiry THEN Margin ELSE PresignExpiry - 1)
  BY DEF VehicleInv, PageIsRight, IsPage, Longest
<1>4. similar.state = "listed" => ListIsRight(similar.of, similar.list, similar.among)
  BY DEF VehicleInv, SectionIsRight
<1>5. /\ pageOf = route /\ (\A f \in fetches : f.aborted) =>
            shown.view \in {"notFound", "error"} \/ (shown.view = "vehicle" /\ shown.id = route)
      /\ shown.view = "vehicle" <=> similar.of # "none"
      /\ similar.of # "none" => similar.of = shown.id
  BY DEF VehicleInv, SectionIsRight, AnswersAreWanted
<1> HIDE DEF VehicleInv
<1> QED BY <1>1, <1>2, <1>3, <1>4, <1>5 DEF VehiclePageIsTrue, ListIsRight

LEMMA LinksAssumed ==
  /\ MaxAge \in Nat /\ PresignExpiry \in Nat \ {0} /\ Margin \in Nat /\ MaxFetches \in Nat \ {0}
  /\ MaxMoves \in Nat /\ RecLimit \in Nat
  /\ Forever = MaxAge + PresignExpiry /\ Forever \in Nat
  /\ UsableSeconds \in 1 .. PresignExpiry /\ PresignExpiry - UsableSeconds >= Longest
  /\ PresignExpiry > Longest /\ Longest \in Nat
BY VehiclePageAssumption DEF Forever, UsableSeconds, Longest

LEMMA NothingIsAPage == IsPage(NothingShown) /\ NothingShown.until = 0 /\ NothingShown.view = "loading"
BY LinksAssumed DEF IsPage, NothingShown, Views

LEMMA VehicleBegins == VehiclePageInit => VehicleInv
<1> SUFFICES ASSUME VehiclePageInit PROVE VehicleInv OBVIOUS
<1>1. VisitTyped
  <2>1. fetches \subseteq [id : VehicleIds, number : 1 .. MaxFetches, aborted : BOOLEAN]
    BY LinksAssumed DEF VehiclePageInit
  <2> QED BY <2>1, LinksAssumed DEF VehiclePageInit, VisitTyped
<1>2. LinksAreKept BY LinksAssumed DEF VehiclePageInit, LinksAreKept
<1>3. PageIsRight BY NothingIsAPage DEF VehiclePageInit, PageIsRight
<1>4. AnswersAreWanted BY DEF VehiclePageInit, AnswersAreWanted
<1>5. SectionIsRight
  BY NothingIsAPage DEF VehiclePageInit, SectionIsRight, Sections, NoSection
<1> QED BY <1>1, <1>2, <1>3, <1>4, <1>5 DEF VehicleInv

(* Links handed out, from the cache or signed anew, are good for long.     *)
LEMMA ResolvedAreGood ==
  ASSUME VehicleInv, NEW v \in VehicleIds, NEW until1 \in 0 .. Forever, Resolved(v, until1),
         age' = age
  PROVE  LinksAreKept' /\ (until1 > 0 => Described[v].photos > 0 /\ until1 - age > Longest)
<1>1. mode \in Modes /\ age \in 0 .. MaxAge BY DEF VehicleInv, VisitTyped
<1>2. LinksAreKept BY DEF VehicleInv
<1>3. signed[v].until \in Nat /\ signed[v].kept \in Nat BY <1>2 DEF LinksAreKept
<1>4. Described[v].photos \in {0, 2, 3} BY VehiclesAre
<1>5. UNCHANGED signed => LinksAreKept' BY <1>2 DEF LinksAreKept, UsableSeconds
<1>6. CASE (mode = "demo" \/ Described[v].photos = 0) /\ until1 = 0 /\ UNCHANGED signed
  BY <1>6, <1>5
<1>7. CASE mode = "local" /\ Described[v].photos > 0 /\ until1 = Forever /\ UNCHANGED signed
  BY <1>5, <1>7, <1>1, LinksAssumed
<1>8. CASE /\ mode = "s3" /\ Described[v].photos > 0 /\ signed[v].kept > age
           /\ until1 = signed[v].until /\ UNCHANGED signed
  <2>1. signed[v].until - signed[v].kept = PresignExpiry - UsableSeconds BY <1>8, <1>2 DEF LinksAreKept
  <2> QED BY <2>1, <1>5, <1>8, <1>1, <1>3, LinksAssumed
<1>9. CASE /\ mode = "s3" /\ Described[v].photos > 0 /\ signed[v].kept <= age
           /\ \/ until1 = Sign.until /\ signed' = [signed EXCEPT ![v] = Sign]
              \/ until1 = 0 /\ UNCHANGED signed
  <2>2. CASE until1 = 0 /\ UNCHANGED signed BY <2>2, <1>5
  <2>3. CASE until1 = Sign.until /\ signed' = [signed EXCEPT ![v] = Sign]
    <3>1. /\ Sign.until = age + PresignExpiry /\ Sign.kept = age + UsableSeconds
          /\ Sign \in [until : 0 .. Forever, kept : 0 .. Forever]
      BY <1>1, LinksAssumed DEF Sign
    <3>2. \A w \in VehicleIds : signed'[w] = IF w = v THEN Sign ELSE signed[w]
      BY <2>3, <1>2 DEF LinksAreKept
    <3>3. signed' \in [VehicleIds -> [until : 0 .. Forever, kept : 0 .. Forever]]
      BY <2>3, <3>1, <1>2 DEF LinksAreKept
    <3>4. \A w \in VehicleIds : signed'[w].kept > age =>
            signed'[w].until - signed'[w].kept = PresignExpiry - UsableSeconds
      BY <3>1, <3>2, <1>1, <1>2, LinksAssumed DEF LinksAreKept
    <3>5. UsableSeconds' = UsableSeconds BY DEF UsableSeconds
    <3>6. LinksAreKept' BY <3>3, <3>4, <3>5 DEF LinksAreKept
    <3>7. until1 - age = PresignExpiry BY <2>3, <3>1, <1>1, LinksAssumed
    <3> QED BY <3>6, <3>7, <1>9, LinksAssumed
  <2> QED BY <1>9, <2>2, <2>3
<1> QED BY <1>6, <1>7, <1>8, <1>9 DEF Resolved

(* Whatever page follows, its section is that of the vehicle it shows.     *)
LEMMA ShowKeeps ==
  ASSUME VehicleInv, NEW next1, IsPage(next1), Show(next1)
  PROVE  PageIsRight' /\ SectionIsRight' /\ shown' = next1
<1>1. shown' = next1 BY DEF Show
<1>2. PageIsRight'
  <2>1. photo' \in Nat BY DEF Show
  <2>2. IsPage(shown)' BY <1>1 DEF IsPage, Longest, Forever
  <2> QED BY <2>1, <2>2 DEF PageIsRight
<1>3. SectionIsRight'
  <2>1. CASE next1.view # "vehicle"
    <3>1. similar' = NoSection BY <2>1 DEF Show
    <3>2. NoSection \in Sections /\ NoSection.of = "none" /\ NoSection.state = "loading"
      BY DEF NoSection, Sections
    <3> QED BY <3>1, <3>2, <1>1, <2>1 DEF SectionIsRight
  <2>2. CASE next1.view = "vehicle"
    <3>1. similar' = [NoSection EXCEPT !.of = next1.id] BY <2>2 DEF Show
    <3>2. next1.id \in VehicleIds BY <2>2 DEF IsPage
    <3>3. similar' = [of |-> next1.id, list |-> <<>>, state |-> "loading", among |-> {}]
      BY <3>1 DEF NoSection
    <3>4. <<>> \in Seq(VehicleIds) OBVIOUS
    <3>5. similar' \in Sections /\ similar'.of = next1.id /\ similar'.state = "loading"
      BY <3>2, <3>3, <3>4 DEF Sections
    <3>6. next1.id # "none" BY <3>2, VehiclesAre
    <3>7. shown'.view = "vehicle" /\ shown'.id = next1.id BY <1>1, <2>2
    <3> HIDE DEF Sections
    <3> QED BY <3>5, <3>6, <3>7 DEF SectionIsRight
  <2> QED BY <2>1, <2>2
<1> QED BY <1>1, <1>2, <1>3

(* Steps that change neither what is shown nor the links.                  *)
LEMMA PageStays ==
  ASSUME VehicleInv, UNCHANGED <<shown, similar>>, photo' \in Nat
  PROVE  PageIsRight' /\ SectionIsRight'
BY DEF VehicleInv, PageIsRight, SectionIsRight, IsPage, Longest, Forever

LEMMA LinksStay == VehicleInv /\ UNCHANGED <<signed, age>> => LinksAreKept'
BY DEF VehicleInv, LinksAreKept, UsableSeconds

LEMMA OpenVehicleKeeps ==
  ASSUME VehicleInv, NEW id1 \in VehicleIds, OpenVehicle(id1)
  PROVE  VehicleInv'
<1>1. /\ route' = id1
      /\ UNCHANGED <<available, pageOf, fetches, shown, photo, similar, fetched, moves, photoLinkVars>>
  BY DEF OpenVehicle
<1>2. VisitTyped' BY <1>1 DEF VehicleInv, VisitTyped, photoLinkVars
<1>3. AnswersAreWanted' BY <1>1 DEF VehicleInv, AnswersAreWanted
<1>4. PageIsRight' /\ SectionIsRight'
  <2>1. photo' \in Nat BY <1>1 DEF VehicleInv, PageIsRight
  <2> QED BY <2>1, <1>1, PageStays
<1>5. LinksAreKept' BY <1>1, LinksStay DEF photoLinkVars
<1> QED BY <1>2, <1>3, <1>4, <1>5 DEF VehicleInv

LEMMA MountPageKeeps ==
  ASSUME VehicleInv, NEW late1 \in BOOLEAN, MountPage(late1)
  PROVE  VehicleInv'
<1> DEFINE new1 == [id |-> route, number |-> fetched + 1, aborted |-> FALSE]
           old1 == IF late1 THEN {[f EXCEPT !.aborted = TRUE] : f \in fetches} ELSE {}
<1>1. fetches' = {new1} \cup old1 BY DEF MountPage
<1>2. fetched' = fetched + 1 /\ fetched' \in 1 .. MaxFetches
  BY LinksAssumed DEF MountPage, VehicleInv, VisitTyped
<1>3. new1 \in [id : VehicleIds, number : 1 .. MaxFetches, aborted : BOOLEAN]
  BY <1>2 DEF VehicleInv, VisitTyped
<1>4. \A f \in old1 : f.aborted /\ f \in [id : VehicleIds, number : 1 .. MaxFetches, aborted : BOOLEAN]
  BY DEF VehicleInv, VisitTyped
<1>5. ~new1.aborted /\ new1.id = route OBVIOUS
<1> HIDE DEF new1, old1
<1>6. /\ pageOf' = route /\ UNCHANGED <<available, route, moves, photoLinkVars>>
      /\ shown' = NothingShown /\ photo' = 0 /\ similar' = NoSection
  BY DEF MountPage
<1>7. VisitTyped' BY <1>1, <1>2, <1>3, <1>4, <1>6 DEF VehicleInv, VisitTyped, photoLinkVars
<1>8. AnswersAreWanted' BY <1>1, <1>4, <1>5, <1>6 DEF AnswersAreWanted
<1>9. PageIsRight'
  <2>1. IsPage(shown)' BY <1>6, NothingIsAPage DEF IsPage, Longest, Forever
  <2> QED BY <2>1, <1>6 DEF PageIsRight
<1>10. SectionIsRight'
  <2>1. NoSection \in Sections /\ NoSection.of = "none" /\ NoSection.state = "loading"
    BY DEF NoSection, Sections
  <2> QED BY <2>1, <1>6, NothingIsAPage DEF SectionIsRight
<1>11. LinksAreKept' BY <1>6, LinksStay DEF photoLinkVars
<1> QED BY <1>7, <1>8, <1>9, <1>10, <1>11 DEF VehicleInv

LEMMA AnswerKeepsVisit ==
  ASSUME VehicleInv, NEW f \in fetches, fetches' = fetches \ {f},
         UNCHANGED <<available, route, pageOf, fetched, moves, mode, age>>
  PROVE  VisitTyped' /\ \A e \in fetches' : ~e.aborted => e.id = pageOf'
BY DEF VehicleInv, VisitTyped, AnswersAreWanted

LEMMA FoundByIdKeeps ==
  ASSUME VehicleInv, NEW id1 \in VehicleIds, FoundById(id1), age' = age
  PROVE  /\ LinksAreKept' /\ PageIsRight' /\ SectionIsRight'
         /\ shown'.view = "notFound" \/ (shown'.view = "vehicle" /\ shown'.id = id1)
<1>1. CASE /\ id1 \in available
           /\ \E until1 \in 0 .. Forever :
                /\ Resolved(id1, until1)
                /\ Show([view |-> "vehicle", id |-> id1, since |-> age, until |-> until1])
  <2>1. PICK until1 \in 0 .. Forever :
           /\ Resolved(id1, until1)
           /\ Show([view |-> "vehicle", id |-> id1, since |-> age, until |-> until1])
    BY <1>1
  <2> DEFINE next1 == [view |-> "vehicle", id |-> id1, since |-> age, until |-> until1]
  <2>2. LinksAreKept' /\ (until1 > 0 => Described[id1].photos > 0 /\ until1 - age > Longest)
    BY <2>1, ResolvedAreGood
  <2>3. age \in 0 .. MaxAge BY DEF VehicleInv, VisitTyped
  <2>4. IsPage(next1) /\ next1.view = "vehicle" /\ next1.id = id1 BY <2>2, <2>3 DEF IsPage, Views
  <2>5. Show(next1) BY <2>1
  <2> HIDE DEF next1
  <2> QED BY <2>2, <2>4, <2>5, ShowKeeps
<1>2. CASE id1 \notin available /\ Show([NothingShown EXCEPT !.view = "notFound"]) /\ UNCHANGED signed
  <2> DEFINE next1 == [NothingShown EXCEPT !.view = "notFound"]
  <2>1. IsPage(next1) /\ next1.view = "notFound" BY LinksAssumed DEF IsPage, Views, NothingShown
  <2>2. Show(next1) BY <1>2
  <2> HIDE DEF next1
  <2> QED BY <1>2, <2>1, <2>2, ShowKeeps, LinksStay
<1> QED BY <1>1, <1>2 DEF FoundById

LEMMA VehicleAnsweredKeeps ==
  ASSUME VehicleInv, NEW f \in fetches, VehicleAnswered(f)
  PROVE  VehicleInv'
<1>1. /\ fetches' = fetches \ {f} /\ UNCHANGED <<available, route, pageOf, fetched, moves, mode, age>>
  BY DEF VehicleAnswered
<1>2. VisitTyped' /\ \A e \in fetches' : ~e.aborted => e.id = pageOf' BY <1>1, AnswerKeepsVisit
<1>3. f.id \in VehicleIds BY DEF VehicleInv, VisitTyped
<1>4. CASE ~f.aborted
  <2>1. FoundById(f.id) BY <1>4 DEF VehicleAnswered
  <2>2. /\ LinksAreKept' /\ PageIsRight' /\ SectionIsRight'
        /\ shown'.view = "notFound" \/ (shown'.view = "vehicle" /\ shown'.id = f.id)
    BY <2>1, <1>1, <1>3, FoundByIdKeeps
  <2>3. f.id = pageOf BY <1>4 DEF VehicleInv, AnswersAreWanted
  <2>4. AnswersAreWanted' BY <1>1, <1>2, <2>2, <2>3 DEF AnswersAreWanted
  <2> QED BY <1>2, <2>2, <2>4 DEF VehicleInv
<1>5. CASE f.aborted
  <2>1. /\ UNCHANGED <<shown, photo, similar>>
        /\ IF f.id \in available THEN \E until1 \in 0 .. Forever : Resolved(f.id, until1)
           ELSE UNCHANGED signed
    BY <1>5 DEF VehicleAnswered
  <2>2. PageIsRight' /\ SectionIsRight'
    <3>1. photo' \in Nat BY <2>1 DEF VehicleInv, PageIsRight
    <3> QED BY <3>1, <2>1, PageStays
  <2>3. LinksAreKept'
    <3>1. CASE f.id \in available
      <4>1. PICK until1 \in 0 .. Forever : Resolved(f.id, until1) BY <3>1, <2>1
      <4> QED BY <4>1, <1>1, <1>3, ResolvedAreGood
    <3>2. CASE f.id \notin available BY <3>2, <2>1, <1>1, LinksStay
    <3> QED BY <3>1, <3>2
  <2>4. AnswersAreWanted' BY <1>1, <1>2, <1>5, <2>1 DEF AnswersAreWanted, VehicleInv
  <2> QED BY <1>2, <2>2, <2>3, <2>4 DEF VehicleInv
<1> QED BY <1>4, <1>5

LEMMA VehicleFailedKeeps ==
  ASSUME VehicleInv, NEW f \in fetches, VehicleFailed(f)
  PROVE  VehicleInv'
<1>1. /\ fetches' = fetches \ {f} /\ UNCHANGED <<available, route, pageOf, fetched, moves, mode, age, signed>>
  BY DEF VehicleFailed, photoLinkVars
<1>2. VisitTyped' /\ \A e \in fetches' : ~e.aborted => e.id = pageOf' BY <1>1, AnswerKeepsVisit
<1>3. LinksAreKept' BY <1>1, LinksStay
<1>4. CASE f.aborted
  <2>1. UNCHANGED <<shown, photo, similar>> BY <1>4 DEF VehicleFailed
  <2>2. PageIsRight' /\ SectionIsRight'
    <3>1. photo' \in Nat BY <2>1 DEF VehicleInv, PageIsRight
    <3> QED BY <3>1, <2>1, PageStays
  <2>3. AnswersAreWanted' BY <1>1, <1>2, <1>4, <2>1 DEF AnswersAreWanted, VehicleInv
  <2> QED BY <1>2, <1>3, <2>2, <2>3 DEF VehicleInv
<1>5. CASE ~f.aborted
  <2> DEFINE next1 == [NothingShown EXCEPT !.view = "error"]
  <2>1. IsPage(next1) /\ next1.view = "error" BY LinksAssumed DEF IsPage, Views, NothingShown
  <2>2. Show(next1) BY <1>5 DEF VehicleFailed
  <2> HIDE DEF next1
  <2>3. PageIsRight' /\ SectionIsRight' /\ shown' = next1 BY <2>1, <2>2, ShowKeeps
  <2>4. AnswersAreWanted' BY <1>2, <2>1, <2>3 DEF AnswersAreWanted
  <2> QED BY <1>2, <1>3, <2>3, <2>4 DEF VehicleInv
<1> QED BY <1>4, <1>5

(* The visit goes on as it was.                                            *)
LEMMA VisitStays ==
  ASSUME VehicleInv,
         UNCHANGED <<available, route, pageOf, fetches, shown, fetched, moves, photoLinkVars>>
  PROVE  VisitTyped' /\ LinksAreKept' /\ AnswersAreWanted'
<1>1. VisitTyped' BY DEF VehicleInv, VisitTyped, photoLinkVars
<1>2. LinksAreKept' BY LinksStay DEF photoLinkVars
<1>3. AnswersAreWanted' BY DEF VehicleInv, AnswersAreWanted
<1> QED BY <1>1, <1>2, <1>3

LEMMA SimilarKeep == VehicleInv /\ (SimilarAnswered \/ SimilarFailed) => VehicleInv'
<1> SUFFICES ASSUME VehicleInv, SimilarAnswered \/ SimilarFailed PROVE VehicleInv' OBVIOUS
<1>1. UNCHANGED <<available, route, pageOf, fetches, shown, photo, fetched, moves, photoLinkVars>>
  BY DEF SimilarAnswered, SimilarFailed
<1>2. VisitTyped' /\ LinksAreKept' /\ AnswersAreWanted' BY <1>1, VisitStays
<1>3. PageIsRight' BY <1>1 DEF VehicleInv, PageIsRight, IsPage, Longest, Forever
<1>4. SectionIsRight BY DEF VehicleInv
<1>5. similar.of \in VehicleIds BY <1>4 DEF SimilarAnswered, SimilarFailed, SectionIsRight, Sections
<1>6. available \subseteq VehicleIds BY DEF VehicleInv, VisitTyped
<1>7. CASE SimilarAnswered
  <2> DEFINE rows1 == FindSimilar(similar.of)
  <2>1. rows1 \in Seq(VehicleIds) /\ ListIsRight(similar.of, rows1, available)
    BY <1>5, <1>6, SimilarAreRight
  <2>2. similar' = [similar EXCEPT !.list = rows1, !.state = "listed", !.among = available]
    BY <1>7 DEF SimilarAnswered
  <2> HIDE DEF rows1
  <2>3. /\ similar' \in Sections /\ similar'.of = similar.of /\ similar'.list = rows1
        /\ similar'.among = available
    BY <2>1, <2>2, <1>4, <1>6 DEF SectionIsRight, Sections
  <2> QED BY <2>1, <2>3, <1>1, <1>2, <1>3, <1>4 DEF VehicleInv, SectionIsRight, ListIsRight
<1>8. CASE SimilarFailed
  <2>1. similar' = [similar EXCEPT !.state = "failed"] BY <1>8 DEF SimilarFailed
  <2>2. similar' \in Sections /\ similar'.of = similar.of /\ similar'.state = "failed"
    BY <2>1, <1>4 DEF SectionIsRight, Sections
  <2> QED BY <2>2, <1>1, <1>2, <1>3, <1>4 DEF VehicleInv, SectionIsRight
<1> QED BY <1>7, <1>8

LEMMA GalleryKeeps == VehicleInv /\ PhotosShown > 1 /\ Gallery => VehicleInv'
<1> SUFFICES ASSUME VehicleInv, PhotosShown > 1, Gallery PROVE VehicleInv' OBVIOUS
<1>1. PhotosShown \in {0, 2, 3}
  BY VehiclesAre DEF VehicleInv, PageIsRight, IsPage, PhotosShown
<1>2. CurrentPhoto \in 0 .. (PhotosShown - 1) BY <1>1, VehicleInvHolds DEF VehiclePageIsTrue
<1>3. PICK next1 \in Nat : GoTo(next1)
  <2> DEFINE p == PhotosShown
             c == CurrentPhoto
  <2>1. ((c + 1) % p) \in Nat /\ ((c - 1 + p) % p) \in Nat
    <3>1. p \in {2, 3} /\ c \in 0 .. (p - 1) BY <1>1, <1>2
    <3> HIDE DEF p, c
    <3>2. CASE p = 2 BY <3>1, <3>2
    <3>3. CASE p = 3 BY <3>1, <3>3
    <3> QED BY <3>1, <3>2, <3>3
  <2>2. CASE GoTo((c + 1) % p) BY <2>1, <2>2
  <2>3. CASE GoTo((c - 1 + p) % p) BY <2>1, <2>3
  <2>4. CASE \E i \in 0 .. (p - 1) : GoTo(i) BY <2>4, <1>1
  <2> QED BY <2>2, <2>3, <2>4 DEF Gallery
<1>4. photo' = next1 /\ UNCHANGED <<available, route, pageOf, fetches, shown, similar, fetched, moves, photoLinkVars>>
  BY <1>3 DEF GoTo
<1>5. VisitTyped' /\ LinksAreKept' /\ AnswersAreWanted' BY <1>4, VisitStays
<1>6. PageIsRight' /\ SectionIsRight' BY <1>4, PageStays
<1> QED BY <1>5, <1>6 DEF VehicleInv

LEMMA WorldMovesKeep ==
  ASSUME VehicleInv, (\E v \in VehicleIds : Moved(v)) \/ LinksAge
  PROVE  VehicleInv'
<1>1. UNCHANGED <<route, pageOf, fetches, shown, photo, similar, fetched, mode, signed>>
  BY DEF Moved, LinksAge, photoLinkVars
<1>2. PageIsRight' /\ SectionIsRight'
  <2>1. photo' \in Nat BY <1>1 DEF VehicleInv, PageIsRight
  <2> QED BY <2>1, <1>1, PageStays
<1>3. AnswersAreWanted' BY <1>1 DEF VehicleInv, AnswersAreWanted
<1>4. CASE \E v \in VehicleIds : Moved(v)
  <2>1. PICK v \in VehicleIds : Moved(v) BY <1>4
  <2>2. moves' \in 0 .. MaxMoves BY <2>1, LinksAssumed DEF Moved, VehicleInv, VisitTyped
  <2>3. age' = age BY <2>1 DEF Moved, photoLinkVars
  <2>4. available' \subseteq VehicleIds BY <2>1 DEF Moved, VehicleInv, VisitTyped
  <2>5. VisitTyped' BY <1>1, <2>2, <2>3, <2>4 DEF VehicleInv, VisitTyped
  <2>6. LinksAreKept' BY <1>1, <2>3, LinksStay
  <2> QED BY <1>2, <1>3, <2>5, <2>6 DEF VehicleInv
<1>5. CASE LinksAge
  <2>1. age' = age + 1 /\ age' \in 0 .. MaxAge /\ age \in 0 .. MaxAge /\ UNCHANGED <<available, moves>>
    BY <1>5, LinksAssumed DEF LinksAge, VehicleInv, VisitTyped
  <2>2. VisitTyped' BY <1>1, <2>1 DEF VehicleInv, VisitTyped
  <2>3. LinksAreKept' BY <1>1, <2>1 DEF VehicleInv, LinksAreKept, UsableSeconds
  <2> QED BY <1>2, <1>3, <2>2, <2>3 DEF VehicleInv
<1> QED BY <1>4, <1>5

LEMMA VehicleKept == VehicleInv /\ [VehiclePageNext]_vehiclePageVars => VehicleInv'
<1> SUFFICES ASSUME VehicleInv, [VehiclePageNext]_vehiclePageVars PROVE VehicleInv' OBVIOUS
<1>1. CASE \E id \in VehicleIds : OpenVehicle(id) BY <1>1, OpenVehicleKeeps
<1>2. CASE \E f \in fetches : VehicleAnswered(f) \/ VehicleFailed(f)
  BY <1>2, VehicleAnsweredKeeps, VehicleFailedKeeps
<1>3. CASE SimilarAnswered \/ SimilarFailed BY <1>3, SimilarKeep
<1>4. CASE PhotosShown > 1 /\ Gallery BY <1>4, GalleryKeeps
<1>5. CASE (\E v \in VehicleIds : Moved(v)) \/ LinksAge BY <1>5, WorldMovesKeep
<1>6. CASE \E late \in BOOLEAN : MountPage(late) BY <1>6, MountPageKeeps
<1>7. CASE UNCHANGED vehiclePageVars
  <2>1. UNCHANGED <<available, route, pageOf, fetches, shown, photo, similar, fetched, moves, photoLinkVars>>
    BY <1>7 DEF vehiclePageVars
  <2>2. VisitTyped' /\ LinksAreKept' /\ AnswersAreWanted' BY <2>1, VisitStays
  <2>3. photo' \in Nat BY <2>1 DEF VehicleInv, PageIsRight
  <2>4. PageIsRight' /\ SectionIsRight' BY <2>1, <2>3, PageStays
  <2> QED BY <2>2, <2>4 DEF VehicleInv
<1> QED BY <1>1, <1>2, <1>3, <1>4, <1>5, <1>6, <1>7 DEF VehiclePageNext

(* Every variable of a vehicle's page has its type (VehicleDetailPage).    *)
THEOREM VehiclePageTyped == VehiclePageSpec => []VehiclePageTypeOK
BY VehicleBegins, VehicleKept, VehicleInvHolds, PTL DEF VehiclePageSpec

(* The page at rest is of the vehicle in the URL, its gallery shows photos *)
(* of that vehicle by links with the margin left, and its similar vehicles *)
(* are the best there were, for any number asked for, any life of a link   *)
(* and any margin.                                                         *)
THEOREM VehiclePageIsRight == VehiclePageSpec => []VehiclePageIsTrue
BY VehicleBegins, VehicleKept, VehicleInvHolds, PTL DEF VehiclePageSpec

----
(***************************************************************************)
(* The saved vehicles of a buyer.                                          *)
(***************************************************************************)

(* A click under way that is alone: nothing else is, the list differs from *)
(* what it was at the click by its vehicle, and once the service has       *)
(* answered that it agrees, it does. A click under way has taken its       *)
(* vehicle out of those that agree.                                        *)
Running(c) == click[c].pc # "idle"

ClickIsRight(c) ==
  /\ Running(c) => click[c].vehicle \notin agreed
  /\ Running(c) /\ click[c].alone =>
       /\ ~Fetching /\ \A d \in Clicks : Running(d) => d = c
       /\ saved = IF click[c].add THEN click[c].current \cup {click[c].vehicle}
                  ELSE click[c].current \ {click[c].vehicle}
       /\ click[c].pc \in {"refused", "answered"} =>
            (click[c].add <=> click[c].vehicle \in favourites)

(* A fetch under way that is alone: no click is under way, and what it was *)
(* answered is still what the server has.                                  *)
FetchIsRight ==
  Fetching /\ hydration.alone =>
    /\ \A c \in Clicks : ~Running(c)
    /\ hydration.pc = "answered" => hydration.list = favourites

HeartsInv == SavedTypeOK /\ HeartsAgree /\ FetchIsRight /\ \A c \in Clicks : ClickIsRight(c)

(* Clicks that are joined by another request: under way as before, but not *)
(* alone.                                                                  *)
LEMMA JoinedClicks ==
  ASSUME SavedTypeOK
  PROVE  /\ Joined(click) \in [Clicks -> Click]
         /\ \A c \in Clicks : /\ Joined(click)[c].pc = click[c].pc
                              /\ Joined(click)[c].vehicle = click[c].vehicle
                              /\ Running(c) => ~Joined(click)[c].alone
<1>1. \A c \in Clicks : click[c] \in Click
  BY DEF SavedTypeOK
<1> DEFINE apart(k) == [k EXCEPT !.alone = FALSE]
<1>2. ASSUME NEW k \in Click
      PROVE  apart(k) \in Click /\ apart(k).pc = k.pc /\ apart(k).vehicle = k.vehicle /\ apart(k).alone = FALSE
  BY <1>2 DEF Click
<1>3. \A c \in Clicks : Joined(click)[c] = IF Running(c) THEN apart(click[c]) ELSE click[c]
  BY DEF Joined, UnderWay, Running
<1> HIDE DEF apart
<1>4. \A c \in Clicks : Joined(click)[c] \in Click
  BY <1>1, <1>2, <1>3
<1>5. Joined(click) \in [Clicks -> Click]
  BY <1>4 DEF Joined
<1>6. \A c \in Clicks : /\ Joined(click)[c].pc = click[c].pc
                        /\ Joined(click)[c].vehicle = click[c].vehicle
                        /\ Running(c) => ~Joined(click)[c].alone
  BY <1>1, <1>2, <1>3
<1> QED BY <1>5, <1>6

LEMMA SavedTypes == SavedTypeOK /\ [SavedNext]_savedVars => SavedTypeOK'
<1> USE SavedAssumption
<1> SUFFICES ASSUME SavedTypeOK, [SavedNext]_savedVars PROVE SavedTypeOK'
  OBVIOUS
<1> USE DEF SavedTypeOK
<1>1. IdleClick \in Click /\ NotHydrated \in [pc : {"no", "asked", "answered", "done"}, list : SUBSET Vehicles, alone : BOOLEAN]
  BY DEF IdleClick, Click, NotHydrated
<1>2. Joined(click) \in [Clicks -> Click]
  BY JoinedClicks
<1>3. \A c \in Clicks : click[c] \in Click
  OBVIOUS
<1>4. CASE UNCHANGED savedVars
  BY <1>4 DEF savedVars
<1>5. CASE Hydrate
  BY <1>2, <1>5 DEF Hydrate
<1>6. CASE FindByBuyer \/ Hydrated \/ HydrationFails \/ Unmounted
  BY <1>1, <1>6 DEF FindByBuyer, Hydrated, HydrationFails, Unmounted, NotHydrated
<1>7. CASE SignsInAgain
  BY <1>1, <1>2, <1>7 DEF SignsInAgain
<1>8. ASSUME NEW c \in Clicks, NEW v \in Vehicles, Toggle(c, v) PROVE SavedTypeOK'
  <2>1. click' \in [Clicks -> Click]
    BY <1>2, <1>8 DEF Toggle, Click
  <2> QED BY <1>8, <2>1 DEF Toggle
<1>9. ASSUME NEW c \in Clicks, FindFavourite(c) PROVE SavedTypeOK'
  BY <1>3, <1>9 DEF FindFavourite, Click
<1>10. ASSUME NEW c \in Clicks, WriteFavourite(c) PROVE SavedTypeOK'
  <2>1. click' \in [Clicks -> Click]
    BY <1>10 DEF WriteFavourite, Click
  <2>2. click[c].vehicle \in Vehicles BY <1>3 DEF Click
  <2> QED BY <1>10, <2>1, <2>2 DEF WriteFavourite
<1>11. ASSUME NEW c \in Clicks, Refused(c) \/ ToggleAnswered(c) PROVE SavedTypeOK'
  <2>1. click[c].vehicle \in Vehicles BY <1>3 DEF Click
  <2> QED BY <1>1, <1>11, <2>1 DEF Refused, ToggleAnswered, ClickEnds
<1>12. ASSUME NEW c \in Clicks, Undo(c) PROVE SavedTypeOK'
  <2>1. click[c].vehicle \in Vehicles /\ click[c].current \subseteq Vehicles BY <1>3 DEF Click
  <2> QED BY <1>1, <1>12, <2>1 DEF Undo, ClickEnds
<1>13. ASSUME NEW v \in Vehicles, ChangedElsewhere(v) PROVE SavedTypeOK'
  <2> DEFINE still == hydration.pc \in {"no", "done"}
  <2>3. still \in BOOLEAN OBVIOUS
  <2> HIDE DEF still
  <2>4. hydration' = [hydration EXCEPT !.alone = still]
    BY <1>13 DEF ChangedElsewhere, still
  <2>1. hydration' \in [pc : {"no", "asked", "answered", "done"}, list : SUBSET Vehicles, alone : BOOLEAN]
    BY <2>3, <2>4
  <2>2. elsewhere' \in 0 .. MaxElsewhere
    BY <1>13 DEF ChangedElsewhere
  <2> QED BY <1>2, <1>13, <2>1, <2>2 DEF ChangedElsewhere
<1> QED BY <1>4, <1>5, <1>6, <1>7, <1>8, <1>9, <1>10, <1>11, <1>12, <1>13 DEF SavedNext

THEOREM SavedTyped == SavedSpec => []SavedTypeOK
<1>1. SavedInit => SavedTypeOK
  BY SavedAssumption DEF SavedInit, SavedTypeOK, IdleClick, Click, NotHydrated
<1> QED BY <1>1, SavedTypes, PTL DEF SavedSpec

LEMMA HeartsKept == HeartsInv /\ SavedTypeOK' /\ [SavedNext]_savedVars => HeartsInv'
<1> SUFFICES ASSUME HeartsInv, SavedTypeOK', [SavedNext]_savedVars PROVE HeartsInv'
  OBVIOUS
<1>1. SavedTypeOK /\ \A c \in Clicks : click[c] \in Click
  BY DEF HeartsInv, SavedTypeOK
<1>2. HeartsAgree /\ FetchIsRight /\ \A c \in Clicks : ClickIsRight(c)
  BY DEF HeartsInv
<1>3. UnderWay = {c \in Clicks : Running(c)}
  BY DEF UnderWay, Running
<1>4. CASE UNCHANGED savedVars
  <2>1. UNCHANGED <<favourites, saved, hydration, click, agreed>> BY <1>4 DEF savedVars
  <2> QED BY <1>2, <2>1 DEF HeartsInv, HeartsAgree, FetchIsRight, ClickIsRight, Running, Fetching
<1>5. CASE Hydrate
  <2>1. HeartsAgree' BY <1>2, <1>5 DEF Hydrate, HeartsAgree
  <2>2. FetchIsRight'
    BY <1>1, <1>3, <1>5, JoinedClicks DEF Hydrate, FetchIsRight, Running
  <2>3. ASSUME NEW c \in Clicks PROVE ClickIsRight(c)'
    BY <1>1, <1>2, <1>5, JoinedClicks DEF Hydrate, ClickIsRight, Running
  <2> QED BY <2>1, <2>2, <2>3 DEF HeartsInv
<1>6. CASE FindByBuyer
  <2>1. hydration.pc = "asked" /\ hydration'.alone = hydration.alone /\ hydration'.list = favourites
    BY <1>1, <1>6 DEF FindByBuyer, SavedTypeOK
  <2>2. UNCHANGED <<favourites, saved, click, agreed>> BY <1>6 DEF FindByBuyer
  <2>3. HeartsAgree' BY <1>2, <2>2 DEF HeartsAgree
  <2>4. FetchIsRight' BY <1>2, <2>1, <2>2 DEF FetchIsRight, Fetching, Running
  <2>5. ASSUME NEW c \in Clicks PROVE ClickIsRight(c)'
    BY <1>2, <2>1, <2>2 DEF ClickIsRight, Fetching, Running
  <2> QED BY <2>3, <2>4, <2>5 DEF HeartsInv
<1>7. CASE Hydrated
  <2>1. hydration.pc = "answered" /\ hydration'.pc = "done" /\ saved' = hydration.list
    BY <1>7 DEF Hydrated, NotHydrated
  <2>2. UNCHANGED <<favourites, click>> /\ agreed' = IF hydration.alone THEN Vehicles ELSE {}
    BY <1>7 DEF Hydrated
  <2>3. Fetching /\ ~Fetching' BY <2>1 DEF Fetching
  <2>4. HeartsAgree' BY <1>2, <2>1, <2>2, <2>3 DEF HeartsAgree, FetchIsRight
  <2>5. FetchIsRight' BY <2>3 DEF FetchIsRight
  <2>6. ASSUME NEW c \in Clicks PROVE ClickIsRight(c)'
    BY <1>2, <2>2, <2>3 DEF ClickIsRight, FetchIsRight, Running
  <2> QED BY <2>4, <2>5, <2>6 DEF HeartsInv
<1>8. CASE HydrationFails \/ Unmounted
  <2>1. UNCHANGED <<favourites, saved, click, agreed>> /\ ~Fetching'
    BY <1>8 DEF HydrationFails, Unmounted, Fetching, NotHydrated
  <2>2. HeartsAgree' /\ FetchIsRight' BY <1>2, <2>1 DEF HeartsAgree, FetchIsRight
  <2>3. ASSUME NEW c \in Clicks PROVE ClickIsRight(c)'
    BY <1>2, <2>1 DEF ClickIsRight, Running
  <2> QED BY <2>2, <2>3 DEF HeartsInv
<1>9. CASE SignsInAgain
  <2>1. agreed' = {} /\ ~Fetching' /\ click' = Joined(click)
    BY <1>9 DEF SignsInAgain, Fetching, NotHydrated
  <2>2. HeartsAgree' /\ FetchIsRight' BY <2>1 DEF HeartsAgree, FetchIsRight
  <2>3. ASSUME NEW c \in Clicks PROVE ClickIsRight(c)'
    BY <1>1, <2>1, JoinedClicks DEF ClickIsRight, Running
  <2> QED BY <2>2, <2>3 DEF HeartsInv
<1>10. ASSUME NEW c \in Clicks, NEW v \in Vehicles, Toggle(c, v) PROVE HeartsInv'
  <2>1. /\ click'[c] = [pc |-> "find", vehicle |-> v, add |-> v \notin saved, current |-> saved,
                        alone |-> UnderWay = {} /\ ~Fetching]
        /\ \A d \in Clicks : d # c => click'[d] = Joined(click)[d]
    BY <1>1, <1>10, JoinedClicks DEF Toggle
  <2>2. \A d \in Clicks : d # c => /\ click'[d].pc = click[d].pc /\ click'[d].vehicle = click[d].vehicle
                                   /\ Running(d) => ~click'[d].alone
    BY <1>1, <2>1, JoinedClicks
  <2>3. /\ favourites' = favourites /\ agreed' = agreed \ {v}
        /\ saved' = IF v \notin saved THEN saved \cup {v} ELSE saved \ {v}
    BY <1>10 DEF Toggle
  <2>4. hydration'.pc = hydration.pc /\ (Fetching' => ~hydration'.alone)
    BY <1>1, <1>10 DEF Toggle, Fetching, SavedTypeOK
  <2>5. HeartsAgree' BY <1>2, <2>3 DEF HeartsAgree
  <2>6. FetchIsRight' BY <2>4 DEF FetchIsRight
  <2>7. Fetching' = Fetching BY <2>4 DEF Fetching
  <2>8. ClickIsRight(c)'
    <3>1. ASSUME click'[c].alone PROVE ~Fetching' /\ \A d \in Clicks : Running(d)' => d = c
      <4>1. UnderWay = {} /\ ~Fetching
        <5>1. click'[c].alone = (UnderWay = {} /\ ~Fetching) BY <2>1
        <5> QED BY <3>1, <5>1
      <4>2. \A d \in Clicks : ~Running(d) BY <1>3, <4>1
      <4> QED BY <2>2, <2>7, <4>1, <4>2 DEF Running
    <3>2. saved' = IF click'[c].add THEN click'[c].current \cup {v} ELSE click'[c].current \ {v}
      <4>1. click'[c].current = saved /\ (click'[c].add = (v \notin saved)) BY <2>1
      <4> QED BY <2>3, <4>1
    <3> QED BY <2>1, <2>3, <3>1, <3>2 DEF ClickIsRight
  <2>9. ASSUME NEW d \in Clicks, d # c PROVE ClickIsRight(d)'
    <3>1. Running(d)' = Running(d) BY <2>2, <2>9 DEF Running
    <3>2. Running(d) => click[d].vehicle \notin agreed /\ ~click'[d].alone
      BY <1>2, <2>2, <2>9 DEF ClickIsRight
    <3> QED BY <2>2, <2>3, <2>9, <3>1, <3>2 DEF ClickIsRight
  <2> QED BY <2>5, <2>6, <2>8, <2>9 DEF HeartsInv
<1>11. ASSUME NEW c \in Clicks, FindFavourite(c) PROVE HeartsInv'
  <2>1. /\ click[c].pc = "find" /\ click'[c] = [click[c] EXCEPT !.pc =
             IF click[c].add = (click[c].vehicle \in favourites) THEN "refused" ELSE "write"]
        /\ \A d \in Clicks : d # c => click'[d] = click[d]
    BY <1>1, <1>11 DEF FindFavourite, SavedTypeOK
  <2>2. UNCHANGED <<favourites, saved, hydration, agreed>> BY <1>11 DEF FindFavourite
  <2>3. /\ click'[c].pc \in {"refused", "write"}
        /\ click'[c].pc = "refused" => click[c].add = (click[c].vehicle \in favourites)
        /\ click'[c].vehicle = click[c].vehicle /\ click'[c].add = click[c].add
        /\ click'[c].current = click[c].current /\ click'[c].alone = click[c].alone
    BY <1>1, <2>1 DEF Click
  <2>4. \A d \in Clicks : Running(d)' <=> Running(d)
    BY <2>1, <2>3 DEF Running
  <2>5. HeartsAgree' BY <1>2, <2>2 DEF HeartsAgree
  <2>6. FetchIsRight' BY <1>2, <2>2, <2>4 DEF FetchIsRight, Fetching
  <2>7. Fetching' = Fetching BY <2>2 DEF Fetching
  <2>8. ClickIsRight(c)'
    BY <1>2, <2>2, <2>3, <2>4, <2>7 DEF ClickIsRight
  <2>9. ASSUME NEW d \in Clicks, d # c PROVE ClickIsRight(d)'
    BY <1>2, <2>1, <2>2, <2>4, <2>7, <2>9 DEF ClickIsRight
  <2> QED BY <2>5, <2>6, <2>8, <2>9 DEF HeartsInv
<1>12. ASSUME NEW c \in Clicks, WriteFavourite(c) PROVE HeartsInv'
  <2> DEFINE v == click[c].vehicle
  <2>1. /\ click[c].pc = "write" /\ click'[c] = [click[c] EXCEPT !.pc =
             IF click[c].add /\ v \in favourites THEN "failed" ELSE "answered"]
        /\ \A d \in Clicks : d # c => click'[d] = click[d]
    BY <1>1, <1>12 DEF WriteFavourite, SavedTypeOK
  <2>2. UNCHANGED <<saved, hydration, agreed>> BY <1>12 DEF WriteFavourite
  <2>3. favourites' = IF click[c].add THEN favourites \cup {v} ELSE favourites \ {v}
    BY <1>12 DEF WriteFavourite
  <2>4. /\ click'[c].pc \in {"failed", "answered"}
        /\ click'[c].vehicle = v /\ click'[c].add = click[c].add
        /\ click'[c].current = click[c].current /\ click'[c].alone = click[c].alone
    BY <1>1, <2>1 DEF Click
  <2>5. \A d \in Clicks : Running(d)' <=> Running(d)
    BY <2>1, <2>4 DEF Running
  <2>6. Running(c) /\ v \notin agreed
    BY <1>2, <2>1 DEF Running, ClickIsRight
  <2>7. HeartsAgree' BY <1>2, <2>2, <2>3, <2>6 DEF HeartsAgree
  <2>8. FetchIsRight' BY <1>2, <2>2, <2>5, <2>6 DEF FetchIsRight, Fetching
  <2>9. Fetching' = Fetching BY <2>2 DEF Fetching
  <2>10. click'[c].add <=> click'[c].vehicle \in favourites'
    BY <2>3, <2>4
  <2>11. ClickIsRight(c)'
    BY <1>2, <2>2, <2>4, <2>5, <2>6, <2>9, <2>10 DEF ClickIsRight
  <2>12. ASSUME NEW d \in Clicks, d # c PROVE ClickIsRight(d)'
    <3>1. Running(d) => ~click[d].alone BY <1>2, <2>6, <2>12 DEF ClickIsRight
    <3> QED BY <1>2, <2>1, <2>2, <2>5, <2>12, <3>1 DEF ClickIsRight
  <2> QED BY <2>7, <2>8, <2>11, <2>12 DEF HeartsInv
<1>13. ASSUME NEW c \in Clicks, Refused(c) \/ ToggleAnswered(c) PROVE HeartsInv'
  <2>1. click[c].pc \in {"refused", "answered"} /\ UNCHANGED <<favourites, saved, hydration>>
    BY <1>13 DEF Refused, ToggleAnswered
  <2>2. agreed' = IF click[c].alone THEN agreed \cup {click[c].vehicle} ELSE agreed
    BY <1>13 DEF Refused, ToggleAnswered
  <2>3. click'[c].pc = "idle" /\ \A d \in Clicks : d # c => click'[d] = click[d]
    BY <1>1, <1>13 DEF Refused, ToggleAnswered, ClickEnds, IdleClick, SavedTypeOK
  <2>4. Running(c) BY <2>1 DEF Running
  <2>5. click[c].alone =>
          (click[c].vehicle \in saved <=> click[c].vehicle \in favourites)
    BY <1>2, <2>1, <2>4 DEF ClickIsRight
  <2>6. HeartsAgree' BY <1>2, <2>1, <2>2, <2>5 DEF HeartsAgree
  <2>7. FetchIsRight' BY <1>2, <2>1, <2>4 DEF FetchIsRight, Fetching
  <2>8. ~Running(c)' BY <2>3 DEF Running
  <2>9. ASSUME NEW d \in Clicks, d # c PROVE ClickIsRight(d)'
    <3>1. Running(d)' = Running(d) BY <2>3, <2>9 DEF Running
    <3>2. CASE ~Running(d) BY <3>1, <3>2 DEF ClickIsRight
    <3>3. CASE Running(d)
      <4>1. ~click[d].alone /\ ~click[c].alone BY <1>2, <2>4, <2>9, <3>3 DEF ClickIsRight
      <4> QED BY <1>2, <2>2, <2>3, <2>9, <3>1, <4>1 DEF ClickIsRight
    <3> QED BY <3>2, <3>3
  <2>10. ClickIsRight(c)' BY <2>8 DEF ClickIsRight
  <2> QED BY <2>6, <2>7, <2>9, <2>10 DEF HeartsInv
<1>14. ASSUME NEW c \in Clicks, Undo(c) PROVE HeartsInv'
  <2> DEFINE v == click[c].vehicle
  <2>1. Running(c) /\ saved' = click[c].current /\ hydration' = hydration
    BY <1>14 DEF Undo, Running
  <2>2. agreed' = IF click[c].alone THEN agreed \ {v} ELSE {}
    BY <1>14 DEF Undo
  <2>3. favourites' \in {favourites, favourites \cup {v}, favourites \ {v}}
    BY <1>14 DEF Undo
  <2>4. click'[c].pc = "idle" /\ \A d \in Clicks : d # c => click'[d] = click[d]
    BY <1>1, <1>14 DEF Undo, ClickEnds, IdleClick, SavedTypeOK
  <2>5. click[c].alone => \A w \in Vehicles : w # v => (w \in saved <=> w \in click[c].current)
    BY <1>2, <2>1 DEF ClickIsRight
  <2>6. agreed' \subseteq Vehicles BY DEF SavedTypeOK
  <2>7. HeartsAgree' BY <1>2, <2>1, <2>2, <2>3, <2>5, <2>6 DEF HeartsAgree
  <2>8. FetchIsRight' BY <1>2, <2>1 DEF FetchIsRight, Fetching
  <2>9. ASSUME NEW d \in Clicks, d # c PROVE ClickIsRight(d)'
    <3>1. Running(d)' = Running(d) BY <2>4, <2>9 DEF Running
    <3>2. Running(d) => ~click[d].alone BY <1>2, <2>1, <2>9 DEF ClickIsRight
    <3> QED BY <1>2, <2>2, <2>4, <2>9, <3>1, <3>2 DEF ClickIsRight
  <2>10. ClickIsRight(c)' BY <2>4 DEF ClickIsRight, Running
  <2> QED BY <2>7, <2>8, <2>9, <2>10 DEF HeartsInv
<1>15. ASSUME NEW v \in Vehicles, ChangedElsewhere(v) PROVE HeartsInv'
  <2>1. /\ click' = Joined(click) /\ saved' = saved /\ agreed' = agreed \ {v}
        /\ favourites' = IF v \in favourites THEN favourites \ {v} ELSE favourites \cup {v}
    BY <1>15 DEF ChangedElsewhere
  <2>2. Fetching' => ~hydration'.alone
    BY <1>1, <1>15 DEF ChangedElsewhere, Fetching, SavedTypeOK
  <2>3. HeartsAgree' BY <1>2, <2>1 DEF HeartsAgree
  <2>4. FetchIsRight' BY <2>2 DEF FetchIsRight
  <2>5. ASSUME NEW d \in Clicks PROVE ClickIsRight(d)'
    BY <1>1, <1>2, <2>1, JoinedClicks DEF ClickIsRight, Running
  <2> QED BY <2>3, <2>4, <2>5 DEF HeartsInv
<1> QED
  BY <1>4, <1>5, <1>6, <1>7, <1>8, <1>9, <1>10, <1>11, <1>12, <1>13, <1>14, <1>15 DEF SavedNext

(* A heart agrees with the server after every answer that came while       *)
(* nothing else was under way (SavedVehicles.tla, HeartsAgree).            *)
THEOREM HeartsAreRight == SavedSpec => []HeartsAgree
<1>1. SavedInit /\ SavedTypeOK => HeartsInv
  BY DEF SavedInit, HeartsInv, HeartsAgree, FetchIsRight, Fetching, ClickIsRight, Running, NotHydrated, IdleClick
<1>2. HeartsInv => HeartsAgree
  BY DEF HeartsInv
<1> QED BY <1>1, <1>2, SavedTyped, HeartsKept, PTL DEF SavedSpec

----
(***************************************************************************)
(* All the pages side by side. A part that does not move stays at rest, so *)
(* each part runs by its own specification in a run of all of them.        *)
(***************************************************************************)
pageVars ==
  <<part, browserVars, accountPageVars, registrationVars, dealerPageVars, newListingVars, specVars,
    listVars, uploadPageVars, consoleVars, homeVars, searchVars, panelVars, vehiclePageVars,
         savedVars>>

LEMMA PartsMove ==
  [Next]_pageVars =>
    /\ [BrowserNext]_browserVars
    /\ [AccountPagesNext]_accountPageVars
    /\ [RegistrationNext]_registrationVars
    /\ [DealerPagesNext]_dealerPageVars
    /\ [NewListingNext]_newListingVars
    /\ [SpecsNext]_specVars
    /\ [ListNext]_listVars
    /\ [UploadPagesNext]_uploadPageVars
    /\ [ConsoleNext]_consoleVars
    /\ [HomePageNext]_homeVars
    /\ [SearchPageNext]_searchVars
    /\ [FilterPanelNext]_panelVars
    /\ [VehiclePageNext]_vehiclePageVars
    /\ [SavedNext]_savedVars
<1> SUFFICES ASSUME [Next]_pageVars
             PROVE  /\ [BrowserNext]_browserVars
                    /\ [AccountPagesNext]_accountPageVars
                    /\ [RegistrationNext]_registrationVars
                    /\ [DealerPagesNext]_dealerPageVars
                    /\ [NewListingNext]_newListingVars
                    /\ [SpecsNext]_specVars
                    /\ [ListNext]_listVars
                    /\ [UploadPagesNext]_uploadPageVars
                    /\ [ConsoleNext]_consoleVars
                    /\ [HomePageNext]_homeVars
                    /\ [SearchPageNext]_searchVars
                    /\ [FilterPanelNext]_panelVars
                    /\ [VehiclePageNext]_vehiclePageVars
                    /\ [SavedNext]_savedVars
    OBVIOUS
<1>1. CASE UNCHANGED pageVars BY <1>1, Zenon DEF pageVars
<1>2. CASE Next BY <1>2, Zenon DEF Next
<1> QED BY <1>1, <1>2

LEMMA PartsBegin ==
  Init =>
    /\ BrowserInit
    /\ AccountPagesInit
    /\ RegistrationInit
    /\ DealerPagesInit
    /\ NewListingInit
    /\ SpecsInit
    /\ ListInit
    /\ UploadPagesInit
    /\ ConsoleInit
    /\ HomePageInit
    /\ SearchPageInit
    /\ FilterPanelInit
    /\ VehiclePageInit
    /\ SavedInit
BY DEF Init

LEMMA PartsRun ==
  Spec =>
    /\ BrowserInit /\ [][BrowserNext]_browserVars
    /\ AccountPagesInit /\ [][AccountPagesNext]_accountPageVars
    /\ RegistrationInit /\ [][RegistrationNext]_registrationVars
    /\ DealerPagesInit /\ [][DealerPagesNext]_dealerPageVars
    /\ NewListingInit /\ [][NewListingNext]_newListingVars
    /\ SpecsInit /\ [][SpecsNext]_specVars
    /\ ListInit /\ [][ListNext]_listVars
    /\ UploadPagesInit /\ [][UploadPagesNext]_uploadPageVars
    /\ ConsoleInit /\ [][ConsoleNext]_consoleVars
    /\ HomePageInit /\ [][HomePageNext]_homeVars
    /\ SearchPageInit /\ [][SearchPageNext]_searchVars
    /\ FilterPanelInit /\ [][FilterPanelNext]_panelVars
    /\ VehiclePageInit /\ [][VehiclePageNext]_vehiclePageVars
    /\ SavedInit /\ [][SavedNext]_savedVars
BY PartsMove, PartsBegin, PTL DEF Spec, pageVars

(* Every variable of every page has its type, in every state of a run.     *)
THEOREM FrontendTyped == Spec => []TypesOK
<1>1. Spec =>
        /\ []BrowserTypeOK
        /\ []AccountPagesTypeOK
        /\ []RegistrationTypeOK
        /\ []DealerPagesTypeOK
        /\ []NewListingTypeOK
        /\ []SpecsTypeOK
        /\ []ListTypeOK
        /\ []UploadPagesTypeOK
        /\ []ConsoleTypeOK
        /\ []HomePageTypeOK
        /\ []SearchPageTypeOK
        /\ []FilterPanelTypeOK
        /\ []VehiclePageTypeOK
        /\ []SavedTypeOK
  BY PartsRun, BrowserTyped, AccountPagesTyped, RegistrationTyped, DealerPagesTyped,
       NewListingTyped, SpecsTyped, ListTyped, UploadsTyped, ConsoleTyped, HomePageTyped,
       SearchPageTyped, FilterPanelTyped, VehiclePageTyped, SavedTyped,
     PTL DEF BrowserSpec, NewListingSpec, SpecsSpec, ListSpec, HomePageSpec, SearchPageSpec,
          FilterPanelSpec, VehiclePageSpec, SavedSpec
<1>2. BrowserTypeOK /\ AccountPagesTypeOK /\ RegistrationTypeOK /\ DealerPagesTypeOK /\
      NewListingTypeOK /\ SpecsTypeOK /\ ListTypeOK /\ UploadPagesTypeOK /\ ConsoleTypeOK /\
      HomePageTypeOK /\ SearchPageTypeOK /\ FilterPanelTypeOK /\ VehiclePageTypeOK /\ SavedTypeOK
      => TypesOK
  BY Zenon DEF TypesOK
<1> QED BY <1>1, <1>2, PTL

(* A session survives the browser's other tabs, reloads and answers that   *)
(* come late, in every run of the pages (auth provider and API client).    *)
THEOREM SessionAlwaysSurvives == Spec => []SessionSurvives
BY PartsRun, SessionIsKept, PTL DEF BrowserSpec

(* What the pages of an account, a dealer's profile and the registration   *)
(* wizard say agrees with what the services did, in every run.             *)
THEOREM OwnersPagesAreRight == Spec => []OwnersPagesAreTrue
<1>1. AccountPagesAreTrue /\ DealerPagesAreTrue /\ RegistrationIsComplete =>
        OwnersPagesAreTrue BY Zenon DEF OwnersPagesAreTrue
<1> QED BY <1>1, PartsRun, AccountPagesAreRight, DealerPagesAreRight, RegistrationComplete, PTL

(* The administrators' pages show what the services hold, in every run with*)
(* fewer upload jobs than the four places of a rate can tell apart.        *)
THEOREM ConsoleIsRight ==
  ASSUME Cardinality(Batches) < 10000
  PROVE  Spec => []ConsoleIsTrue
<1>1. AdminPagesAreTrue => ConsoleIsTrue BY DEF ConsoleIsTrue
<1> QED BY <1>1, PartsRun, AdminPagesAreRight, PTL

(* What a dealer meant is what is stored: a submission makes one listing,  *)
(* but for requests for one vehicle that overlap, which may make one each; *)
(* and the specs are those last typed, in every run (ListingForm).         *)
THEOREM ListingsAreAsMeant == Spec => []ListingIsAsMeant
<1>1. SubmissionsAreOne /\ SpecsAreRight => ListingIsAsMeant BY Zenon DEF ListingIsAsMeant
<1> QED BY <1>1, PartsRun, OneSubmissionOneListing, SpecsAreAlwaysRight, PTL DEF NewListingSpec,
     SpecsSpec

(* The dealer's table, unless a change has passed it by, the job an upload *)
(* page follows, and the hearts of vehicles last toggled alone agree with  *)
(* the server at rest, in every run; and the upload page accepts what the  *)
(* service does and, of archives, an empty one as well.                    *)
THEOREM PagesAreTheServers == Spec => []PagesShowServer
<1>1. ListShowsServer /\ UploadsAreFollowed /\ HeartsAgree =>
        PagesShowServer BY Zenon DEF PagesShowServer
<1> QED BY <1>1, PartsRun, TableShowsServer, UploadsFollowed, HeartsAreRight, PTL DEF ListSpec,
     SavedSpec

(* Results, filters, the button of the home page and a vehicle's page are  *)
(* what the buyer asked for last, in every run.                            *)
THEOREM BuyersPagesAreRight == Spec => []BuyersPagesAreTrue
<1>1. ResultsAreWanted /\ FiltersHoldTogether /\ ButtonKeepsItsWord /\ VehiclePageIsTrue =>
        BuyersPagesAreTrue BY Zenon DEF BuyersPagesAreTrue
<1> QED BY <1>1, PartsRun, ResultsAreOfTheUrl, FiltersAreHeldTogether, ButtonIsTrue,
     VehiclePageIsRight, PTL DEF HomePageSpec, SearchPageSpec, FilterPanelSpec, VehiclePageSpec
====
