---- MODULE Sessions ----
(***************************************************************************)
(* auth-user-service: refresh tokens. A sign-in starts a family of tokens; *)
(* a refresh replaces the family's live token by a new one; reuse of a     *)
(* replaced token revokes the family, unless the replacement is so recent  *)
(* that two tabs may have raced. Handlers of several processes interleave  *)
(* at every await.                                                         *)
(*                                                                         *)
(*   token     rows of auth.refresh_tokens in order of created_at; "how" is*)
(*             not a column: it records which code path issued the row     *)
(*   standing  the account may hold a session: active, and verified unless *)
(*             it is an administrator                                      *)
(*   call      where each handler stands: u its user as loaded, t its token*)
(*             as loaded, some the sessions it is about to evict           *)
(*   now       a clock                                                     *)
(*   quiet     history: handlers since whose count no other has written    *)
(***************************************************************************)
EXTENDS Integers, Sequences, FiniteSets

CONSTANTS
  Accounts,
  Calls,           \* handlers that may be under way at once
  MaxSessions,     \* MAX_ACTIVE_REFRESH_SESSIONS
  Grace,           \* REFRESH_TOKEN_REUSE_GRACE_MS
  TTL,             \* JWT_REFRESH_EXPIRES_IN
  MaxTokens,       \* bound on rows
  MaxTime,         \* bound on the clock
  NoAccount

ASSUME SessionsAssumption ==
  /\ MaxSessions \in Nat \ {0} /\ Grace \in Nat \ {0} /\ TTL \in Nat \ {0}
  /\ MaxTokens \in Nat /\ MaxTime \in Nat
  /\ NoAccount \notin Accounts

VARIABLES token, standing, call, now, quiet

sessionVars == <<token, standing, call, now, quiet>>

NotRevoked == -1
NoToken    == 0

RefreshToken ==
  [user : Accounts, family : Nat \ {0}, expiresAt : Nat,
   revokedAt : Nat \cup {NotRevoked}, replacedById : Nat,
   how : {"login", "rotation", "sibling"}]

CallPc == {"idle", "count", "evict", "saveEvicted", "issue", "loadUser",
           "loadGraceUser", "rotate", "sibling", "revokeFamily", "save"}

Call == [pc : CallPc, u : Accounts \cup {NoAccount}, t : Nat, n : Nat, some : SUBSET Nat]

IdleCall == [pc |-> "idle", u |-> NoAccount, t |-> NoToken, n |-> 0, some |-> {}]

Ids == 1 .. Len(token)

Active(i)  == token[i].revokedAt = NotRevoked
Expired(i) == token[i].expiresAt <= now

ActiveOf(u) == {i \in Ids : token[i].user = u /\ Active(i) /\ ~Expired(i)}

IsWithinReuseGraceWindow(i) == ~Active(i) /\ now - token[i].revokedAt < Grace

(* Every row belongs to an account and to a family started by a sign-in,   *)
(* and what a handler carries still exists.                                *)
SessionsTypeOK ==
  /\ token \in Seq(RefreshToken)
  /\ standing \in [Accounts -> BOOLEAN]
  /\ call \in [Calls -> Call]
  /\ now \in Nat /\ quiet \subseteq Calls
  /\ \A i \in Ids : token[i].family \in 1 .. i /\ token[i].replacedById \in {NoToken} \cup Ids
  /\ \A c \in Calls : call[c].t \in {NoToken} \cup Ids /\ call[c].some \subseteq Ids

SessionsInit ==
  /\ token = <<>>
  /\ standing \in [Accounts -> BOOLEAN]
  /\ call = [c \in Calls |-> IdleCall]
  /\ now = 0 /\ quiet = {}

CallAt(c, pc)   == call[c].pc = pc
CallGoto(c, pc) == call' = [call EXCEPT ![c].pc = pc]
CallEnds(c)     == call' = [call EXCEPT ![c] = IdleCall]

(* buildRefreshTokenRow: a row nobody has yet, good for TTL.               *)
NewRow(u, family, how) ==
  [user |-> u, family |-> family, expiresAt |-> now + TTL,
   revokedAt |-> NotRevoked, replacedById |-> NoToken, how |-> how]

Insert(u, family, how) ==
  /\ Len(token) < MaxTokens
  /\ token' = Append(token, NewRow(u, family, how))

(* UPDATE ... SET revoked_at = now WHERE <rows> AND revoked_at IS NULL     *)
Revoke(rows) ==
  token' = [i \in Ids |->
    IF i \in rows /\ Active(i) THEN [token[i] EXCEPT !.revokedAt = now] ELSE token[i]]

(* repository.save of rows that were loaded live: TypeORM writes every     *)
(* column that differs from the table, so a replacement made meanwhile     *)
(* loses its link and the time of revocation moves.                        *)
SaveRevoked(rows) ==
  token' = [i \in Ids |->
    IF i \in rows THEN [token[i] EXCEPT !.revokedAt = now, !.replacedById = NoToken]
                  ELSE token[i]]

----
(* Sign-in.                                                                *)

(* The credentials are right and the account may sign in.                  *)
Login(c, u) ==
  /\ CallAt(c, "idle")
  /\ standing[u]
  /\ call' = [call EXCEPT ![c] = [IdleCall EXCEPT !.pc = "count", !.u = u]]
  /\ UNCHANGED <<token, standing, now>>

(* A Google credential restores the standing of the account it names.      *)
LoginWithGoogle(c, u) ==
  /\ CallAt(c, "idle")
  /\ standing' = [standing EXCEPT ![u] = TRUE]
  /\ call' = [call EXCEPT ![c] = [IdleCall EXCEPT !.pc = "count", !.u = u]]
  /\ UNCHANGED <<token, now>>

(* Mutant of CountActive: the limit is off by one.                         *)
CountActiveOneShort(c) ==
  /\ CallAt(c, "count")
  /\ LET count == Cardinality(ActiveOf(call[c].u)) IN
       call' = [call EXCEPT
         ![c].pc = IF count > MaxSessions THEN "evict" ELSE "issue",
         ![c].n  = IF count > MaxSessions THEN count - MaxSessions ELSE 0]
  /\ UNCHANGED <<token, standing, now>>

(* enforceSessionLimit counts, ...                                         *)
CountActive(c) ==
  /\ CallAt(c, "count")
  /\ LET count == Cardinality(ActiveOf(call[c].u)) IN
       call' = [call EXCEPT
         ![c].pc = IF count >= MaxSessions THEN "evict" ELSE "issue",
         ![c].n  = IF count >= MaxSessions THEN count - MaxSessions + 1 ELSE 0]
  /\ UNCHANGED <<token, standing, now>>

(* ... then finds the n oldest sessions of that moment, ...                *)
Oldest(n, ids) == {i \in ids : Cardinality({j \in ids : j < i}) < n}

FindOldest(c) ==
  /\ CallAt(c, "evict")
  /\ call' = [call EXCEPT
       ![c].pc = "saveEvicted",
       ![c].some = Oldest(call[c].n, ActiveOf(call[c].u))]
  /\ UNCHANGED <<token, standing, now>>

(* ... and saves them revoked.                                             *)
SaveEvicted(c) ==
  /\ CallAt(c, "saveEvicted")
  /\ SaveRevoked(call[c].some)
  /\ call' = [call EXCEPT ![c].pc = "issue", ![c].some = {}]
  /\ UNCHANGED <<standing, now>>

(* The first token of a new family.                                        *)
IssueTokenPair(c) ==
  /\ CallAt(c, "issue")
  /\ Insert(call[c].u, Len(token) + 1, "login")
  /\ CallEnds(c)
  /\ UNCHANGED <<standing, now>>

----
(* Refresh.                                                                *)
(* Mutant of FindByHash: reuse is forgiven however late.                   *)
FindByHashAnyGrace(c, i) ==
  /\ CallAt(c, "idle")
  /\ i \in Ids
  /\ call' = [call EXCEPT ![c] = [IdleCall EXCEPT
       !.t = i, !.u = token[i].user,
       !.pc = CASE ~Active(i) -> "loadGraceUser"
                [] Active(i) /\ Expired(i) -> "save"
                [] Active(i) /\ ~Expired(i) -> "loadUser"]]
  /\ UNCHANGED <<token, standing, now>>

(* findByHash, and what the row says at that moment.                       *)
FindByHash(c, i) ==
  /\ CallAt(c, "idle")
  /\ i \in Ids
  /\ call' = [call EXCEPT ![c] = [IdleCall EXCEPT
       !.t = i, !.u = token[i].user,
       !.pc = CASE IsWithinReuseGraceWindow(i) -> "loadGraceUser"
                [] ~Active(i) /\ ~IsWithinReuseGraceWindow(i) -> "revokeFamily"
                [] Active(i) /\ Expired(i) -> "save"
                [] Active(i) /\ ~Expired(i) -> "loadUser"]]
  /\ UNCHANGED <<token, standing, now>>

(* usersRepository.findById, and 401 for an account without standing.      *)
LoadUser(c) ==
  /\ \/ /\ CallAt(c, "loadUser") /\ standing[call[c].u]
        /\ CallGoto(c, "rotate")
     \/ /\ CallAt(c, "loadGraceUser") /\ standing[call[c].u]
        /\ CallGoto(c, "sibling")
     \/ /\ call[c].pc \in {"loadUser", "loadGraceUser"} /\ ~standing[call[c].u]
        /\ CallEnds(c)
  /\ UNCHANGED <<token, standing, now>>

(* Mutant of Rotated: the successor's id is taken before it is saved.      *)
RotatedUnsaved(i, how) ==
  /\ Len(token) < MaxTokens
  /\ token' = Append(
       [token EXCEPT ![i].revokedAt = now, ![i].replacedById = Len(token) + 2],
       NewRow(token[i].user, token[i].family, how))

(* rotateTokenPair, a transaction that locks the row and reads it again.   *)
(* Its two refusals throw, so that what they wrote is rolled back.         *)
Rotated(i, how) ==
  /\ Len(token) < MaxTokens
  /\ token' = Append(
       [token EXCEPT ![i].revokedAt = now, ![i].replacedById = Len(token) + 1],
       NewRow(token[i].user, token[i].family, how))

(* Mutant of RotateTokenPair: the row is not read again.                   *)
RotateTokenPairUnlocked(c) ==
  LET i == call[c].t IN
  /\ CallAt(c, "rotate")
  /\ Rotated(i, "rotation")
  /\ CallEnds(c)
  /\ UNCHANGED <<standing, now>>

RotateTokenPair(c) ==
  LET i == call[c].t IN
  /\ CallAt(c, "rotate")
  /\ \/ IsWithinReuseGraceWindow(i) /\ Insert(token[i].user, token[i].family, "sibling")
     \/ Active(i) /\ ~Expired(i) /\ Rotated(i, "rotation")
     \/ ~IsWithinReuseGraceWindow(i) /\ (~Active(i) \/ Expired(i)) /\ UNCHANGED token
  /\ CallEnds(c)
  /\ UNCHANGED <<standing, now>>

IssueFamilySibling(c) ==
  /\ CallAt(c, "sibling")
  /\ Insert(call[c].u, token[call[c].t].family, "sibling")
  /\ CallEnds(c)
  /\ UNCHANGED <<standing, now>>

(* Reuse of a token replaced too long ago.                                 *)
RevokeFamily(c) ==
  /\ CallAt(c, "revokeFamily")
  /\ Revoke({i \in Ids : token[i].family = token[call[c].t].family})
  /\ CallEnds(c)
  /\ UNCHANGED <<standing, now>>

----
(* Sign-out.                                                               *)

Logout(c, i) ==
  /\ CallAt(c, "idle")
  /\ i \in Ids /\ Active(i)
  /\ call' = [call EXCEPT
       ![c] = [IdleCall EXCEPT !.pc = "save", !.t = i, !.u = token[i].user]]
  /\ UNCHANGED <<token, standing, now>>

(* repository.revoke: the end of logout, and of a refresh that found its   *)
(* token expired.                                                          *)
SaveOne(c) ==
  /\ CallAt(c, "save")
  /\ SaveRevoked({call[c].t})
  /\ CallEnds(c)
  /\ UNCHANGED <<standing, now>>

(* logoutAllSessions, and the end of a password change or reset.           *)
RevokeAllActiveForUser(u) ==
  /\ Revoke({i \in Ids : token[i].user = u})
  /\ UNCHANGED <<standing, call, now>>

----
(* The account gains or loses its standing: verification, deactivation and *)
(* reactivation. Tokens are left as they are.                              *)
StandingChanges(u) ==
  /\ standing' = [standing EXCEPT ![u] = ~standing[u]]
  /\ UNCHANGED <<token, call, now>>

Tick ==
  /\ now < MaxTime
  /\ now' = now + 1
  /\ UNCHANGED <<token, standing, call>>

CallStep(c) ==
  \/ \E u \in Accounts : Login(c, u) \/ LoginWithGoogle(c, u)
  \/ CountActive(c) \/ FindOldest(c) \/ SaveEvicted(c) \/ IssueTokenPair(c)
  \/ \E i \in Ids : FindByHash(c, i) \/ Logout(c, i)
  \/ LoadUser(c) \/ RotateTokenPair(c) \/ IssueFamilySibling(c)
  \/ RevokeFamily(c) \/ SaveOne(c)

Hushed(c) ==
  quiet' = (IF token' = token THEN quiet ELSE quiet \cap {c})
             \cup (IF CallAt(c, "count") THEN {c} ELSE {})

SessionsNext ==
  \/ \E c \in Calls : CallStep(c) /\ Hushed(c)
  \/ \E u \in Accounts : RevokeAllActiveForUser(u) /\ quiet' = {}
  \/ \E u \in Accounts : StandingChanges(u) /\ UNCHANGED quiet
  \/ Tick /\ UNCHANGED quiet

SessionsSpec == SessionsInit /\ [][SessionsNext]_sessionVars

----
(* Two tabs or two handlers that refresh one token never split a session   *)
(* behind the back of the grace window: a family has at most one live token*)
(* more than it was given siblings. (rotateTokenPair reads the row again   *)
(* under its lock.)                                                        *)
Family(f) == {i \in Ids : token[i].family = f}

ForksAreGraced ==
  \A f \in Ids :
    Cardinality({i \in Family(f) : Active(i)})
      <= 1 + Cardinality({i \in Family(f) : token[i].how = "sibling"})

(* Sign-ins that count before each other's insert, rotations that dodge an *)
(* eviction and siblings all exceed the limit. The next sign-in during     *)
(* which no other handler writes brings the sessions back within it.       *)
QuietSignInRestoresLimit ==
  [][\A c \in quiet, u \in Accounts :
       call[c].u = u /\ IssueTokenPair(c) => Cardinality(ActiveOf(u)') <= MaxSessions]_sessionVars

(* A session that is over stays over: once every token of a family has     *)
(* been revoked for longer than the grace window, and whoever still holds  *)
(* one of them is about to revoke the family, no request - reuse, race,    *)
(* sign-out - revives it, or can come to a point where it would.           *)
Over(f) ==
  /\ Family(f) # {}
  /\ \A i \in Family(f) : ~Active(i) /\ ~IsWithinReuseGraceWindow(i)
  /\ \A c \in Calls :
       /\ call[c].t \in Family(f) => CallAt(c, "revokeFamily")
       /\ call[c].some \cap Family(f) = {}

OverStaysOver == [][\A f \in Ids : Over(f) => Over(f)']_sessionVars

(* The grace window is for the loser of a race to rotate a token: a sibling*)
(* is issued in reaction to a rotation. (auth-security.constants.ts:11-16.)*)
(* The code reacts to any revocation: a logout, an eviction, a reset.      *)
GraceIsForRotation ==
  [][\A c \in Calls : CallAt(c, "sibling") /\ IssueFamilySibling(c)
       => token[call[c].t].replacedById # NoToken]_sessionVars
====
