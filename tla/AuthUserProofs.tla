---- MODULE AuthUserProofs ----
(***************************************************************************)
(* Proofs about Sessions, SignIn and Credentials, and about MCAuthUser that*)
(* puts them side by side, for every set of accounts, handlers, passwords  *)
(* and types of event, every limit, grace window and lifetime.             *)
(*                                                                         *)
(* Sessions: CallsSound says what a handler between two awaits still holds.*)
(* The rest follows from what a step does to the rows: it leaves them,     *)
(* edits some in place (Edited), or inserts one (Inserted), a rotation     *)
(* both. For the limit, Counted is what a handler knows of its account's   *)
(* sessions while nobody else writes: SessionsTyped, ForksGraced,          *)
(* OverForGood, QuietSignInRestores.                                       *)
(*                                                                         *)
(* SignIn: GuessesInv relates the wrong passwords to the row and to the    *)
(* copies of it that handlers have loaded: SignInTyped, GuessingIsLimited. *)
(*                                                                         *)
(* Credentials: CredentialsInv says what a handler that updates a password *)
(* may rely on while no two updates overlap; LinksInv says what the issuer *)
(* of a link has seen to, and counts those who hold one: CredentialsTyped, *)
(* SpentStaysSpent.                                                        *)
(***************************************************************************)
EXTENDS MCAuthUser, FiniteSetTheorems, WellFoundedInduction, TLAPS

----
(* Sessions: what a handler holds.                                         *)

TokenOK ==
  /\ token \in Seq(RefreshToken)
  /\ \A i \in Ids : token[i].family \in 1 .. i /\ token[i].replacedById \in {NoToken} \cup Ids

(* The handlers that carry a row, and one that has begun has its user.     *)
CarriesToken == {"loadUser", "loadGraceUser", "rotate", "sibling", "revokeFamily", "save"}

SoundCall(state) ==
  /\ state \in Call
  /\ state.t \in {NoToken} \cup Ids /\ state.some \subseteq Ids
  /\ state.pc # "idle" => state.u \in Accounts
  /\ state.pc \in CarriesToken => state.t \in Ids

CallsSound == \A c \in Calls : SoundCall(call[c])

TypeInv == SessionsTypeOK /\ CallsSound

----
(* What a step does to the rows.                                           *)

(* Rows are edited in place: owner, family and origin stay.                *)
Edited ==
  /\ token' \in Seq(RefreshToken) /\ Len(token') = Len(token)
  /\ \A i \in Ids : /\ token'[i].user = token[i].user
                    /\ token'[i].family = token[i].family
                    /\ token'[i].how = token[i].how
                    /\ token'[i].replacedById \in {NoToken, token[i].replacedById}
                    /\ ~Active(i) => ~Active(i)'

(* A row is added behind the others.                                       *)
Inserted(row) ==
  /\ token' \in Seq(RefreshToken) /\ Len(token') = Len(token) + 1
  /\ \A i \in Ids : token'[i] = token[i]
  /\ token'[Len(token) + 1] = row

(* A function on the ids is a table of as many rows.                       *)
LEMMA TableIsSeq ==
  ASSUME NEW n \in Nat, NEW table \in [1 .. n -> RefreshToken]
  PROVE  table \in Seq(RefreshToken) /\ Len(table) = n
OBVIOUS

(* A row that is there.                                                    *)
LEMMA RowTyped ==
  ASSUME TokenOK, NEW i \in Ids
  PROVE  /\ token[i] \in RefreshToken /\ i \in Nat
         /\ token[i].user \in Accounts /\ token[i].family \in Nat \ {0}
         /\ token[i].family \in 1 .. i
<1>1. token[i] \in RefreshToken /\ i \in Nat
  BY DEF TokenOK, Ids
<1>. QED
  BY <1>1 DEF TokenOK, RefreshToken

(* A row that is revoked keeps owner, family and origin.                   *)
LEMMA RevokedRow ==
  ASSUME NEW r \in RefreshToken, NEW at \in Nat
  PROVE  LET new == [r EXCEPT !.revokedAt = at] IN
         /\ new \in RefreshToken
         /\ new.user = r.user /\ new.family = r.family /\ new.how = r.how
         /\ new.replacedById = r.replacedById /\ new.revokedAt = at
BY DEF RefreshToken

(* UPDATE ... WHERE revoked_at IS NULL edits, and leaves what was revoked. *)
LEMMA RevokeEdits ==
  ASSUME TokenOK, now \in Nat, NEW rows, Revoke(rows)
  PROVE  Edited /\ \A i \in Ids : i \notin rows \/ ~Active(i) => token'[i] = token[i]
<1> DEFINE new(i) == [token[i] EXCEPT !.revokedAt = now]
<1>1. ASSUME NEW i \in Ids
      PROVE  /\ token[i] \in RefreshToken /\ new(i) \in RefreshToken
             /\ new(i).user = token[i].user /\ new(i).family = token[i].family
             /\ new(i).how = token[i].how /\ new(i).replacedById = token[i].replacedById
  <2>1. token[i] \in RefreshToken
    BY DEF TokenOK, Ids
  <2>. QED
    BY <2>1, RevokedRow
<1>2. token' = [i \in Ids |-> IF i \in rows /\ Active(i) THEN new(i) ELSE token[i]]
  BY DEF Revoke
<1>. HIDE DEF new
<1>3. token' \in [Ids -> RefreshToken] /\ Len(token) \in Nat
  BY <1>1, <1>2 DEF TokenOK
<1>4. token' \in Seq(RefreshToken) /\ Len(token') = Len(token)
  BY <1>3, TableIsSeq DEF Ids
<1>5. \A i \in Ids : ~Active(i) => token'[i] = token[i]
  BY <1>2
<1>. QED
  BY <1>1, <1>2, <1>4, <1>5 DEF Edited, Active

(* So does a save of rows that were loaded live.                           *)
LEMMA SaveEdits ==
  ASSUME TokenOK, now \in Nat, NEW rows, SaveRevoked(rows)
  PROVE  Edited /\ \A i \in Ids : i \notin rows => token'[i] = token[i]
<1> DEFINE new(i) == [token[i] EXCEPT !.revokedAt = now, !.replacedById = NoToken]
<1>1. ASSUME NEW i \in Ids
      PROVE  /\ token[i] \in RefreshToken /\ new(i) \in RefreshToken
             /\ new(i).user = token[i].user /\ new(i).family = token[i].family
             /\ new(i).how = token[i].how /\ new(i).replacedById = NoToken
             /\ new(i).revokedAt # NotRevoked
  <2>1. token[i] \in RefreshToken
    BY DEF TokenOK, Ids
  <2>2. now # NotRevoked /\ NoToken \in Nat
    BY DEF NotRevoked, NoToken
  <2>3. new(i).revokedAt = now
    BY <2>1 DEF RefreshToken
  <2>. QED
    BY <2>1, <2>2, <2>3 DEF RefreshToken
<1>2. token' = [i \in Ids |-> IF i \in rows THEN new(i) ELSE token[i]]
  BY DEF SaveRevoked
<1>. HIDE DEF new
<1>3. token' \in [Ids -> RefreshToken] /\ Len(token) \in Nat
  BY <1>1, <1>2 DEF TokenOK
<1>4. token' \in Seq(RefreshToken) /\ Len(token') = Len(token)
  BY <1>3, TableIsSeq DEF Ids
<1>. QED
  BY <1>1, <1>2, <1>4 DEF Edited, Active

(* A row nobody has yet.                                                   *)
LEMMA NewRowTyped ==
  ASSUME SessionsAssumption, now \in Nat, NEW u \in Accounts, NEW family \in Nat \ {0},
         NEW how \in {"login", "rotation", "sibling"}
  PROVE  NewRow(u, family, how) \in RefreshToken
BY DEF SessionsAssumption, NewRow, RefreshToken, NotRevoked, NoToken

(* INSERT inserts.                                                         *)
LEMMA InsertInserts ==
  ASSUME TokenOK, now \in Nat, NEW u \in Accounts, NEW family \in Nat \ {0},
         NEW how \in {"login", "rotation", "sibling"}, Insert(u, family, how)
  PROVE  Inserted(NewRow(u, family, how))
<1> DEFINE row == NewRow(u, family, how)
<1>1. row \in RefreshToken
  BY NewRowTyped, SessionsAssumption
<1>2. token \in Seq(RefreshToken) /\ token' = Append(token, row)
  BY DEF TokenOK, Insert
<1>. HIDE DEF row
<1>3. Inserted(row)
  BY <1>1, <1>2 DEF Inserted, Ids
<1>. QED
  BY <1>3 DEF row

(* Edits keep the table in order ...                                       *)
LEMMA EditedTyped ==
  ASSUME TokenOK, Edited
  PROVE  TokenOK'
BY DEF TokenOK, Edited, Ids

(* ... and so do inserts into a family that is there or begins.            *)
LEMMA InsertedTyped ==
  ASSUME TokenOK, NEW row \in RefreshToken, Inserted(row), row.replacedById = NoToken,
         row.family \in 1 .. Len(token) + 1
  PROVE  TokenOK'
<1>1. Len(token) \in Nat
  BY DEF TokenOK
<1>. QED
  BY <1>1 DEF TokenOK, Inserted, Ids

(* A rotation does both: the row is revoked and linked, its successor      *)
(* added.                                                                  *)
LEMMA RotatedRows ==
  ASSUME SessionsAssumption, TokenOK, now \in Nat, NEW i \in Ids,
         NEW how \in {"login", "rotation", "sibling"}, Rotated(i, how)
  PROVE  LET row == NewRow(token[i].user, token[i].family, how)
             id  == Len(token) + 1
         IN /\ row \in RefreshToken
            /\ token' \in Seq(RefreshToken) /\ Len(token') = id
            /\ token'[id] = row
            /\ \A j \in Ids : j # i => token'[j] = token[j]
            /\ token'[i].user = token[i].user /\ token'[i].family = token[i].family
            /\ token'[i].how = token[i].how /\ token'[i].replacedById = id
            /\ token'[i].revokedAt = now
<1> DEFINE row  == NewRow(token[i].user, token[i].family, how)
           id   == Len(token) + 1
           gone == [token[i] EXCEPT !.revokedAt = now, !.replacedById = id]
           rest == [token EXCEPT ![i] = gone]
<1>1. token \in Seq(RefreshToken) /\ token[i] \in RefreshToken /\ Len(token) \in Nat
  BY DEF TokenOK, Ids
<1>2. row \in RefreshToken
  <2>1. token[i].user \in Accounts /\ token[i].family \in Nat \ {0}
    BY <1>1 DEF RefreshToken
  <2>. QED
    BY <2>1, NewRowTyped
<1>3. /\ gone \in RefreshToken
      /\ gone.user = token[i].user /\ gone.family = token[i].family
      /\ gone.how = token[i].how /\ gone.replacedById = id /\ gone.revokedAt = now
  <2>1. id \in Nat
    BY <1>1
  <2>. HIDE DEF id
  <2>. QED
    BY <1>1, <2>1 DEF RefreshToken
<1>4. token' = Append(rest, row)
  BY DEF Rotated
<1>. HIDE DEF row, gone
<1>5. /\ rest \in Seq(RefreshToken) /\ Len(rest) = Len(token) /\ rest[i] = gone
      /\ \A j \in Ids : j # i => rest[j] = token[j]
  BY <1>1, <1>3 DEF Ids
<1>. HIDE DEF rest
<1>6. /\ token' \in Seq(RefreshToken) /\ Len(token') = id /\ token'[id] = row
      /\ \A j \in Ids : token'[j] = rest[j]
  BY <1>1, <1>2, <1>4, <1>5 DEF Ids
<1>. QED
  BY <1>2, <1>3, <1>5, <1>6 DEF row

----
(* Types.                                                                  *)

(* A handler moves on, and no row disappears.                              *)
LEMMA CallsStep ==
  ASSUME TypeInv, NEW c \in Calls, NEW state, SoundCall(state),
         call' = [call EXCEPT ![c] = state],
         Len(token') \in Nat, Len(token') >= Len(token)
  PROVE  /\ call' \in [Calls -> Call] /\ CallsSound'
         /\ \A d \in Calls : call'[d].t \in {NoToken} \cup Ids' /\ call'[d].some \subseteq Ids'
<1>1. Ids \subseteq Ids'
  BY DEF Ids, TypeInv, SessionsTypeOK
<1>2. call \in [Calls -> Call]
  BY DEF TypeInv, SessionsTypeOK
<1>3. \A d \in Calls : call'[d] = state \/ call'[d] = call[d]
  BY <1>2
<1>4. call' \in [Calls -> Call]
  BY <1>2 DEF SoundCall
<1>5. \A d \in Calls : SoundCall(call'[d])
  BY <1>3 DEF TypeInv, CallsSound
<1>6. ASSUME NEW d \in Calls PROVE SoundCall(call[d])'
  BY <1>1, <1>5, <1>6 DEF SoundCall
<1>. QED
  BY <1>4, <1>6 DEF CallsSound, SoundCall

(* What CallEnds and the first step of a handler leave behind.             *)
LEMMA IdleSound == SoundCall(IdleCall)
BY DEF SoundCall, IdleCall, Call, CallPc, CarriesToken, NoToken

(* Counting sessions counts a finite set.                                  *)
LEMMA ActiveFinite ==
  ASSUME token \in Seq(RefreshToken), NEW u
  PROVE  ActiveOf(u) \subseteq Ids /\ Cardinality(ActiveOf(u)) \in Nat
<1>1. Len(token) \in Nat
  OBVIOUS
<1>2. IsFiniteSet(Ids)
  BY <1>1, FS_Interval DEF Ids
<1>3. ActiveOf(u) \subseteq Ids
  BY DEF ActiveOf
<1>. QED
  BY <1>2, <1>3, FS_Subset, FS_CardinalityType

(* A step of a handler leaves the table in order and its copies sound.     *)
LEMMA CallStepTyped ==
  ASSUME TypeInv, NEW c \in Calls, CallStep(c)
  PROVE  /\ TokenOK' /\ Len(token') >= Len(token) /\ UNCHANGED now
         /\ standing' \in [Accounts -> BOOLEAN]
         /\ \E state : SoundCall(state) /\ call' = [call EXCEPT ![c] = state]
<1>0. /\ TokenOK /\ now \in Nat /\ standing \in [Accounts -> BOOLEAN] /\ Len(token) \in Nat
      /\ call \in [Calls -> Call] /\ SoundCall(call[c])
  BY DEF TypeInv, SessionsTypeOK, TokenOK, CallsSound
<1>1. ASSUME UNCHANGED <<token, standing, now>>
      PROVE  /\ TokenOK' /\ Len(token') >= Len(token) /\ UNCHANGED now
             /\ standing' \in [Accounts -> BOOLEAN]
  BY <1>0, <1>1 DEF TokenOK, Ids
<1>2. ASSUME NEW u \in Accounts, Login(c, u) \/ LoginWithGoogle(c, u)
      PROVE  \E state : SoundCall(state) /\ call' = [call EXCEPT ![c] = state]
  <2> DEFINE state == [IdleCall EXCEPT !.pc = "count", !.u = u]
  <2>1. SoundCall(state)
    BY DEF SoundCall, IdleCall, Call, CallPc, CarriesToken, NoToken
  <2>. HIDE DEF state
  <2>. QED
    BY <1>2, <2>1 DEF Login, LoginWithGoogle, state
<1>3. CASE \E u \in Accounts : Login(c, u) \/ LoginWithGoogle(c, u)
  <2>1. TokenOK' /\ UNCHANGED <<token, now>> /\ standing' \in [Accounts -> BOOLEAN]
    BY <1>0, <1>3 DEF Login, LoginWithGoogle, TokenOK, Ids
  <2>. QED
    BY <1>0, <1>2, <1>3, <2>1
<1>4. CASE CountActive(c)
  <2> DEFINE count == Cardinality(ActiveOf(call[c].u))
             pc == IF count >= MaxSessions THEN "evict" ELSE "issue"
             n  == IF count >= MaxSessions THEN count - MaxSessions + 1 ELSE 0
             state == [call[c] EXCEPT !.pc = pc, !.n = n]
  <2>1. count \in Nat
    BY <1>0, ActiveFinite DEF TokenOK
  <2>2. pc \in {"evict", "issue"} /\ n \in Nat
    BY <2>1, SessionsAssumption DEF SessionsAssumption
  <2>3. UNCHANGED <<token, standing, now>> /\ call[c].pc = "count"
        /\ call' = [call EXCEPT ![c] = state]
    BY <1>0, <1>4 DEF CountActive, CallAt
  <2>. HIDE DEF pc, n
  <2>4. SoundCall(state)
    BY <1>0, <2>2, <2>3 DEF SoundCall, Call, CallPc, CarriesToken
  <2>. QED
    BY <1>1, <2>3, <2>4
<1>5. CASE FindOldest(c)
  <2> DEFINE some  == Oldest(call[c].n, ActiveOf(call[c].u))
             state == [call[c] EXCEPT !.pc = "saveEvicted", !.some = some]
  <2>1. some \subseteq Ids
    BY DEF Oldest, ActiveOf
  <2>2. UNCHANGED <<token, standing, now>> /\ call[c].pc = "evict"
        /\ call' = [call EXCEPT ![c] = state]
    BY <1>0, <1>5 DEF FindOldest, CallAt
  <2>3. Ids \subseteq Nat
    BY <1>0 DEF Ids
  <2>. HIDE DEF some
  <2>4. SoundCall(state)
    BY <1>0, <2>1, <2>2, <2>3 DEF SoundCall, Call, CallPc, CarriesToken
  <2>. QED
    BY <1>1, <2>2, <2>4
<1>6. CASE SaveEvicted(c)
  <2> DEFINE state == [call[c] EXCEPT !.pc = "issue", !.some = {}]
  <2>1. Edited
    BY <1>0, <1>6, SaveEdits DEF SaveEvicted
  <2>2. UNCHANGED <<standing, now>> /\ call[c].pc = "saveEvicted"
        /\ call' = [call EXCEPT ![c] = state]
    BY <1>0, <1>6 DEF SaveEvicted, CallAt
  <2>3. SoundCall(state)
    BY <1>0, <2>2 DEF SoundCall, Call, CallPc, CarriesToken
  <2>4. TokenOK' /\ Len(token') >= Len(token)
    BY <1>0, <2>1, EditedTyped DEF Edited
  <2>. QED
    BY <1>0, <2>2, <2>3, <2>4
<1>7. ASSUME CallEnds(c) PROVE \E state : SoundCall(state) /\ call' = [call EXCEPT ![c] = state]
  BY <1>7, IdleSound DEF CallEnds
<1>8. CASE IssueTokenPair(c)
  <2> DEFINE row == NewRow(call[c].u, Len(token) + 1, "login")
  <2>1. call[c].u \in Accounts
    BY <1>0, <1>8 DEF IssueTokenPair, CallAt, SoundCall
  <2>2. Inserted(row) /\ row \in RefreshToken
    BY <1>0, <1>8, <2>1, InsertInserts, NewRowTyped, SessionsAssumption DEF IssueTokenPair
  <2>3. row.replacedById = NoToken /\ row.family \in 1 .. Len(token) + 1
    BY <1>0 DEF NewRow
  <2>. HIDE DEF row
  <2>4. TokenOK' /\ Len(token') >= Len(token)
    BY <1>0, <2>2, <2>3, InsertedTyped DEF Inserted
  <2>. QED
    BY <1>0, <1>7, <1>8, <2>4 DEF IssueTokenPair
<1>9. CASE \E i \in Ids : FindByHash(c, i)
  <2>1. PICK i \in Ids : FindByHash(c, i)
    BY <1>9
  <2> DEFINE pc == CASE IsWithinReuseGraceWindow(i) -> "loadGraceUser"
                [] ~Active(i) /\ ~IsWithinReuseGraceWindow(i) -> "revokeFamily"
                [] Active(i) /\ Expired(i) -> "save"
                [] Active(i) /\ ~Expired(i) -> "loadUser"
             state == [IdleCall EXCEPT !.t = i, !.u = token[i].user, !.pc = pc]
  <2>2. pc \in {"loadGraceUser", "revokeFamily", "save", "loadUser"}
    OBVIOUS
  <2>3. token[i].user \in Accounts /\ i \in Nat
    BY <1>0, RowTyped
  <2>4. UNCHANGED <<token, standing, now>> /\ call' = [call EXCEPT ![c] = state]
    BY <2>1 DEF FindByHash
  <2>. HIDE DEF pc
  <2>5. SoundCall(state)
    BY <2>2, <2>3 DEF SoundCall, IdleCall, Call, CallPc, CarriesToken, NoToken
  <2>. QED
    BY <1>1, <2>4, <2>5
<1>10. CASE \E i \in Ids : Logout(c, i)
  <2>1. PICK i \in Ids : Logout(c, i)
    BY <1>10
  <2> DEFINE state == [IdleCall EXCEPT !.pc = "save", !.t = i, !.u = token[i].user]
  <2>2. token[i].user \in Accounts /\ i \in Nat
    BY <1>0, RowTyped
  <2>3. UNCHANGED <<token, standing, now>> /\ call' = [call EXCEPT ![c] = state]
    BY <2>1 DEF Logout
  <2>4. SoundCall(state)
    BY <2>2 DEF SoundCall, IdleCall, Call, CallPc, CarriesToken, NoToken
  <2>. QED
    BY <1>1, <2>3, <2>4
<1>11. CASE LoadUser(c)
  <2>1. CASE CallEnds(c)
    BY <1>1, <1>7, <1>11, <2>1 DEF LoadUser
  <2>2. CASE ~CallEnds(c)
    <3>1. PICK pc \in {"rotate", "sibling"} : CallGoto(c, pc)
      BY <1>11, <2>2 DEF LoadUser
    <3> DEFINE state == [call[c] EXCEPT !.pc = pc]
    <3>2. UNCHANGED <<token, standing, now>> /\ call[c].pc \in {"loadUser", "loadGraceUser"}
          /\ call' = [call EXCEPT ![c] = state]
      BY <1>0, <1>11, <3>1 DEF LoadUser, CallAt, CallGoto
    <3>3. SoundCall(state)
      BY <1>0, <3>2 DEF SoundCall, Call, CallPc, CarriesToken
    <3>. QED
      BY <1>1, <3>2, <3>3
  <2>. QED
    BY <2>1, <2>2
<1>12. CASE RotateTokenPair(c)
  <2> DEFINE i == call[c].t
             row(how) == NewRow(token[i].user, token[i].family, how)
  <2>1. i \in Ids /\ CallEnds(c) /\ UNCHANGED <<standing, now>>
    BY <1>0, <1>12 DEF RotateTokenPair, CallAt, SoundCall, CarriesToken
  <2>2. token[i].user \in Accounts /\ token[i].family \in Nat \ {0} /\ token[i].family \in 1 .. i
    BY <1>0, <2>1, RowTyped
  <2>3. CASE Insert(token[i].user, token[i].family, "sibling")
    <3>1. Inserted(row("sibling")) /\ row("sibling") \in RefreshToken
      BY <1>0, <2>2, <2>3, InsertInserts, NewRowTyped, SessionsAssumption
    <3>2. row("sibling").replacedById = NoToken /\ row("sibling").family \in 1 .. Len(token) + 1
      BY <1>0, <2>1, <2>2 DEF NewRow, Ids
    <3>. HIDE DEF row
    <3>. QED
      BY <1>0, <1>7, <2>1, <3>1, <3>2, InsertedTyped DEF Inserted
  <2>4. CASE Rotated(i, "rotation")
    <3>1. row("rotation").replacedById = NoToken /\ row("rotation").family = token[i].family
      BY DEF NewRow
    <3>2. /\ token' \in Seq(RefreshToken) /\ Len(token') = Len(token) + 1
          /\ token'[Len(token) + 1] = row("rotation")
          /\ \A j \in Ids : j # i => token'[j] = token[j]
          /\ token'[i].family = token[i].family /\ token'[i].replacedById = Len(token) + 1
      BY <1>0, <2>1, <2>4, RotatedRows, SessionsAssumption
    <3>. HIDE DEF row
    <3>3. TokenOK'
      BY <1>0, <2>1, <2>2, <3>1, <3>2 DEF TokenOK, Ids
    <3>. QED
      BY <1>0, <1>7, <2>1, <3>2, <3>3
  <2>5. CASE UNCHANGED token
    BY <1>1, <1>7, <2>1, <2>5
  <2>. QED
    BY <1>12, <2>3, <2>4, <2>5 DEF RotateTokenPair
<1>13. CASE IssueFamilySibling(c)
  <2> DEFINE i   == call[c].t
             row == NewRow(call[c].u, token[i].family, "sibling")
  <2>1. i \in Ids /\ call[c].u \in Accounts /\ CallEnds(c) /\ UNCHANGED <<standing, now>>
    BY <1>0, <1>13 DEF IssueFamilySibling, CallAt, SoundCall, CarriesToken
  <2>2. token[i].family \in Nat \ {0} /\ token[i].family \in 1 .. i
    BY <1>0, <2>1, RowTyped
  <2>3. Inserted(row) /\ row \in RefreshToken
    BY <1>0, <1>13, <2>1, <2>2, InsertInserts, NewRowTyped, SessionsAssumption
    DEF IssueFamilySibling
  <2>4. row.replacedById = NoToken /\ row.family \in 1 .. Len(token) + 1
    BY <1>0, <2>1, <2>2 DEF NewRow, Ids
  <2>. HIDE DEF row
  <2>. QED
    BY <1>0, <1>7, <2>1, <2>3, <2>4, InsertedTyped DEF Inserted
<1>14. CASE RevokeFamily(c) \/ SaveOne(c)
  <2>1. Edited
    BY <1>0, <1>14, SaveEdits, RevokeEdits DEF RevokeFamily, SaveOne
  <2>2. TokenOK' /\ Len(token') >= Len(token)
    BY <1>0, <2>1, EditedTyped DEF Edited
  <2>. QED
    BY <1>0, <1>7, <1>14, <2>2 DEF RevokeFamily, SaveOne
<1>. QED
  BY <1>3, <1>4, <1>5, <1>6, <1>8, <1>9, <1>10, <1>11, <1>12, <1>13, <1>14 DEF CallStep

(* Initially there is nothing.                                             *)
LEMMA InitTyped == SessionsInit => TypeInv
<1> SUFFICES ASSUME SessionsInit PROVE TypeInv
  OBVIOUS
<1>1. token = <<>> /\ Ids = {}
  BY DEF SessionsInit, Ids
<1>2. \A c \in Calls : call[c] = IdleCall
  BY DEF SessionsInit
<1>3. IdleCall \in Call /\ IdleCall.t = NoToken /\ IdleCall.some = {}
  BY DEF IdleCall, Call, CallPc, NoToken
<1>4. call \in [Calls -> Call]
  BY <1>3 DEF SessionsInit
<1>. QED
  BY <1>1, <1>2, <1>3, <1>4, IdleSound DEF SessionsInit, TypeInv, SessionsTypeOK, CallsSound

(* Every step keeps the types and the handlers' copies.                    *)
LEMMA StepTyped ==
  TypeInv /\ [SessionsNext]_sessionVars => TypeInv'
<1> SUFFICES ASSUME TypeInv, [SessionsNext]_sessionVars PROVE TypeInv'
  OBVIOUS
<1>0. /\ TokenOK /\ now \in Nat /\ standing \in [Accounts -> BOOLEAN] /\ Len(token) \in Nat
      /\ quiet \subseteq Calls
  BY DEF TypeInv, SessionsTypeOK, TokenOK
<1>1. ASSUME NEW c \in Calls, CallStep(c), Hushed(c) PROVE TypeInv'
  <2>1. /\ TokenOK' /\ Len(token') >= Len(token) /\ UNCHANGED now
        /\ standing' \in [Accounts -> BOOLEAN]
    BY <1>1, CallStepTyped
  <2>2. PICK state : SoundCall(state) /\ call' = [call EXCEPT ![c] = state]
    BY <1>1, CallStepTyped
  <2>3. Len(token') \in Nat
    BY <2>1 DEF TokenOK
  <2>4. quiet' \subseteq Calls
    BY <1>0, <1>1 DEF Hushed
  <2>. QED
    BY <1>0, <2>1, <2>2, <2>3, <2>4, CallsStep DEF TypeInv, SessionsTypeOK, TokenOK
<1>2. ASSUME NEW u \in Accounts, RevokeAllActiveForUser(u), quiet' = {} PROVE TypeInv'
  <2>1. Edited /\ UNCHANGED <<standing, call, now>>
    BY <1>0, <1>2, RevokeEdits DEF RevokeAllActiveForUser
  <2>2. TokenOK' /\ Ids' = Ids
    BY <1>0, <2>1, EditedTyped DEF Edited, Ids
  <2>. QED
    BY <1>2, <2>1, <2>2 DEF TypeInv, SessionsTypeOK, TokenOK, CallsSound, SoundCall
<1>3. ASSUME UNCHANGED <<token, call, quiet>>, now' \in Nat, standing' \in [Accounts -> BOOLEAN]
      PROVE  TypeInv'
  BY <1>0, <1>3 DEF TypeInv, SessionsTypeOK, CallsSound, SoundCall, Ids
<1>4. ASSUME NEW u \in Accounts, StandingChanges(u) PROVE standing' \in [Accounts -> BOOLEAN]
  BY <1>0, <1>4 DEF StandingChanges
<1>. QED
  BY <1>0, <1>1, <1>2, <1>3, <1>4 DEF SessionsNext, StandingChanges, Tick, sessionVars

(* Rows and handlers keep their shapes, families are begun by a sign-in,   *)
(* and what a handler carries still exists.                                *)
THEOREM SessionsTyped == SessionsSpec => []SessionsTypeOK
<1>1. TypeInv => SessionsTypeOK
  BY DEF TypeInv
<1>. QED
  BY InitTyped, StepTyped, <1>1, PTL DEF SessionsSpec

----
(* Forks.                                                                  *)

ActiveIn(f)   == {i \in Family(f) : Active(i)}
SiblingsIn(f) == {i \in Family(f) : token[i].how = "sibling"}

(* The tokens of a family are finitely many.                               *)
LEMMA FamilyFinite ==
  ASSUME TokenOK, NEW f
  PROVE  /\ IsFiniteSet(ActiveIn(f)) /\ IsFiniteSet(SiblingsIn(f))
         /\ Cardinality(ActiveIn(f)) \in Nat /\ Cardinality(SiblingsIn(f)) \in Nat
<1>1. Len(token) \in Nat
  BY DEF TokenOK
<1>2. IsFiniteSet(Ids)
  BY <1>1, FS_Interval DEF Ids
<1>3. ActiveIn(f) \subseteq Ids /\ SiblingsIn(f) \subseteq Ids
  BY DEF ActiveIn, SiblingsIn, Family
<1>. QED
  BY <1>2, <1>3, FS_Subset, FS_CardinalityType

(* An edit makes no token of a family live.                                *)
LEMMA EditedGraced ==
  ASSUME TokenOK, Edited, ForksAreGraced
  PROVE  ForksAreGraced'
<1>1. Ids' = Ids /\ TokenOK'
  BY EditedTyped DEF Edited, Ids
<1>2. ASSUME NEW f \in Ids
      PROVE  Cardinality(ActiveIn(f)') <= 1 + Cardinality(SiblingsIn(f)')
  <2>1. ActiveIn(f)' \subseteq ActiveIn(f) /\ SiblingsIn(f)' = SiblingsIn(f)
    BY <1>1 DEF Edited, ActiveIn, SiblingsIn, Family
  <2>2. Cardinality(ActiveIn(f)) <= 1 + Cardinality(SiblingsIn(f))
    BY DEF ForksAreGraced, ActiveIn, SiblingsIn
  <2>3. /\ IsFiniteSet(ActiveIn(f)) /\ Cardinality(ActiveIn(f)) \in Nat
        /\ Cardinality(SiblingsIn(f)) \in Nat
    BY FamilyFinite
  <2>4. /\ Cardinality(ActiveIn(f)') <= Cardinality(ActiveIn(f))
        /\ Cardinality(ActiveIn(f)') \in Nat
    BY <2>1, <2>3, FS_Subset, FS_CardinalityType
  <2>. QED
    BY <2>1, <2>2, <2>3, <2>4
<1>. QED
  BY <1>1, <1>2 DEF ForksAreGraced, ActiveIn, SiblingsIn

(* A row that begins a family is its only one; any other is a sibling.     *)
LEMMA InsertedGraced ==
  ASSUME TokenOK, ForksAreGraced, NEW row \in RefreshToken, Inserted(row),
         row.family = Len(token) + 1 \/ row.how = "sibling"
  PROVE  ForksAreGraced'
<1> DEFINE id == Len(token) + 1
<1>0. id \in Nat \ {0} /\ id \notin Ids /\ Ids' = Ids \cup {id} /\ token'[id] = row
      /\ \A i \in Ids : token'[i] = token[i] /\ token[i].family \in Ids
  BY RowTyped DEF TokenOK, Ids, Inserted
<1>. HIDE DEF id
<1>1. ASSUME NEW f \in Ids', f = id
      PROVE  Cardinality(ActiveIn(f)') <= 1 + Cardinality(SiblingsIn(f)')
  <2>1. ActiveIn(f)' \subseteq {id} /\ SiblingsIn(f)' \subseteq {id}
    BY <1>0, <1>1 DEF ActiveIn, SiblingsIn, Family
  <2>2. IsFiniteSet({id}) /\ Cardinality({id}) = 1
    BY FS_Singleton
  <2>3. Cardinality(ActiveIn(f)') <= 1 /\ Cardinality(SiblingsIn(f)') \in Nat
    BY <2>1, <2>2, FS_Subset, FS_CardinalityType
  <2>4. Cardinality(ActiveIn(f)') \in Nat
    BY <2>1, <2>2, FS_Subset, FS_CardinalityType
  <2>. QED
    BY <2>3, <2>4
<1>2. ASSUME NEW f \in Ids
      PROVE  Cardinality(ActiveIn(f)') <= 1 + Cardinality(SiblingsIn(f)')
  <2>1. Cardinality(ActiveIn(f)) <= 1 + Cardinality(SiblingsIn(f))
    BY DEF ForksAreGraced, ActiveIn, SiblingsIn
  <2>2. /\ IsFiniteSet(ActiveIn(f)) /\ Cardinality(ActiveIn(f)) \in Nat
        /\ IsFiniteSet(SiblingsIn(f)) /\ Cardinality(SiblingsIn(f)) \in Nat
    BY FamilyFinite
  <2>3. CASE row.family # f
    <3>1. ActiveIn(f)' = ActiveIn(f) /\ SiblingsIn(f)' = SiblingsIn(f)
      BY <1>0, <2>3 DEF ActiveIn, SiblingsIn, Family, Active
    <3>. QED
      BY <2>1, <3>1
  <2>4. CASE row.family = f
    <3>1. row.how = "sibling"
      BY <1>0, <2>4 DEF id
    <3>2. /\ ActiveIn(f)' \subseteq ActiveIn(f) \cup {id}
          /\ SiblingsIn(f)' = SiblingsIn(f) \cup {id} /\ id \notin SiblingsIn(f)
          /\ id \notin ActiveIn(f)
      BY <1>0, <2>4, <3>1 DEF ActiveIn, SiblingsIn, Family, Active
    <3>3. /\ IsFiniteSet(ActiveIn(f) \cup {id})
          /\ Cardinality(ActiveIn(f) \cup {id}) = Cardinality(ActiveIn(f)) + 1
          /\ Cardinality(SiblingsIn(f)') = Cardinality(SiblingsIn(f)) + 1
      BY <2>2, <3>2, FS_AddElement
    <3>4. /\ Cardinality(ActiveIn(f)') <= Cardinality(ActiveIn(f)) + 1
          /\ Cardinality(ActiveIn(f)') \in Nat
      BY <2>2, <3>2, <3>3, FS_Subset, FS_CardinalityType
    <3>. QED
      BY <2>1, <2>2, <3>3, <3>4
  <2>. QED
    BY <2>3, <2>4
<1>. QED
  BY <1>0, <1>1, <1>2 DEF ForksAreGraced, ActiveIn, SiblingsIn

(* A rotation puts one live token in the place of another.                 *)
LEMMA RotatedGraced ==
  ASSUME TokenOK, now \in Nat, ForksAreGraced, NEW i \in Ids, Active(i), Rotated(i, "rotation")
  PROVE  ForksAreGraced'
<1> DEFINE id  == Len(token) + 1
           row == NewRow(token[i].user, token[i].family, "rotation")
<1>1. /\ token' \in Seq(RefreshToken) /\ Len(token') = id /\ token'[id] = row
      /\ \A j \in Ids : j # i => token'[j] = token[j]
      /\ token'[i].family = token[i].family /\ token'[i].how = token[i].how
      /\ token'[i].revokedAt = now
  BY RotatedRows, SessionsAssumption
<1>2. row.family = token[i].family /\ row.how = "rotation"
  BY DEF NewRow
<1>3. id \in Nat \ {0} /\ id \notin Ids /\ Ids' = Ids \cup {id}
      /\ \A j \in Ids : token[j].family \in Ids
  <2>1. Len(token) \in Nat /\ Len(token') = id
    BY <1>1 DEF TokenOK
  <2>2. \A j \in Ids : token[j].family \in Ids
    BY <2>1, RowTyped DEF Ids
  <2>3. id \in Nat \ {0} /\ id \notin Ids
    BY <2>1 DEF Ids
  <2>4. 1 .. Len(token) + 1 = 1 .. Len(token) \cup {Len(token) + 1}
    BY <2>1
  <2>. QED
    BY <2>1, <2>2, <2>3, <2>4 DEF Ids
<1>4. now # NotRevoked
  BY DEF NotRevoked
<1>. HIDE DEF id, row
<1>5. ASSUME NEW f \in Ids', f = id
      PROVE  Cardinality(ActiveIn(f)') <= 1 + Cardinality(SiblingsIn(f)')
  <2>1. ActiveIn(f)' = {} /\ SiblingsIn(f)' = {}
    BY <1>1, <1>2, <1>3, <1>5 DEF ActiveIn, SiblingsIn, Family
  <2>2. Cardinality(ActiveIn(f)') = 0 /\ Cardinality(SiblingsIn(f)') = 0
    BY <2>1, FS_EmptySet
  <2>. QED
    BY <2>2
<1>6. ASSUME NEW f \in Ids
      PROVE  Cardinality(ActiveIn(f)') <= 1 + Cardinality(SiblingsIn(f)')
  <2>1. Cardinality(ActiveIn(f)) <= 1 + Cardinality(SiblingsIn(f))
    BY DEF ForksAreGraced, ActiveIn, SiblingsIn
  <2>2. /\ IsFiniteSet(ActiveIn(f)) /\ Cardinality(ActiveIn(f)) \in Nat
        /\ Cardinality(SiblingsIn(f)) \in Nat
    BY FamilyFinite
  <2>3. SiblingsIn(f)' = SiblingsIn(f)
    BY <1>1, <1>2, <1>3 DEF SiblingsIn, Family
  <2>4. CASE token[i].family # f
    <3>1. ActiveIn(f)' = ActiveIn(f)
      BY <1>1, <1>2, <1>3, <2>4 DEF ActiveIn, Family, Active
    <3>. QED
      BY <2>1, <2>3, <3>1
  <2>5. CASE token[i].family = f
    <3> DEFINE rest == ActiveIn(f) \ {i}
    <3>1. ActiveIn(f)' \subseteq rest \cup {id}
      BY <1>1, <1>2, <1>3, <1>4, <2>5 DEF ActiveIn, Family, Active
    <3>2. i \in ActiveIn(f) /\ id \notin rest
      BY <1>3, <2>5 DEF ActiveIn, Family
    <3>3. IsFiniteSet(rest) /\ Cardinality(rest) = Cardinality(ActiveIn(f)) - 1
      BY <2>2, <3>2, FS_RemoveElement
    <3>4. /\ IsFiniteSet(rest \cup {id})
          /\ Cardinality(rest \cup {id}) = Cardinality(ActiveIn(f))
      BY <2>2, <3>2, <3>3, FS_AddElement
    <3>5. Cardinality(ActiveIn(f)') <= Cardinality(ActiveIn(f))
          /\ Cardinality(ActiveIn(f)') \in Nat
      BY <3>1, <3>4, FS_Subset, FS_CardinalityType
    <3>. QED
      BY <2>1, <2>2, <2>3, <3>5
  <2>. QED
    BY <2>4, <2>5
<1>. QED
  BY <1>3, <1>5, <1>6 DEF ForksAreGraced, ActiveIn, SiblingsIn

(* Every step of the service is one of these.                              *)
LEMMA StepGraced ==
  TypeInv /\ ForksAreGraced /\ [SessionsNext]_sessionVars => ForksAreGraced'
<1> SUFFICES ASSUME TypeInv, ForksAreGraced, [SessionsNext]_sessionVars PROVE ForksAreGraced'
  OBVIOUS
<1>0. TokenOK /\ now \in Nat
  BY DEF TypeInv, SessionsTypeOK, TokenOK
<1>1. CASE UNCHANGED token
  BY <1>1 DEF ForksAreGraced, Family, Ids, Active
<1>2. ASSUME NEW c \in Calls, CallStep(c), token' # token PROVE ForksAreGraced'
  <2>0. SoundCall(call[c])
    BY DEF TypeInv, CallsSound
  <2>1. CASE SaveEvicted(c) \/ RevokeFamily(c) \/ SaveOne(c)
    BY <1>0, <2>1, SaveEdits, RevokeEdits, EditedGraced DEF SaveEvicted, RevokeFamily, SaveOne
  <2>2. CASE IssueTokenPair(c)
    <3> DEFINE row == NewRow(call[c].u, Len(token) + 1, "login")
    <3>1. call[c].u \in Accounts /\ Len(token) \in Nat
      BY <1>0, <2>0, <2>2 DEF IssueTokenPair, CallAt, SoundCall, TokenOK
    <3>2. Inserted(row) /\ row \in RefreshToken
      BY <1>0, <2>2, <3>1, InsertInserts, NewRowTyped, SessionsAssumption DEF IssueTokenPair
    <3>3. row.family = Len(token) + 1
      BY DEF NewRow
    <3>. HIDE DEF row
    <3>. QED
      BY <1>0, <3>2, <3>3, InsertedGraced
  <2>3. ASSUME NEW u \in Accounts, NEW family \in Nat \ {0}, Insert(u, family, "sibling")
        PROVE  ForksAreGraced'
    <3> DEFINE row == NewRow(u, family, "sibling")
    <3>1. Inserted(row) /\ row \in RefreshToken
      BY <1>0, <2>3, InsertInserts, NewRowTyped, SessionsAssumption
    <3>2. row.how = "sibling"
      BY DEF NewRow
    <3>. HIDE DEF row
    <3>. QED
      BY <1>0, <3>1, <3>2, InsertedGraced
  <2>4. CASE IssueFamilySibling(c)
    <3>1. call[c].t \in Ids /\ call[c].u \in Accounts
      BY <2>0, <2>4 DEF IssueFamilySibling, CallAt, SoundCall, CarriesToken
    <3>. QED
      BY <1>0, <2>3, <2>4, <3>1, RowTyped DEF IssueFamilySibling
  <2>5. CASE RotateTokenPair(c)
    <3>1. call[c].t \in Ids
      BY <2>0, <2>5 DEF RotateTokenPair, CallAt, SoundCall, CarriesToken
    <3>2. CASE Insert(token[call[c].t].user, token[call[c].t].family, "sibling")
      BY <1>0, <2>3, <3>1, <3>2, RowTyped
    <3>3. CASE Active(call[c].t) /\ Rotated(call[c].t, "rotation")
      BY <1>0, <3>1, <3>3, RotatedGraced
    <3>. QED
      BY <1>2, <2>5, <3>2, <3>3 DEF RotateTokenPair
  <2>. QED
    BY <1>2, <2>1, <2>2, <2>4, <2>5
    DEF CallStep, Login, LoginWithGoogle, CountActive, FindOldest, FindByHash, Logout, LoadUser
<1>3. ASSUME NEW u \in Accounts, RevokeAllActiveForUser(u) PROVE ForksAreGraced'
  BY <1>0, <1>3, RevokeEdits, EditedGraced DEF RevokeAllActiveForUser
<1>. QED
  BY <1>1, <1>2, <1>3 DEF SessionsNext, StandingChanges, Tick, sessionVars

(* Refreshes that race never split a session behind the back of the grace  *)
(* window, however many of them there are and whenever they read their row.*)
THEOREM ForksGraced == SessionsSpec => []ForksAreGraced
<1>1. SessionsInit => ForksAreGraced
  BY DEF SessionsInit, ForksAreGraced, Ids
<1>. QED
  BY InitTyped, StepTyped, StepGraced, <1>1, PTL DEF SessionsSpec

----
(* The end of a session.                                                   *)

(* The rows of a family stay as they are, and no row joins it.             *)
FamilyRests(f) ==
  /\ Family(f)' = Family(f)
  /\ \A i \in Family(f) : token'[i] = token[i]
  /\ now' \in Nat /\ now' >= now

NobodyRevives(f, state) ==
  /\ state.t \in Family(f) => state.pc = "revokeFamily"
  /\ state.some \cap Family(f) = {}

(* Time only takes a family that rests further from the grace window.      *)
LEMMA RestingStaysOver ==
  ASSUME TokenOK, now \in Nat, NEW f \in Ids, Over(f), FamilyRests(f),
         \A c \in Calls : NobodyRevives(f, call'[c])
  PROVE  Over(f)'
<1>1. ASSUME NEW i \in Family(f)
      PROVE  ~Active(i)' /\ ~IsWithinReuseGraceWindow(i)'
  <2>1. token[i].revokedAt \in Int
    BY RowTyped DEF Family, RefreshToken, NotRevoked
  <2>2. ~Active(i) /\ now - token[i].revokedAt >= Grace
    BY <2>1, SessionsAssumption DEF Over, IsWithinReuseGraceWindow, SessionsAssumption
  <2>3. token'[i] = token[i] /\ now' - token[i].revokedAt >= Grace
    BY <2>1, <2>2, SessionsAssumption DEF FamilyRests, SessionsAssumption
  <2>. QED
    BY <2>1, <2>2, <2>3, SessionsAssumption
    DEF Active, IsWithinReuseGraceWindow, FamilyRests, SessionsAssumption
<1>2. \A c \in Calls : /\ call'[c].t \in Family(f)' => call'[c].pc = "revokeFamily"
                       /\ call'[c].some \cap Family(f)' = {}
  BY DEF FamilyRests, NobodyRevives
<1>. QED
  BY <1>1, <1>2 DEF Over, FamilyRests, CallAt

(* Edits of rows of other families, or that spare what was revoked.        *)
LEMMA EditedRests ==
  ASSUME TokenOK, Edited, UNCHANGED now, now \in Nat, NEW f,
         \A i \in Family(f) : token'[i] = token[i]
  PROVE  FamilyRests(f)
<1>1. Ids' = Ids
  BY DEF Edited, Ids
<1>. QED
  BY <1>1 DEF Edited, Family, FamilyRests

(* A row of another family.                                                *)
LEMMA InsertedRests ==
  ASSUME TokenOK, NEW row, Inserted(row), UNCHANGED now, now \in Nat, NEW f, row.family # f
  PROVE  FamilyRests(f)
<1>1. Ids' = Ids \cup {Len(token) + 1}
  BY DEF TokenOK, Inserted, Ids
<1>. QED
  BY <1>1 DEF Inserted, Family, FamilyRests

(* A rotation in another family.                                           *)
LEMMA RotatedRests ==
  ASSUME TokenOK, UNCHANGED now, now \in Nat, NEW i \in Ids, Rotated(i, "rotation"),
         NEW f, token[i].family # f
  PROVE  FamilyRests(f)
<1> DEFINE id  == Len(token) + 1
           row == NewRow(token[i].user, token[i].family, "rotation")
<1>1. /\ token' \in Seq(RefreshToken) /\ Len(token') = id /\ token'[id] = row
      /\ \A j \in Ids : j # i => token'[j] = token[j]
      /\ token'[i].family = token[i].family
  BY RotatedRows, SessionsAssumption
<1>2. row.family = token[i].family
  BY DEF NewRow
<1>3. Ids' = Ids \cup {id}
  BY <1>1 DEF TokenOK, Ids
<1>. HIDE DEF id, row
<1>. QED
  BY <1>1, <1>2, <1>3 DEF Family, FamilyRests

(* A handler that moves on without a row of the family.                    *)
LEMMA OneMoves ==
  ASSUME call \in [Calls -> Call], NEW f \in Ids, Over(f), NEW c \in Calls, NEW state,
         call' = [call EXCEPT ![c] = state], NobodyRevives(f, state)
  PROVE  \A d \in Calls : NobodyRevives(f, call'[d])
<1>1. \A d \in Calls : call'[d] = state \/ call'[d] = call[d]
  OBVIOUS
<1>. QED
  BY <1>1 DEF Over, NobodyRevives, CallAt

(* No step of a handler touches a session that is over.                    *)
LEMMA CallStepRests ==
  ASSUME TypeInv, NEW f \in Ids, Over(f), NEW c \in Calls, CallStep(c)
  PROVE  FamilyRests(f) /\ \A d \in Calls : NobodyRevives(f, call'[d])
<1>0. /\ TokenOK /\ now \in Nat /\ Len(token) \in Nat
      /\ call \in [Calls -> Call] /\ SoundCall(call[c]) /\ NobodyRevives(f, call[c])
      /\ Family(f) \subseteq Ids /\ NoToken \notin Ids
  BY DEF TypeInv, SessionsTypeOK, TokenOK, CallsSound, Over, NobodyRevives, CallAt, Family,
         Ids, NoToken
<1>1. ASSUME UNCHANGED <<token, now>> PROVE FamilyRests(f)
  BY <1>0, <1>1 DEF FamilyRests, Family, Ids
<1>2. NobodyRevives(f, IdleCall)
  BY <1>0 DEF NobodyRevives, IdleCall
<1>3. ASSUME CallEnds(c) PROVE \A d \in Calls : NobodyRevives(f, call'[d])
  BY <1>0, <1>2, <1>3, OneMoves DEF CallEnds
<1>4. ASSUME NEW u \in Accounts, Login(c, u) \/ LoginWithGoogle(c, u)
      PROVE  FamilyRests(f) /\ \A d \in Calls : NobodyRevives(f, call'[d])
  <2> DEFINE state == [IdleCall EXCEPT !.pc = "count", !.u = u]
  <2>1. NobodyRevives(f, state)
    BY <1>0 DEF NobodyRevives, IdleCall
  <2>2. UNCHANGED <<token, now>> /\ call' = [call EXCEPT ![c] = state]
    BY <1>4 DEF Login, LoginWithGoogle
  <2>. HIDE DEF state
  <2>. QED
    BY <1>0, <1>1, <2>1, <2>2, OneMoves
<1>5. CASE CountActive(c)
  <2> DEFINE pc == IF Cardinality(ActiveOf(call[c].u)) >= MaxSessions THEN "evict" ELSE "issue"
             n  == IF Cardinality(ActiveOf(call[c].u)) >= MaxSessions
                   THEN Cardinality(ActiveOf(call[c].u)) - MaxSessions + 1 ELSE 0
             state == [call[c] EXCEPT !.pc = pc, !.n = n]
  <2>1. UNCHANGED <<token, now>> /\ call' = [call EXCEPT ![c] = state] /\ call[c].pc = "count"
    BY <1>0, <1>5 DEF CountActive, CallAt
  <2>. HIDE DEF pc, n
  <2>2. state.t = call[c].t /\ state.some = call[c].some
    BY <1>0 DEF Call
  <2>3. NobodyRevives(f, state)
    BY <1>0, <2>1, <2>2 DEF NobodyRevives
  <2>. QED
    BY <1>0, <1>1, <2>1, <2>3, OneMoves
<1>6. CASE FindOldest(c)
  <2> DEFINE some  == Oldest(call[c].n, ActiveOf(call[c].u))
             state == [call[c] EXCEPT !.pc = "saveEvicted", !.some = some]
  <2>1. UNCHANGED <<token, now>> /\ call' = [call EXCEPT ![c] = state] /\ call[c].pc = "evict"
    BY <1>0, <1>6 DEF FindOldest, CallAt
  <2>2. some \cap Family(f) = {}
    BY DEF Oldest, ActiveOf, Over
  <2>. HIDE DEF some
  <2>3. state.t = call[c].t /\ state.some = some
    BY <1>0 DEF Call
  <2>4. NobodyRevives(f, state)
    BY <1>0, <2>1, <2>2, <2>3 DEF NobodyRevives
  <2>. QED
    BY <1>0, <1>1, <2>1, <2>4, OneMoves
<1>7. CASE SaveEvicted(c)
  <2> DEFINE state == [call[c] EXCEPT !.pc = "issue", !.some = {}]
  <2>1. UNCHANGED now /\ call' = [call EXCEPT ![c] = state] /\ call[c].pc = "saveEvicted"
    BY <1>0, <1>7 DEF SaveEvicted, CallAt
  <2>2. Edited /\ \A i \in Family(f) : token'[i] = token[i]
    BY <1>0, <1>7, SaveEdits DEF SaveEvicted, NobodyRevives
  <2>3. state.t = call[c].t /\ state.some = {}
    BY <1>0 DEF Call
  <2>4. NobodyRevives(f, state)
    BY <1>0, <2>1, <2>3 DEF NobodyRevives
  <2>. QED
    BY <1>0, <2>1, <2>2, <2>4, EditedRests, OneMoves
<1>8. CASE IssueTokenPair(c)
  <2> DEFINE row == NewRow(call[c].u, Len(token) + 1, "login")
  <2>1. call[c].u \in Accounts
    BY <1>0, <1>8 DEF IssueTokenPair, CallAt, SoundCall
  <2>2. Inserted(row)
    BY <1>0, <1>8, <2>1, InsertInserts DEF IssueTokenPair
  <2>3. row.family # f
    BY <1>0 DEF NewRow, Ids
  <2>. HIDE DEF row
  <2>. QED
    BY <1>0, <1>3, <1>8, <2>2, <2>3, InsertedRests DEF IssueTokenPair
<1>9. ASSUME NEW i \in Ids, FindByHash(c, i)
      PROVE  FamilyRests(f) /\ \A d \in Calls : NobodyRevives(f, call'[d])
  <2> DEFINE pc == CASE IsWithinReuseGraceWindow(i) -> "loadGraceUser"
                [] ~Active(i) /\ ~IsWithinReuseGraceWindow(i) -> "revokeFamily"
                [] Active(i) /\ Expired(i) -> "save"
                [] Active(i) /\ ~Expired(i) -> "loadUser"
             state == [IdleCall EXCEPT !.t = i, !.u = token[i].user, !.pc = pc]
  <2>1. UNCHANGED <<token, now>> /\ call' = [call EXCEPT ![c] = state]
    BY <1>9 DEF FindByHash
  <2>2. i \in Family(f) => ~Active(i) /\ ~IsWithinReuseGraceWindow(i)
    BY DEF Over
  <2>3. i \in Family(f) => pc = "revokeFamily"
    BY <2>2
  <2>. HIDE DEF pc
  <2>4. NobodyRevives(f, state)
    BY <2>3 DEF NobodyRevives, IdleCall
  <2>. HIDE DEF state
  <2>. QED
    BY <1>0, <1>1, <2>1, <2>4, OneMoves
<1>10. ASSUME NEW i \in Ids, Logout(c, i)
      PROVE  FamilyRests(f) /\ \A d \in Calls : NobodyRevives(f, call'[d])
  <2> DEFINE state == [IdleCall EXCEPT !.pc = "save", !.t = i, !.u = token[i].user]
  <2>1. UNCHANGED <<token, now>> /\ call' = [call EXCEPT ![c] = state] /\ Active(i)
    BY <1>10 DEF Logout
  <2>2. i \notin Family(f)
    BY <2>1 DEF Over
  <2>3. NobodyRevives(f, state)
    BY <2>2 DEF NobodyRevives, IdleCall
  <2>. HIDE DEF state
  <2>. QED
    BY <1>0, <1>1, <2>1, <2>3, OneMoves
<1>11. CASE LoadUser(c)
  <2>0. UNCHANGED <<token, now>>
    BY <1>11 DEF LoadUser
  <2>1. CASE CallEnds(c)
    BY <1>1, <1>3, <2>0, <2>1
  <2>2. CASE ~CallEnds(c)
    <3>1. PICK pc \in {"rotate", "sibling"} : CallGoto(c, pc)
      BY <1>11, <2>2 DEF LoadUser
    <3> DEFINE state == [call[c] EXCEPT !.pc = pc]
    <3>2. call[c].pc # "revokeFamily" /\ call' = [call EXCEPT ![c] = state]
      BY <1>0, <1>11, <3>1 DEF LoadUser, CallAt, CallGoto
    <3>3. state.t = call[c].t /\ state.some = call[c].some
      BY <1>0 DEF Call
    <3>4. NobodyRevives(f, state)
      BY <1>0, <3>2, <3>3 DEF NobodyRevives
    <3>. QED
      BY <1>0, <1>1, <2>0, <3>2, <3>4, OneMoves
  <2>. QED
    BY <2>1, <2>2
<1>12. CASE RotateTokenPair(c)
  <2> DEFINE i   == call[c].t
             row == NewRow(token[i].user, token[i].family, "sibling")
  <2>1. i \in Ids /\ CallEnds(c) /\ UNCHANGED now
    BY <1>0, <1>12 DEF RotateTokenPair, CallAt, SoundCall, CarriesToken
  <2>2. token[i].family # f /\ token[i].user \in Accounts /\ token[i].family \in Nat \ {0}
    BY <1>0, <1>12, <2>1, RowTyped DEF RotateTokenPair, CallAt, NobodyRevives, Family
  <2>3. CASE Insert(token[i].user, token[i].family, "sibling")
    <3>1. Inserted(row) /\ row.family # f
      BY <1>0, <2>2, <2>3, InsertInserts DEF NewRow
    <3>. HIDE DEF row
    <3>. QED
      BY <1>0, <1>3, <2>1, <3>1, InsertedRests
  <2>4. CASE Rotated(i, "rotation")
    BY <1>0, <1>3, <2>1, <2>2, <2>4, RotatedRests
  <2>5. CASE UNCHANGED token
    BY <1>1, <1>3, <2>1, <2>5
  <2>. QED
    BY <1>12, <2>3, <2>4, <2>5 DEF RotateTokenPair
<1>13. CASE IssueFamilySibling(c)
  <2> DEFINE i   == call[c].t
             row == NewRow(call[c].u, token[i].family, "sibling")
  <2>1. i \in Ids /\ call[c].u \in Accounts /\ CallEnds(c) /\ UNCHANGED now
    BY <1>0, <1>13 DEF IssueFamilySibling, CallAt, SoundCall, CarriesToken
  <2>2. token[i].family # f /\ token[i].family \in Nat \ {0}
    BY <1>0, <1>13, <2>1, RowTyped DEF IssueFamilySibling, CallAt, NobodyRevives, Family
  <2>3. Inserted(row) /\ row.family # f
    BY <1>0, <1>13, <2>1, <2>2, InsertInserts DEF IssueFamilySibling, NewRow
  <2>. HIDE DEF row
  <2>. QED
    BY <1>0, <1>3, <2>1, <2>3, InsertedRests
<1>14. CASE RevokeFamily(c)
  <2>1. Edited /\ \A i \in Family(f) : token'[i] = token[i]
    BY <1>0, <1>14, RevokeEdits DEF RevokeFamily, Over
  <2>. QED
    BY <1>0, <1>3, <1>14, <2>1, EditedRests DEF RevokeFamily
<1>15. CASE SaveOne(c)
  <2>1. call[c].t \notin Family(f)
    BY <1>0, <1>15 DEF SaveOne, CallAt, NobodyRevives
  <2>2. Edited /\ \A i \in Family(f) : token'[i] = token[i]
    BY <1>0, <1>15, <2>1, SaveEdits DEF SaveOne
  <2>. QED
    BY <1>0, <1>3, <1>15, <2>2, EditedRests DEF SaveOne
<1>. QED
  BY <1>4, <1>5, <1>6, <1>7, <1>8, <1>9, <1>10, <1>11, <1>12, <1>13, <1>14, <1>15 DEF CallStep

(* Nor does any other step.                                                *)
LEMMA StepStaysOver ==
  TypeInv /\ [SessionsNext]_sessionVars => \A f \in Ids : Over(f) => Over(f)'
<1> SUFFICES ASSUME TypeInv, [SessionsNext]_sessionVars, NEW f \in Ids, Over(f) PROVE Over(f)'
  OBVIOUS
<1>0. /\ TokenOK /\ now \in Nat /\ Family(f) \subseteq Ids
      /\ \A c \in Calls : NobodyRevives(f, call[c])
  BY DEF TypeInv, SessionsTypeOK, TokenOK, Family, Over, NobodyRevives, CallAt
<1>1. ASSUME NEW c \in Calls, CallStep(c) PROVE Over(f)'
  BY <1>0, <1>1, CallStepRests, RestingStaysOver
<1>2. ASSUME UNCHANGED call, FamilyRests(f) PROVE Over(f)'
  BY <1>0, <1>2, RestingStaysOver
<1>3. ASSUME NEW u \in Accounts, RevokeAllActiveForUser(u) PROVE Over(f)'
  <2>1. Edited /\ \A i \in Family(f) : token'[i] = token[i]
    BY <1>0, <1>3, RevokeEdits DEF RevokeAllActiveForUser, Over
  <2>2. FamilyRests(f)
    BY <1>0, <1>3, <2>1, EditedRests DEF RevokeAllActiveForUser
  <2>. QED
    BY <1>2, <1>3, <2>2 DEF RevokeAllActiveForUser
<1>4. ASSUME UNCHANGED <<token, call>>, now' \in Nat, now' >= now PROVE Over(f)'
  BY <1>0, <1>2, <1>4 DEF FamilyRests, Family, Ids
<1>. QED
  BY <1>0, <1>1, <1>3, <1>4 DEF SessionsNext, StandingChanges, Tick, sessionVars

(* A session that is over stays over: no request - reuse, race, sign-in,   *)
(* sign-out - revives it or can come to a point where it would.            *)
THEOREM OverForGood == SessionsSpec => OverStaysOver
BY InitTyped, StepTyped, StepStaysOver, PTL DEF SessionsSpec, OverStaysOver

----
(* The limit on sessions. Whoever has counted and was not written over     *)
(* knows how many sessions there may be (Counted).                         *)

(* Induction over a finite set, as a fact about the family of the subsets  *)
(* for which something holds.                                              *)
LEMMA BySubsets ==
  ASSUME NEW S, IsFiniteSet(S), NEW good \in SUBSET (SUBSET S), {} \in good,
         \A A \in good, x \in S : A \cup {x} \in good
  PROVE  S \in good
<1>. SUFFICES ASSUME S \notin good PROVE FALSE
  OBVIOUS
<1> DEFINE bad == (SUBSET S) \ good
           R   == StrictSubsetOrdering(S)
<1>1. IsWellFoundedOn(R, SUBSET S)
  BY FS_StrictSubsetOrderingWellFounded, FS_FiniteSubsetsOfFinite
<1>2. bad \subseteq SUBSET S /\ bad # {}
  OBVIOUS
<1>3. PICK A \in bad : \A B \in bad : <<B, A>> \notin R
  <2>. HIDE DEF bad, R
  <2>. QED
    BY <1>1, <1>2, WFMin
<1>4. A # {} /\ A \subseteq S
  OBVIOUS
<1>5. PICK x \in A : TRUE
  BY <1>4
<1>6. <<A \ {x}, A>> \in R
  BY <1>4, <1>5 DEF StrictSubsetOrdering
<1>7. A \ {x} \in good
  BY <1>3, <1>4, <1>6
<1>8. (A \ {x}) \cup {x} = A
  BY <1>5
<1>. QED
  BY <1>3, <1>4, <1>5, <1>7, <1>8

(* A finite set of numbers has a least one.                                *)
LEMMA LeastOf ==
  ASSUME NEW S \in SUBSET Nat, IsFiniteSet(S), S # {}
  PROVE  \E x \in S : \A y \in S : x <= y
<1> DEFINE good == {A \in SUBSET S : A = {} \/ \E x \in A : \A y \in A : x <= y}
<1>1. good \in SUBSET (SUBSET S) /\ {} \in good
  OBVIOUS
<1>2. ASSUME NEW A \in good, NEW z \in S PROVE A \cup {z} \in good
  <2>1. A \cup {z} \in SUBSET S
    OBVIOUS
  <2>2. CASE A = {}
    <3>1. \E x \in A \cup {z} : \A y \in A \cup {z} : x <= y
      BY <2>2
    <3>. QED
      BY <2>1, <3>1
  <2>3. CASE A # {}
    <3>1. PICK x \in A : \A y \in A : x <= y
      BY <2>3
    <3>2. CASE x <= z
      <4>1. \A y \in A \cup {z} : x <= y
        BY <3>1, <3>2
      <4>. QED
        BY <2>1, <4>1
    <3>3. CASE ~(x <= z)
      <4>1. \A y \in A \cup {z} : z <= y
        BY <3>1, <3>3
      <4>. QED
        BY <2>1, <4>1
    <3>. QED
      BY <3>2, <3>3
  <2>. QED
    BY <2>2, <2>3
<1>. HIDE DEF good
<1>3. S \in good
  BY <1>1, <1>2, BySubsets
<1>. QED
  BY <1>3 DEF good

(* The n oldest of a set are n, if there are as many.                      *)
LEMMA OldestAreMany ==
  ASSUME NEW S \in SUBSET Nat, IsFiniteSet(S), NEW n \in Nat
  PROVE  /\ IsFiniteSet(S \ Oldest(n, S))
         /\ \/ S \ Oldest(n, S) = {}
            \/ Cardinality(S \ Oldest(n, S)) + n <= Cardinality(S)
<1> DEFINE old == Oldest(n, S)
           rest == S \ old
<1>1. old \subseteq S /\ IsFiniteSet(old) /\ IsFiniteSet(rest)
  BY FS_Subset DEF Oldest
<1>2. ASSUME rest # {}
      PROVE  Cardinality(rest) + n <= Cardinality(S)
  <2>1. PICK x \in rest : \A y \in rest : x <= y
    BY <1>1, <1>2, LeastOf
  <2> DEFINE below == {j \in S : j < x}
  <2>2. below \subseteq old
    <3>1. x \in Nat
      BY <1>1
    <3>2. ASSUME NEW j \in S, j < x, j \notin old PROVE FALSE
      <4>1. j \in rest /\ j \in Nat
        BY <3>2
      <4>. QED
        BY <2>1, <3>1, <3>2, <4>1
    <3>. HIDE DEF old
    <3>. QED
      BY <3>2
  <2>3. IsFiniteSet(below) /\ Cardinality(below) \in Nat /\ Cardinality(old) \in Nat
    BY <1>1, FS_Subset, FS_CardinalityType
  <2>4. ~(Cardinality(below) < n)
    BY <2>1 DEF Oldest
  <2>5. Cardinality(below) <= Cardinality(old)
    BY <1>1, <2>2, FS_Subset
  <2>6. Cardinality(rest) = Cardinality(S) - Cardinality(old)
    <3>1. S \cap old = old
      BY <1>1
    <3>. HIDE DEF old
    <3>. QED
      BY <3>1, FS_Difference
  <2>7. Cardinality(S) \in Nat
    BY FS_CardinalityType
  <2>. HIDE DEF old, rest, below
  <2>. QED
    BY <2>3, <2>4, <2>5, <2>6, <2>7
<1>. QED
  BY <1>1, <1>2

(* What the count of a handler promises while nobody else writes.          *)
Counted(ids, state) ==
  /\ state.pc = "evict" => Cardinality(ids) <= state.n + MaxSessions - 1
  /\ state.pc = "saveEvicted" => Cardinality(ids \ state.some) <= MaxSessions - 1
  /\ state.pc = "issue" => Cardinality(ids) <= MaxSessions - 1

CountsHold == \A c \in quiet : Counted(ActiveOf(call[c].u), call[c])

LEMMA FewerCounted ==
  ASSUME NEW S, IsFiniteSet(S), NEW T \in SUBSET S, NEW state \in Call, Counted(S, state)
  PROVE  Counted(T, state)
<1>1. /\ IsFiniteSet(T) /\ Cardinality(T) <= Cardinality(S)
      /\ Cardinality(T) \in Nat /\ Cardinality(S) \in Nat
  BY FS_Subset, FS_CardinalityType
<1>2. IsFiniteSet(S \ state.some) /\ T \ state.some \subseteq S \ state.some
  BY FS_Subset
<1>3. /\ Cardinality(T \ state.some) <= Cardinality(S \ state.some)
      /\ Cardinality(T \ state.some) \in Nat /\ Cardinality(S \ state.some) \in Nat
  BY <1>2, FS_Subset, FS_CardinalityType
<1>4. MaxSessions \in Nat /\ state.n \in Nat
  BY SessionsAssumption DEF SessionsAssumption, Call
<1>. QED
  BY <1>1, <1>3, <1>4 DEF Counted

LEMMA ActiveOfFinite ==
  ASSUME TypeInv, NEW u
  PROVE  IsFiniteSet(ActiveOf(u)) /\ ActiveOf(u) \in SUBSET Nat /\ Cardinality(ActiveOf(u)) \in Nat
<1>1. Len(token) \in Nat
  BY DEF TypeInv, SessionsTypeOK
<1>2. IsFiniteSet(Ids) /\ Ids \subseteq Nat
  BY <1>1, FS_Interval DEF Ids
<1>. QED
  BY <1>2, FS_Subset, FS_CardinalityType DEF ActiveOf

(* A handler's own step keeps what its count promises.                     *)
LEMMA OwnStepCounts ==
  ASSUME TypeInv, NEW c \in Calls, CallStep(c), c \in quiet \/ CallAt(c, "count"),
         CallAt(c, "count") \/ Counted(ActiveOf(call[c].u), call[c])
  PROVE  Counted(ActiveOf(call[c].u)', call'[c])
<1> DEFINE ids == ActiveOf(call[c].u)
<1>0. /\ call \in [Calls -> Call] /\ call[c] \in Call /\ call[c].n \in Nat
      /\ MaxSessions \in Nat \ {0} /\ TokenOK /\ now \in Nat
  BY SessionsAssumption DEF SessionsAssumption, TypeInv, SessionsTypeOK, TokenOK, Call
<1>1. IsFiniteSet(ids) /\ ids \in SUBSET Nat /\ Cardinality(ids) \in Nat
  BY ActiveOfFinite
<1>2. CASE CountActive(c)
  <2>1. /\ call'[c].u = call[c].u /\ ActiveOf(call[c].u)' = ids
        /\ call'[c].pc = IF Cardinality(ids) >= MaxSessions THEN "evict" ELSE "issue"
        /\ call'[c].n = IF Cardinality(ids) >= MaxSessions THEN Cardinality(ids) - MaxSessions + 1 ELSE 0
    BY <1>0, <1>2 DEF CountActive, ActiveOf, Active, Expired, Ids, Call
  <2>. HIDE DEF ids
  <2>. QED
    BY <1>0, <1>1, <2>1 DEF Counted
<1>3. CASE FindOldest(c)
  <2>1. /\ call'[c].u = call[c].u /\ ActiveOf(call[c].u)' = ids
        /\ call'[c].pc = "saveEvicted" /\ call'[c].some = Oldest(call[c].n, ids)
    BY <1>0, <1>3 DEF FindOldest, ActiveOf, Active, Expired, Ids, Call
  <2>2. Cardinality(ids) <= call[c].n + MaxSessions - 1
    BY <1>3 DEF FindOldest, CallAt, Counted
  <2>. HIDE DEF ids
  <2>3. /\ IsFiniteSet(ids \ Oldest(call[c].n, ids))
        /\ \/ ids \ Oldest(call[c].n, ids) = {}
           \/ Cardinality(ids \ Oldest(call[c].n, ids)) + call[c].n <= Cardinality(ids)
    BY <1>0, <1>1, OldestAreMany
  <2>4. Cardinality(ids \ Oldest(call[c].n, ids)) <= MaxSessions - 1
    <3>1. Cardinality(ids \ Oldest(call[c].n, ids)) \in Nat
      BY <2>3, FS_CardinalityType
    <3>2. CASE ids \ Oldest(call[c].n, ids) = {}
      BY <1>0, <3>2, FS_EmptySet
    <3>. QED
      BY <1>0, <1>1, <2>2, <2>3, <3>1, <3>2
  <2>. QED
    BY <2>1, <2>4 DEF Counted
<1>4. CASE SaveEvicted(c)
  <2>1. /\ call'[c].u = call[c].u /\ call'[c].pc = "issue"
    BY <1>0, <1>4 DEF SaveEvicted, Call
  <2>2. Cardinality(ids \ call[c].some) <= MaxSessions - 1
    BY <1>4 DEF SaveEvicted, CallAt, Counted
  <2>3. /\ Edited /\ \A i \in Ids : i \notin call[c].some => token'[i] = token[i]
        /\ SaveRevoked(call[c].some) /\ now' = now
    BY <1>0, <1>4, SaveEdits DEF SaveEvicted
  <2>4. Ids' = Ids
    BY <2>3 DEF Edited, Ids
  <2>5. ASSUME NEW i \in Ids, i \in call[c].some PROVE ~Active(i)'
    <3>1. token[i] \in RefreshToken
      BY <1>0 DEF TokenOK, Ids
    <3>2. token'[i].revokedAt = now
      BY <2>3, <2>5, <3>1 DEF SaveRevoked, RefreshToken
    <3>. QED
      BY <1>0, <3>2 DEF Active, NotRevoked
  <2>6. ActiveOf(call[c].u)' \subseteq ids \ call[c].some
    BY <1>0, <2>3, <2>4, <2>5, <1>4 DEF ActiveOf, Active, Expired, SaveEvicted
  <2>7. IsFiniteSet(ids \ call[c].some) /\ Cardinality(ids \ call[c].some) \in Nat
    <3>. HIDE DEF ids
    <3>. QED
      BY <1>1, FS_Subset, FS_CardinalityType
  <2>8. Cardinality(ActiveOf(call[c].u)') <= Cardinality(ids \ call[c].some)
    BY <2>6, <2>7, FS_Subset
  <2>9. Cardinality(ActiveOf(call[c].u)') \in Nat
    BY <2>6, <2>7, FS_Subset, FS_CardinalityType
  <2>. QED
    BY <1>0, <2>1, <2>2, <2>7, <2>8, <2>9 DEF Counted
<1>5. ASSUME ~CountActive(c), ~FindOldest(c), ~SaveEvicted(c)
      PROVE  call'[c].pc \notin {"evict", "saveEvicted", "issue"}
  <2>1. CASE \E u \in Accounts : Login(c, u) \/ LoginWithGoogle(c, u)
    BY <1>0, <2>1 DEF Login, LoginWithGoogle, IdleCall
  <2>2. CASE IssueTokenPair(c) \/ RotateTokenPair(c) \/ IssueFamilySibling(c) \/ RevokeFamily(c) \/ SaveOne(c)
    BY <1>0, <2>2 DEF IssueTokenPair, RotateTokenPair, IssueFamilySibling, RevokeFamily, SaveOne, CallEnds, IdleCall
  <2>3. CASE \E i \in Ids : FindByHash(c, i)
    <3>1. PICK i \in Ids : FindByHash(c, i)
      BY <2>3
    <3>. HIDE DEF ids
    <3> DEFINE pc == CASE IsWithinReuseGraceWindow(i) -> "loadGraceUser"
                [] ~Active(i) /\ ~IsWithinReuseGraceWindow(i) -> "revokeFamily"
                [] Active(i) /\ Expired(i) -> "save"
                [] Active(i) /\ ~Expired(i) -> "loadUser"
    <3>2. pc \in {"loadGraceUser", "revokeFamily", "save", "loadUser"}
      BY DEF IsWithinReuseGraceWindow
    <3>. HIDE DEF pc
    <3>3. call' = [call EXCEPT ![c] = [IdleCall EXCEPT !.t = i, !.u = token[i].user, !.pc = pc]]
      BY <3>1 DEF FindByHash, pc
    <3>4. call'[c].pc = pc
      BY <1>0, <3>3 DEF IdleCall
    <3>. QED
      BY <3>2, <3>4
  <2>4. CASE \E i \in Ids : Logout(c, i)
    BY <1>0, <2>4 DEF Logout, IdleCall
  <2>5. CASE LoadUser(c)
    BY <1>0, <2>5 DEF LoadUser, CallGoto, CallEnds, IdleCall, Call
  <2>. QED
    BY <1>5, <2>1, <2>2, <2>3, <2>4, <2>5 DEF CallStep
<1>. QED
  BY <1>2, <1>3, <1>4, <1>5 DEF Counted

(* Whoever has counted, and was not written over, keeps its promise.       *)
LEMMA CountsStep ==
  TypeInv /\ CountsHold /\ [SessionsNext]_sessionVars => CountsHold'
<1> SUFFICES ASSUME TypeInv, CountsHold, [SessionsNext]_sessionVars PROVE CountsHold'
  OBVIOUS
<1>0. call \in [Calls -> Call] /\ quiet \subseteq Calls /\ TokenOK /\ now \in Nat
  BY DEF TypeInv, SessionsTypeOK, TokenOK
<1>1. ASSUME NEW c \in Calls, CallStep(c), Hushed(c)
      PROVE  CountsHold'
  <2>1. UNCHANGED now
    BY <1>1, CallStepTyped
  <2>2. PICK state : call' = [call EXCEPT ![c] = state]
    BY <1>1, CallStepTyped
  <2>3. ASSUME NEW d \in quiet' PROVE Counted(ActiveOf(call[d].u)', call'[d])
    <3>1. CASE d = c
      BY <1>0, <1>1, <2>3, <3>1, OwnStepCounts DEF Hushed, CountsHold
    <3>2. CASE d # c
      <4>1. token' = token /\ d \in quiet /\ call'[d] = call[d]
        BY <1>0, <1>1, <2>2, <2>3, <3>2 DEF Hushed
      <4>2. ActiveOf(call[d].u)' = ActiveOf(call[d].u)
        BY <2>1, <4>1 DEF ActiveOf, Active, Expired, Ids
      <4>. QED
        BY <4>1, <4>2 DEF CountsHold
    <3>. QED
      BY <3>1, <3>2
  <2>. QED
    BY <2>3 DEF CountsHold, Counted
<1>2. ASSUME UNCHANGED <<token, call, quiet>>, now' \in Nat, now' >= now PROVE CountsHold'
  <2>1. ASSUME NEW c \in quiet PROVE Counted(ActiveOf(call[c].u)', call'[c])
    <3> DEFINE ids == ActiveOf(call[c].u)
    <3>1. ActiveOf(call[c].u)' \subseteq ids
      <4>1. ASSUME NEW i \in Ids, Expired(i) PROVE Expired(i)'
        <5>1. token[i].expiresAt \in Nat
          BY <1>0, <4>1, RowTyped DEF RefreshToken
        <5>. QED
          BY <1>0, <1>2, <4>1, <5>1 DEF Expired
      <4>. QED
        BY <1>2, <4>1 DEF ActiveOf, Active, Ids
    <3>2. IsFiniteSet(ids) /\ call[c] \in Call /\ Counted(ids, call[c])
      BY <1>0, ActiveOfFinite DEF CountsHold
    <3>. QED
      BY <1>2, <3>1, <3>2, FewerCounted
  <2>. QED
    BY <1>2, <2>1 DEF CountsHold, Counted
<1>3. CASE quiet' = {}
  BY <1>3 DEF CountsHold
<1>. QED
  BY <1>0, <1>1, <1>2, <1>3 DEF SessionsNext, StandingChanges, Tick, sessionVars

LEMMA CountsInit == SessionsInit => CountsHold
BY DEF SessionsInit, CountsHold

(* Then the row that a sign-in inserts is within the limit.                *)
LEMMA QuietInsert ==
  ASSUME TypeInv, CountsHold, NEW c \in quiet, NEW CONSTANT u \in Accounts, call[c].u = u, IssueTokenPair(c)
  PROVE  Cardinality(ActiveOf(u)') <= MaxSessions
<1> DEFINE ids == ActiveOf(u)
           id  == Len(token) + 1
           row == NewRow(u, id, "login")
<1>0. /\ c \in Calls /\ call \in [Calls -> Call] /\ TokenOK /\ now \in Nat /\ Len(token) \in Nat
      /\ MaxSessions \in Nat
  BY SessionsAssumption DEF SessionsAssumption, TypeInv, SessionsTypeOK, TokenOK
<1>1. call[c].pc = "issue"
  BY <1>0 DEF IssueTokenPair, CallAt, TypeInv, CallsSound, SoundCall
<1>2. Inserted(row) /\ now' = now
  BY <1>0, <1>1, InsertInserts DEF IssueTokenPair
<1>3. Ids' = Ids \cup {id}
  BY <1>0, <1>2 DEF Inserted, Ids
<1>. HIDE DEF id, row
<1>4. {i \in Ids' : token'[i].user = u /\ Active(i)' /\ ~Expired(i)'} \subseteq ids \cup {id}
  BY <1>2, <1>3 DEF Inserted, ActiveOf, Active, Expired
<1>. HIDE DEF ids
<1>5. /\ IsFiniteSet(ids) /\ Cardinality(ids) \in Nat /\ Cardinality(ids) <= MaxSessions - 1
  BY <1>1, ActiveOfFinite DEF CountsHold, Counted, ids
<1>6. IsFiniteSet(ids \cup {id}) /\ Cardinality(ids \cup {id}) <= MaxSessions
  <2> DEFINE n == Cardinality(ids)
  <2>1. /\ IsFiniteSet(ids \cup {id})
        /\ Cardinality(ids \cup {id}) = n \/ Cardinality(ids \cup {id}) = n + 1
    BY <1>5, FS_AddElement
  <2>2. n \in Nat /\ n <= MaxSessions - 1 /\ MaxSessions \in Nat
    BY <1>0, <1>5
  <2>. HIDE DEF n
  <2>3. n <= MaxSessions /\ n + 1 <= MaxSessions
    BY <2>2
  <2>. QED
    BY <2>1, <2>3
<1>7. Cardinality(ids \cup {id}) \in Nat
  BY <1>6, FS_CardinalityType
<1> DEFINE later == {i \in Ids' : token'[i].user = u /\ Active(i)' /\ ~Expired(i)'}
<1>8. Cardinality(later) \in Nat /\ Cardinality(later) <= MaxSessions
  <2>. HIDE DEF later
  <2>1. IsFiniteSet(later) /\ Cardinality(later) <= Cardinality(ids \cup {id})
    BY <1>4, <1>6, FS_Subset DEF later
  <2>2. Cardinality(later) \in Nat
    BY <2>1, FS_CardinalityType
  <2>. QED
    BY <1>0, <1>6, <1>7, <2>1, <2>2
<1>. QED
  BY <1>8 DEF ActiveOf

(* The next sign-in during which no other handler writes brings the        *)
(* sessions of its account back within the limit, however far the races    *)
(* before it have exceeded it.                                             *)
THEOREM QuietSignInRestores == SessionsSpec => QuietSignInRestoresLimit
<1>1. TypeInv /\ CountsHold /\ [SessionsNext]_sessionVars =>
        [\A c \in quiet, u \in Accounts :
           call[c].u = u /\ IssueTokenPair(c) => Cardinality(ActiveOf(u)') <= MaxSessions]_sessionVars
  BY QuietInsert DEF TypeInv, SessionsTypeOK
<1>. QED
  BY InitTyped, StepTyped, CountsInit, CountsStep, <1>1, PTL DEF SessionsSpec, QuietSignInRestoresLimit

----
(* Sign-in: the limits.                                                    *)

(* Handlers whose password is being checked, or has been found wrong and   *)
(* not been counted yet.                                                   *)
Guessing == {"validate", "readFailed", "writeFailed"}

GuessingNow == {s \in SignIns : attempt[s].pc \in Guessing}

Allowance ==
  LoginMaxAttempts + (Cardinality(SignIns) - 1) + expiries * Cardinality(SignIns)

(* An account is locked from LoginMaxAttempts on, also in an old copy of it*)
LockedAtLimit(copy) == copy.attempts >= LoginMaxAttempts <=> copy.lock # "none"

(* While nothing overlaps, at most one handler is between its read and its *)
(* write, and its copy is that of the row, but for a lock that has run out *)
(* or a count that was cleared; and the wrong passwords are the count, or  *)
(* within what is allowed with all that may still come.                    *)
GuessesInv ==
  /\ LockedAtLimit(lockout) /\ \A s \in SignIns : LockedAtLimit(attempt[s].loaded)
  /\ ~overlapped =>
       /\ \A s, r \in SignIns : AttemptAt(s, "writeFailed") /\ AttemptAt(r, "writeFailed") => s = r
       /\ \A s \in SignIns : AttemptAt(s, "writeFailed") /\ attempt[s].loaded.lock = "none" =>
            lockout.lock = "none" /\ guesses <= attempt[s].loaded.attempts
       /\ lockout.lock = "none"  => guesses <= lockout.attempts
       /\ lockout.lock = "ahead" => guesses + Cardinality(GuessingNow) <= Allowance
       /\ lockout.lock = "past"  => guesses + Cardinality(SignIns) <= Allowance

(* The limits are numbers, and one more expiry allows a round more.        *)
LEMMA AllowanceGrows ==
  ASSUME NEW e \in Nat, NEW n \in Nat
  PROVE  e * n \in Nat /\ (e + 1) * n = e * n + n
OBVIOUS

LEMMA SignInsFinite == IsFiniteSet(SignIns) /\ Cardinality(SignIns) \in Nat
BY SignInAssumption, FS_CardinalityType DEF SignInAssumption

LEMMA AllowanceTyped ==
  ASSUME expiries \in Nat
  PROVE  Allowance \in Int /\ (SignIns # {} => Allowance >= LoginMaxAttempts)
<1>1. Cardinality(SignIns) \in Nat /\ expiries * Cardinality(SignIns) \in Nat
  BY SignInsFinite, AllowanceGrows
<1>2. SignIns # {} => Cardinality(SignIns) >= 1
  BY SignInsFinite, FS_EmptySet
<1>. QED
  BY <1>1, <1>2, SignInAssumption DEF Allowance, SignInAssumption

(* Types hold.                                                             *)
LEMMA AttemptTyped ==
  ASSUME SignInTypeOK, NEW s \in SignIns, NEW state \in Attempt, attempt' = [attempt EXCEPT ![s] = state]
  PROVE  attempt' \in [SignIns -> Attempt]
BY DEF SignInTypeOK

(* A handler that moves on as it is.                                       *)
LEMMA GotoTyped ==
  ASSUME SignInTypeOK, NEW s \in SignIns, NEW pc \in AttemptPc, AttemptGoto(s, pc)
  PROVE  /\ attempt' \in [SignIns -> Attempt]
         /\ attempt'[s].pc = pc /\ attempt'[s].loaded = attempt[s].loaded
         /\ attempt'[s].type = attempt[s].type
         /\ \A r \in SignIns : r # s => attempt'[r] = attempt[r]
<1> DEFINE state == [attempt[s] EXCEPT !.pc = pc]
<1>1. attempt \in [SignIns -> Attempt] /\ attempt[s] \in Attempt
  BY DEF SignInTypeOK
<1>2. /\ state \in Attempt /\ state.pc = pc /\ state.loaded = attempt[s].loaded
      /\ state.type = attempt[s].type
  BY <1>1 DEF Attempt
<1>3. attempt' = [attempt EXCEPT ![s] = state]
  BY DEF AttemptGoto
<1>. HIDE DEF state
<1>. QED
  BY <1>1, <1>2, <1>3

(* A handler that ends.                                                    *)
LEMMA EndsTyped ==
  ASSUME SignInTypeOK, NEW s \in SignIns, AttemptEnds(s)
  PROVE  /\ attempt' \in [SignIns -> Attempt]
         /\ attempt'[s].pc = "idle" /\ attempt'[s].loaded = NoLockout
         /\ \A r \in SignIns : r # s => attempt'[r] = attempt[r]
<1>1. /\ IdleAttempt \in Attempt /\ IdleAttempt.pc = "idle" /\ IdleAttempt.loaded = NoLockout
  BY SignInAssumption
  DEF SignInAssumption, IdleAttempt, NoLockout, Attempt, AttemptPc, Lockout
<1>. QED
  BY <1>1 DEF SignInTypeOK, AttemptEnds

(* A request begins.                                                       *)
LEMMA BeginTyped ==
  ASSUME SignInTypeOK, NEW s \in SignIns, NEW type \in EventType, RequestAllowed(s, type)
  PROVE  /\ attempt' \in [SignIns -> Attempt]
         /\ attempt'[s].pc \in {"preLogin", "record"} /\ attempt'[s].loaded = NoLockout
         /\ attempt'[s].type = type
         /\ \A r \in SignIns : r # s => attempt'[r] = attempt[r]
<1> DEFINE pc == IF type \in PasswordLogin THEN "preLogin" ELSE "record"
           state == [IdleAttempt EXCEPT !.pc = pc, !.type = type]
<1>1. pc \in {"preLogin", "record"}
  OBVIOUS
<1>2. attempt' = [attempt EXCEPT ![s] = state]
  BY DEF RequestAllowed
<1>. HIDE DEF pc
<1>3. state \in Attempt /\ state.pc = pc /\ state.loaded = NoLockout /\ state.type = type
  BY <1>1 DEF IdleAttempt, NoLockout, Attempt, AttemptPc, Lockout
<1>. HIDE DEF state
<1>. QED
  BY <1>1, <1>2, <1>3 DEF SignInTypeOK

(* recordFailedLogin takes its copy.                                       *)
LEMMA ReadTyped ==
  ASSUME SignInTypeOK, NEW s \in SignIns, ReadFailedLogin(s)
  PROVE  /\ attempt' \in [SignIns -> Attempt]
         /\ attempt'[s].pc = "writeFailed" /\ attempt'[s].loaded = lockout
         /\ attempt'[s].type = attempt[s].type
         /\ \A r \in SignIns : r # s => attempt'[r] = attempt[r]
<1> DEFINE state == [attempt[s] EXCEPT !.pc = "writeFailed", !.loaded = lockout]
<1>1. attempt \in [SignIns -> Attempt] /\ attempt[s] \in Attempt /\ lockout \in Lockout
  BY DEF SignInTypeOK
<1>2. /\ state \in Attempt /\ state.pc = "writeFailed" /\ state.loaded = lockout
      /\ state.type = attempt[s].type
  BY <1>1 DEF Attempt, AttemptPc
<1>3. attempt' = [attempt EXCEPT ![s] = state]
  BY <1>1 DEF ReadFailedLogin
<1>. HIDE DEF state
<1>. QED
  BY <1>1, <1>2, <1>3

(* A step of one handler that reads, writes or records.                    *)
LEMMA SignInStepCases ==
  ASSUME SignInNext
  PROVE  \/ \E s \in SignIns, type \in EventType : RequestAllowed(s, type)
         \/ \E s \in SignIns : PreLoginCheck(s)
         \/ \E s \in SignIns : ValidateCredentials(s)
         \/ \E s \in SignIns : RecordLoginSuccess(s)
         \/ \E s \in SignIns : ReadFailedLogin(s)
         \/ \E s \in SignIns : WriteFailedLogin(s)
         \/ \E s \in SignIns : RecordFailure(s)
         \/ \E s \in SignIns : RequestSucceeds(s)
         \/ PasswordUpdated
         \/ \E type \in EventType : WindowSlides(type)
         \/ LockExpires
BY Zenon DEF SignInNext

(* The count and the lock written together by recordFailedLogin.           *)
LEMMA WriteTyped ==
  ASSUME SignInTypeOK, NEW s \in SignIns, WriteFailedLogin(s)
  PROVE  /\ lockout' \in Lockout
         /\ lockout'.attempts = attempt[s].loaded.attempts + 1
         /\ lockout'.lock = IF lockout'.attempts >= LoginMaxAttempts
                              THEN "ahead" ELSE attempt[s].loaded.lock
         /\ lockout'.attempts >= LoginMaxAttempts => lockout'.lock # "none"
<1>1. attempt[s].loaded \in Lockout
  BY DEF SignInTypeOK, Attempt
<1>. QED
  BY <1>1, SignInAssumption DEF WriteFailedLogin, Locks, Lockout, SignInAssumption

LEMMA SignInStepTyped ==
  ASSUME SignInTypeOK, SignInNext
  PROVE  SignInTypeOK'
<1>t. /\ lockout \in Lockout /\ failures \in [EventType -> Nat]
      /\ attempt \in [SignIns -> Attempt] /\ guesses \in Nat /\ expiries \in Nat
      /\ overlapped \in BOOLEAN
      /\ lockout.attempts >= LoginMaxAttempts => lockout.lock # "none"
  BY DEF SignInTypeOK
<1>1. CASE \E s \in SignIns, type \in EventType : RequestAllowed(s, type)
  BY <1>1, <1>t, BeginTyped DEF RequestAllowed, SignInTypeOK
<1>2. CASE \E s \in SignIns : PreLoginCheck(s)
  <2>. PICK s \in SignIns : PreLoginCheck(s)
    BY <1>2
  <2>1. PICK pc \in AttemptPc : AttemptGoto(s, pc)
    BY DEF PreLoginCheck, AttemptPc
  <2>. QED
    BY <1>t, <2>1, GotoTyped DEF PreLoginCheck, SignInTypeOK
<1>3. CASE \E s \in SignIns : ValidateCredentials(s)
  <2>. PICK s \in SignIns : ValidateCredentials(s)
    BY <1>3
  <2>1. (\E pc \in AttemptPc : AttemptGoto(s, pc)) \/ AttemptEnds(s)
    BY DEF ValidateCredentials, AttemptPc
  <2>. QED
    BY <1>t, <2>1, GotoTyped, EndsTyped DEF ValidateCredentials, SignInTypeOK
<1>4. CASE \E s \in SignIns : RecordLoginSuccess(s)
  BY <1>4, <1>t, EndsTyped, SignInAssumption
  DEF RecordLoginSuccess, ClearLoginFailures, NoLockout, Lockout, SignInTypeOK, SignInAssumption
<1>5. CASE \E s \in SignIns : ReadFailedLogin(s)
  <2>. PICK s \in SignIns : ReadFailedLogin(s)
    BY <1>5
  <2>1. attempt' \in [SignIns -> Attempt]
    BY ReadTyped
  <2>2. overlapped' \in BOOLEAN
    BY Zenon DEF ReadFailedLogin
  <2>. QED
    BY <1>t, <2>1, <2>2 DEF ReadFailedLogin, SignInTypeOK
<1>6. CASE \E s \in SignIns : WriteFailedLogin(s)
  <2>. PICK s \in SignIns : WriteFailedLogin(s)
    BY <1>6
  <2>1. attempt' \in [SignIns -> Attempt]
    BY GotoTyped DEF WriteFailedLogin, AttemptPc
  <2>2. lockout' \in Lockout /\ (lockout'.attempts >= LoginMaxAttempts => lockout'.lock # "none")
    BY WriteTyped
  <2>3. /\ guesses' = guesses + 1 /\ failures' = failures /\ expiries' = expiries
        /\ overlapped' = overlapped
    BY DEF WriteFailedLogin
  <2>. QED
    BY <1>t, <2>1, <2>2, <2>3 DEF SignInTypeOK
<1>7. CASE \E s \in SignIns : RecordFailure(s)
  <2>. PICK s \in SignIns : RecordFailure(s)
    BY <1>7
  <2>1. attempt' \in [SignIns -> Attempt]
    BY EndsTyped DEF RecordFailure
  <2>2. failures' \in [EventType -> Nat]
    BY <1>t DEF RecordFailure, Attempt
  <2>. QED
    BY <1>t, <2>1, <2>2 DEF RecordFailure, SignInTypeOK
<1>8. CASE \E s \in SignIns : RequestSucceeds(s)
  BY <1>8, <1>t, EndsTyped DEF RequestSucceeds, SignInTypeOK
<1>9. CASE PasswordUpdated
  BY <1>9, <1>t, SignInAssumption
  DEF PasswordUpdated, ClearLoginFailures, NoLockout, Lockout, SignInTypeOK, SignInAssumption
<1>10. CASE \E type \in EventType : WindowSlides(type)
  BY <1>10, <1>t DEF WindowSlides, SignInTypeOK
<1>11. CASE LockExpires
  BY <1>11, <1>t DEF LockExpires, Lockout, SignInTypeOK
<1>. QED
  BY SignInStepCases, <1>1, <1>2, <1>3, <1>4, <1>5, <1>6, <1>7, <1>8, <1>9, <1>10, <1>11

LEMMA SignInInitTyped == SignInInit => SignInTypeOK
<1>. SUFFICES ASSUME SignInInit PROVE SignInTypeOK
  OBVIOUS
<1>1. NoLockout \in Lockout /\ NoLockout.attempts = 0
  BY DEF NoLockout, Lockout
<1>2. IdleAttempt \in Attempt
  BY <1>1, SignInAssumption DEF IdleAttempt, Attempt, AttemptPc, SignInAssumption
<1>3. ~(NoLockout.attempts >= LoginMaxAttempts)
  BY <1>1, SignInAssumption DEF SignInAssumption
<1>4. attempt \in [SignIns -> Attempt] /\ failures \in [EventType -> Nat]
  BY <1>2 DEF SignInInit
<1>. QED
  BY <1>1, <1>3, <1>4 DEF SignInInit, SignInTypeOK

(* A client's failures. InFlight: the requests of a type under way.        *)
InFlight(type) == {s \in SignIns : ~AttemptAt(s, "idle") /\ attempt[s].type = type}

(* Requests that stay, or leave, make them no more.                        *)
LEMMA InFlightShrinks ==
  ASSUME NEW S \in SUBSET SignIns, NEW T \in SUBSET SignIns, T \subseteq S
  PROVE  /\ IsFiniteSet(S) /\ Cardinality(S) \in Nat /\ Cardinality(T) \in Nat
         /\ Cardinality(T) <= Cardinality(S) /\ Cardinality(S) <= Cardinality(SignIns)
         /\ \A s \in S : s \notin T => Cardinality(T) + 1 <= Cardinality(S)
<1>1. IsFiniteSet(S) /\ Cardinality(S) <= Cardinality(SignIns)
  BY SignInsFinite, FS_Subset
<1>2. IsFiniteSet(T) /\ Cardinality(T) <= Cardinality(S)
  BY <1>1, FS_Subset
<1>3. ASSUME NEW s \in S, s \notin T
      PROVE  Cardinality(T) + 1 <= Cardinality(S)
  <2>1. Cardinality(T \cup {s}) = Cardinality(T) + 1
    BY <1>2, <1>3, FS_AddElement
  <2>2. Cardinality(T \cup {s}) <= Cardinality(S)
    BY <1>1, <1>3, FS_Subset
  <2>. QED
    BY <2>1, <2>2
<1>. QED
  BY <1>1, <1>2, <1>3, FS_CardinalityType

LEMMA FailuresStep ==
  ASSUME SignInTypeOK, SignInNext, FailuresLimited
  PROVE  FailuresLimited'
<1> SUFFICES ASSUME NEW type \in EventType, CountedAs(type) = type
             PROVE  failures'[type] + Cardinality(InFlight(type)') < IpMax + Cardinality(SignIns)
  BY DEF FailuresLimited, InFlight
<1>t. /\ failures \in [EventType -> Nat] /\ attempt \in [SignIns -> Attempt]
      /\ IpMax \in Nat /\ Cardinality(SignIns) \in Nat
      /\ failures[type] + Cardinality(InFlight(type)) < IpMax + Cardinality(SignIns)
  BY SignInAssumption, SignInsFinite DEF SignInTypeOK, SignInAssumption, FailuresLimited, InFlight
<1>s. /\ InFlight(type) \in SUBSET SignIns /\ InFlight(type)' \in SUBSET SignIns
  BY DEF InFlight
(* It is enough that both counts stay or go down ...                       *)
<1>q. ASSUME failures'[type] \in Nat, failures'[type] <= failures[type],
             InFlight(type)' \subseteq InFlight(type)
      PROVE  failures'[type] + Cardinality(InFlight(type)') < IpMax + Cardinality(SignIns)
  <2>1. /\ Cardinality(InFlight(type)) \in Nat /\ Cardinality(InFlight(type)') \in Nat
        /\ Cardinality(InFlight(type)') <= Cardinality(InFlight(type))
    BY <1>s, <1>q, InFlightShrinks
  <2>. QED
    BY <1>t, <1>q, <2>1
(* ... and of a request that moves on or ends, that its type stays.        *)
<1>m. ASSUME NEW s \in SignIns, ~AttemptAt(s, "idle"),
             attempt'[s].pc = "idle" \/ attempt'[s].type = attempt[s].type,
             \A r \in SignIns : r # s => attempt'[r] = attempt[r]
      PROVE  InFlight(type)' \subseteq InFlight(type)
  BY <1>m DEF InFlight, AttemptAt
<1>1. CASE \E s \in SignIns, begun \in EventType : RequestAllowed(s, begun)
  <2>. PICK s \in SignIns, begun \in EventType : RequestAllowed(s, begun)
    BY <1>1
  <2>1. /\ attempt'[s].type = begun /\ \A r \in SignIns : r # s => attempt'[r] = attempt[r]
    BY BeginTyped
  <2>2. failures' = failures
    BY DEF RequestAllowed
  <2>3. CASE begun = type
    <3>1. failures[type] < IpMax
      BY <2>3 DEF RequestAllowed
    <3>2. Cardinality(InFlight(type)') \in Nat /\ Cardinality(InFlight(type)') <= Cardinality(SignIns)
      BY <1>s, InFlightShrinks
    <3>. QED
      BY <1>t, <2>2, <3>1, <3>2
  <2>4. CASE begun # type
    <3>1. InFlight(type)' \subseteq InFlight(type)
      BY <2>1, <2>4 DEF InFlight, AttemptAt
    <3>. QED
      BY <1>t, <1>q, <2>2, <3>1
  <2>. QED
    BY <2>3, <2>4
<1>2. CASE \E s \in SignIns : PreLoginCheck(s)
  <2>. PICK s \in SignIns : PreLoginCheck(s)
    BY <1>2
  <2>1. /\ attempt'[s].type = attempt[s].type /\ \A r \in SignIns : r # s => attempt'[r] = attempt[r]
    BY GotoTyped DEF PreLoginCheck, AttemptPc
  <2>. QED
    BY <1>t, <1>q, <1>m, <2>1 DEF PreLoginCheck, AttemptAt
<1>3. CASE \E s \in SignIns : ValidateCredentials(s)
  <2>. PICK s \in SignIns : ValidateCredentials(s)
    BY <1>3
  <2>1. (\E pc \in AttemptPc : AttemptGoto(s, pc)) \/ AttemptEnds(s)
    BY DEF ValidateCredentials, AttemptPc
  <2>2. /\ attempt'[s].pc = "idle" \/ attempt'[s].type = attempt[s].type
        /\ \A r \in SignIns : r # s => attempt'[r] = attempt[r]
    BY <2>1, GotoTyped, EndsTyped
  <2>. QED
    BY <1>t, <1>q, <1>m, <2>2 DEF ValidateCredentials, AttemptAt
<1>4. CASE \E s \in SignIns : RecordLoginSuccess(s)
  <2>. PICK s \in SignIns : RecordLoginSuccess(s)
    BY <1>4
  <2>1. attempt'[s].pc = "idle" /\ \A r \in SignIns : r # s => attempt'[r] = attempt[r]
    BY EndsTyped DEF RecordLoginSuccess
  <2>. QED
    BY <1>t, <1>q, <1>m, <2>1 DEF RecordLoginSuccess, ClearLoginFailures, AttemptAt
<1>5. CASE \E s \in SignIns : ReadFailedLogin(s)
  <2>. PICK s \in SignIns : ReadFailedLogin(s)
    BY <1>5
  <2>1. /\ attempt'[s].type = attempt[s].type /\ \A r \in SignIns : r # s => attempt'[r] = attempt[r]
    BY ReadTyped
  <2>. QED
    BY <1>t, <1>q, <1>m, <2>1 DEF ReadFailedLogin, AttemptAt
<1>6. CASE \E s \in SignIns : WriteFailedLogin(s)
  <2>. PICK s \in SignIns : WriteFailedLogin(s)
    BY <1>6
  <2>1. /\ attempt'[s].type = attempt[s].type /\ \A r \in SignIns : r # s => attempt'[r] = attempt[r]
    BY GotoTyped DEF WriteFailedLogin, AttemptPc
  <2>. QED
    BY <1>t, <1>q, <1>m, <2>1 DEF WriteFailedLogin, AttemptAt
<1>7. CASE \E s \in SignIns : RecordFailure(s)
  <2>. PICK s \in SignIns : RecordFailure(s)
    BY <1>7
  <2>1. attempt'[s].pc = "idle" /\ \A r \in SignIns : r # s => attempt'[r] = attempt[r]
    BY EndsTyped DEF RecordFailure
  <2>2. InFlight(type)' \subseteq InFlight(type)
    BY <1>m, <2>1 DEF RecordFailure, AttemptAt
  <2>3. CASE attempt[s].type = type
    <3>1. failures'[type] = failures[type] + 1
      BY <1>t, <2>3 DEF RecordFailure
    <3>2. s \in InFlight(type) /\ s \notin InFlight(type)'
      BY <2>1, <2>3 DEF InFlight, AttemptAt, RecordFailure
    <3>3. /\ Cardinality(InFlight(type)) \in Nat /\ Cardinality(InFlight(type)') \in Nat
          /\ Cardinality(InFlight(type)') + 1 <= Cardinality(InFlight(type))
      BY <1>s, <2>2, <3>2, InFlightShrinks
    <3>. QED
      BY <1>t, <3>1, <3>3
  <2>4. CASE attempt[s].type # type
    BY <1>t, <1>q, <2>2, <2>4 DEF RecordFailure
  <2>. QED
    BY <2>3, <2>4
<1>8. CASE \E s \in SignIns : RequestSucceeds(s)
  <2>. PICK s \in SignIns : RequestSucceeds(s)
    BY <1>8
  <2>1. attempt'[s].pc = "idle" /\ \A r \in SignIns : r # s => attempt'[r] = attempt[r]
    BY EndsTyped DEF RequestSucceeds
  <2>. QED
    BY <1>t, <1>q, <1>m, <2>1 DEF RequestSucceeds, AttemptAt
<1>9. CASE PasswordUpdated
  BY <1>9, <1>t, <1>q DEF PasswordUpdated, ClearLoginFailures, InFlight, AttemptAt
<1>10. CASE \E slid \in EventType : WindowSlides(slid)
  <2>. PICK slid \in EventType : WindowSlides(slid)
    BY <1>10
  <2>1. failures'[type] \in Nat /\ failures'[type] <= failures[type] /\ attempt' = attempt
    BY <1>t DEF WindowSlides
  <2>. QED
    BY <1>q, <2>1 DEF InFlight, AttemptAt
<1>11. CASE LockExpires
  BY <1>11, <1>t, <1>q DEF LockExpires, InFlight, AttemptAt
<1>. QED
  BY SignInStepCases, <1>1, <1>2, <1>3, <1>4, <1>5, <1>6, <1>7, <1>8, <1>9, <1>10, <1>11

LEMMA FailuresInit == SignInInit => FailuresLimited
<1>. SUFFICES ASSUME SignInInit, NEW type \in EventType, CountedAs(type) = type
              PROVE  failures[type] + Cardinality(InFlight(type)) < IpMax + Cardinality(SignIns)
  BY DEF FailuresLimited, InFlight
<1>1. InFlight(type) = {} /\ failures[type] = 0
  BY DEF SignInInit, InFlight, AttemptAt, IdleAttempt
<1>. QED
  BY <1>1, FS_EmptySet, SignInsFinite, SignInAssumption DEF SignInAssumption

(* The account's wrong passwords. What a step that touches neither the row *)
(* nor the history has to show: whoever is at its write was there already, *)
(* and nobody joins those whose password is being checked.                 *)
LEMMA GuessesKept ==
  ASSUME SignInTypeOK, GuessesInv,
         lockout' = lockout, guesses' = guesses, expiries' = expiries, overlapped' = overlapped,
         NEW s \in SignIns, \A r \in SignIns : r # s => attempt'[r] = attempt[r],
         attempt'[s].loaded \in {attempt[s].loaded, NoLockout},
         attempt'[s].pc # "writeFailed",
         attempt'[s].pc \in Guessing => attempt[s].pc \in Guessing \/ lockout.lock # "ahead"
  PROVE  GuessesInv'
<1>t. /\ guesses \in Nat /\ expiries \in Nat /\ Allowance \in Int /\ Allowance' = Allowance
  BY AllowanceTyped DEF SignInTypeOK, Allowance
<1>1. LockedAtLimit(NoLockout)
  BY SignInAssumption DEF LockedAtLimit, NoLockout, SignInAssumption
<1>2. LockedAtLimit(lockout)' /\ \A r \in SignIns : LockedAtLimit(attempt[r].loaded)'
  <2>1. LockedAtLimit(lockout)' /\ \A r \in SignIns : LockedAtLimit(attempt[r].loaded)
    BY DEF GuessesInv, LockedAtLimit
  <2>2. \A r \in SignIns : LockedAtLimit(attempt'[r].loaded)
    BY <1>1, <2>1
  <2>. QED
    BY <2>1, <2>2 DEF LockedAtLimit
<1>3. \A r \in SignIns : AttemptAt(r, "writeFailed")' =>
        AttemptAt(r, "writeFailed") /\ attempt'[r] = attempt[r]
  BY DEF AttemptAt
<1>4. lockout.lock = "ahead" =>
        /\ Cardinality(GuessingNow) \in Nat /\ Cardinality(GuessingNow') \in Nat
        /\ Cardinality(GuessingNow') <= Cardinality(GuessingNow)
  <2>1. lockout.lock = "ahead" => GuessingNow' \subseteq GuessingNow
    BY DEF GuessingNow
  <2>2. GuessingNow \in SUBSET SignIns /\ GuessingNow' \in SUBSET SignIns
    BY DEF GuessingNow
  <2>. QED
    BY <2>1, <2>2, InFlightShrinks
<1>5. ASSUME ~overlapped
      PROVE  /\ \A q, r \in SignIns : AttemptAt(q, "writeFailed")' /\ AttemptAt(r, "writeFailed")' => q = r
             /\ \A r \in SignIns : AttemptAt(r, "writeFailed")' /\ attempt'[r].loaded.lock = "none" =>
                  lockout'.lock = "none" /\ guesses' <= attempt'[r].loaded.attempts
  BY <1>3, <1>5 DEF GuessesInv
<1>6. ASSUME ~overlapped
      PROVE  /\ lockout'.lock = "none"  => guesses' <= lockout'.attempts
             /\ lockout'.lock = "ahead" => guesses' + Cardinality(GuessingNow') <= Allowance'
             /\ lockout'.lock = "past"  => guesses' + Cardinality(SignIns) <= Allowance'
  <2>1. /\ lockout.lock = "none"  => guesses <= lockout.attempts
        /\ lockout.lock = "ahead" => guesses + Cardinality(GuessingNow) <= Allowance
        /\ lockout.lock = "past"  => guesses + Cardinality(SignIns) <= Allowance
    BY <1>6 DEF GuessesInv
  <2>. QED
    BY <1>4, <1>t, <2>1
<1>. QED
  BY <1>2, <1>5, <1>6 DEF GuessesInv

(* Wrong passwords are counted one by one: what follows a write.           *)
LEMMA GuessCounted ==
  ASSUME SignInTypeOK, GuessesInv, NEW s \in SignIns, WriteFailedLogin(s)
  PROVE  GuessesInv'
<1> DEFINE loaded == attempt[s].loaded
<1>t. /\ guesses \in Nat /\ expiries \in Nat /\ Allowance \in Int /\ Allowance' = Allowance
      /\ attempt \in [SignIns -> Attempt] /\ lockout \in Lockout /\ loaded \in Lockout
      /\ LoginMaxAttempts \in Nat /\ Cardinality(SignIns) \in Nat
      /\ Allowance >= LoginMaxAttempts + (Cardinality(SignIns) - 1)
  <2>1. expiries' = expiries
    BY DEF WriteFailedLogin
  <2>2. expiries * Cardinality(SignIns) \in Nat
    BY SignInsFinite, AllowanceGrows DEF SignInTypeOK
  <2>. QED
    BY <2>1, <2>2, AllowanceTyped, SignInsFinite, SignInAssumption
    DEF SignInTypeOK, Allowance, Attempt, SignInAssumption
<1>w. /\ lockout' \in Lockout /\ lockout'.attempts = loaded.attempts + 1
      /\ lockout'.lock = IF lockout'.attempts >= LoginMaxAttempts THEN "ahead" ELSE loaded.lock
  BY WriteTyped
<1>g. /\ guesses' = guesses + 1 /\ overlapped' = overlapped
      /\ attempt'[s].pc = "record" /\ attempt'[s].loaded = loaded
      /\ \A r \in SignIns : r # s => attempt'[r] = attempt[r]
  BY GotoTyped DEF WriteFailedLogin, AttemptPc
<1>a. attempt[s].pc = "writeFailed"
  BY DEF WriteFailedLogin, AttemptAt
<1>l. LockedAtLimit(loaded) /\ LockedAtLimit(lockout)
  BY DEF GuessesInv
<1>1. LockedAtLimit(lockout') /\ \A r \in SignIns : LockedAtLimit(attempt'[r].loaded)
  <2>1. LockedAtLimit(lockout')
    BY <1>t, <1>w, <1>l DEF LockedAtLimit, Lockout
  <2>. QED
    BY <1>g, <2>1 DEF GuessesInv
<1>2. /\ Cardinality(GuessingNow) \in Nat /\ Cardinality(GuessingNow') \in Nat
      /\ Cardinality(GuessingNow') + 1 <= Cardinality(GuessingNow)
      /\ Cardinality(GuessingNow) <= Cardinality(SignIns)
  <2>1. /\ GuessingNow' \subseteq GuessingNow /\ s \in GuessingNow /\ s \notin GuessingNow'
        /\ GuessingNow \in SUBSET SignIns /\ GuessingNow' \in SUBSET SignIns
    BY <1>g, <1>a DEF GuessingNow, Guessing
  <2>. QED
    BY <2>1, InFlightShrinks
<1>3. ASSUME ~overlapped
      PROVE  \A r \in SignIns : ~(attempt'[r].pc = "writeFailed")
  BY <1>3, <1>g, <1>a DEF GuessesInv, AttemptAt
<1>4. ASSUME ~overlapped
      PROVE  /\ lockout'.lock = "none"  => guesses' <= lockout'.attempts
             /\ lockout'.lock = "ahead" => guesses' + Cardinality(GuessingNow') <= Allowance'
             /\ lockout'.lock = "past"  => guesses' + Cardinality(SignIns) <= Allowance'
  <2>0. /\ lockout.lock = "none"  => guesses <= lockout.attempts
        /\ lockout.lock = "ahead" => guesses + Cardinality(GuessingNow) <= Allowance
        /\ lockout.lock = "past"  => guesses + Cardinality(SignIns) <= Allowance
        /\ loaded.lock = "none" => lockout.lock = "none" /\ guesses <= loaded.attempts
    BY <1>4, <1>a DEF GuessesInv, AttemptAt
  <2>1. CASE loaded.lock = "none"
    <3>1. loaded.attempts < LoginMaxAttempts /\ guesses <= loaded.attempts
      BY <1>t, <1>l, <2>0, <2>1 DEF LockedAtLimit, Lockout
    <3>2. lockout'.lock \in {"none", "ahead"}
      BY <1>w, <2>1
    <3>. QED
      BY <1>t, <1>w, <1>g, <1>2, <3>1, <3>2 DEF Lockout
  <2>2. CASE loaded.lock # "none"
    <3>1. lockout'.lock = "ahead"
      BY <1>t, <1>w, <1>l, <2>2 DEF LockedAtLimit, Lockout
    <3>2. CASE lockout.lock = "none"
      <4>1. guesses < LoginMaxAttempts
        BY <1>t, <1>l, <2>0, <3>2 DEF LockedAtLimit, Lockout
      <4>. QED
        BY <1>t, <1>g, <1>2, <3>1, <4>1
    <3>3. CASE lockout.lock \in {"ahead", "past"}
      BY <1>t, <1>g, <1>2, <2>0, <3>1, <3>3
    <3>. QED
      BY <1>t, <3>2, <3>3 DEF Lockout
  <2>. QED
    BY <2>1, <2>2
<1>. QED
  BY <1>1, <1>3, <1>4, <1>g DEF GuessesInv, LockedAtLimit, AttemptAt

LEMMA GuessesInit == SignInInit => GuessesInv
<1>. SUFFICES ASSUME SignInInit PROVE GuessesInv
  OBVIOUS
<1>1. /\ NoLockout.attempts = 0 /\ NoLockout.lock = "none" /\ LockedAtLimit(NoLockout)
  BY SignInAssumption DEF NoLockout, LockedAtLimit, SignInAssumption
<1>2. \A s \in SignIns : attempt[s].loaded = NoLockout /\ attempt[s].pc = "idle"
  BY DEF SignInInit, IdleAttempt
<1>. QED
  BY <1>1, <1>2 DEF SignInInit, GuessesInv, AttemptAt

LEMMA GuessesStep ==
  ASSUME SignInTypeOK, GuessesInv, SignInNext
  PROVE  GuessesInv'
<1>t. /\ guesses \in Nat /\ expiries \in Nat /\ lockout \in Lockout
      /\ attempt \in [SignIns -> Attempt] /\ Allowance \in Int
      /\ LoginMaxAttempts \in Nat \ {0} /\ Cardinality(SignIns) \in Nat
  BY AllowanceTyped, SignInsFinite, SignInAssumption DEF SignInTypeOK, SignInAssumption
<1>n. /\ NoLockout.attempts = 0 /\ NoLockout.lock = "none" /\ LockedAtLimit(NoLockout)
  BY SignInAssumption DEF NoLockout, LockedAtLimit, SignInAssumption
<1>1. CASE \E s \in SignIns, type \in EventType : RequestAllowed(s, type)
  <2>. PICK s \in SignIns, type \in EventType : RequestAllowed(s, type)
    BY <1>1
  <2>1. /\ attempt'[s].pc \in {"preLogin", "record"} /\ attempt'[s].loaded = NoLockout
        /\ \A r \in SignIns : r # s => attempt'[r] = attempt[r]
    BY BeginTyped
  <2>. QED
    BY <2>1, GuessesKept DEF RequestAllowed, Guessing
<1>2. CASE \E s \in SignIns : PreLoginCheck(s)
  <2>. PICK s \in SignIns : PreLoginCheck(s)
    BY <1>2
  <2>1. /\ attempt'[s].pc = IF lockout.lock = "ahead" THEN "record" ELSE "validate"
        /\ attempt'[s].loaded = attempt[s].loaded
        /\ \A r \in SignIns : r # s => attempt'[r] = attempt[r]
    BY GotoTyped DEF PreLoginCheck, AttemptPc
  <2>. QED
    BY <2>1, GuessesKept DEF PreLoginCheck, Guessing
<1>3. CASE \E s \in SignIns : ValidateCredentials(s)
  <2>. PICK s \in SignIns : ValidateCredentials(s)
    BY <1>3
  <2>1. \/ AttemptEnds(s)
        \/ \E pc \in {"success", "readFailed", "record"} : AttemptGoto(s, pc)
    BY DEF ValidateCredentials
  <2>2. /\ attempt'[s].pc \in {"idle", "success", "readFailed", "record"}
        /\ attempt'[s].loaded \in {attempt[s].loaded, NoLockout}
        /\ \A r \in SignIns : r # s => attempt'[r] = attempt[r]
    BY <2>1, GotoTyped, EndsTyped DEF AttemptPc
  <2>. QED
    BY <2>2, GuessesKept DEF ValidateCredentials, Guessing, AttemptAt
<1>4. CASE \E s \in SignIns : RecordLoginSuccess(s)
  <2>. PICK s \in SignIns : RecordLoginSuccess(s)
    BY <1>4
  <2>1. /\ attempt'[s].pc = "idle" /\ attempt'[s].loaded = NoLockout
        /\ \A r \in SignIns : r # s => attempt'[r] = attempt[r]
    BY EndsTyped DEF RecordLoginSuccess
  <2>2. /\ lockout' = NoLockout /\ guesses' = 0 /\ overlapped' = overlapped
    BY DEF RecordLoginSuccess, ClearLoginFailures
  <2>3. \A r \in SignIns : attempt'[r].pc = "writeFailed" => attempt'[r] = attempt[r]
    BY <2>1
  <2>4. \A r \in SignIns : attempt[r].loaded.attempts \in Nat
    BY <1>t DEF Attempt, Lockout
  <2>5. \A r \in SignIns : LockedAtLimit(attempt'[r].loaded)
    BY <1>n, <2>1 DEF GuessesInv
  <2>. QED
    BY <1>n, <2>2, <2>3, <2>4, <2>5 DEF GuessesInv, AttemptAt, LockedAtLimit
<1>5. CASE \E s \in SignIns : ReadFailedLogin(s)
  <2>. PICK s \in SignIns : ReadFailedLogin(s)
    BY <1>5
  <2>1. /\ attempt'[s].pc = "writeFailed" /\ attempt'[s].loaded = lockout
        /\ \A r \in SignIns : r # s => attempt'[r] = attempt[r]
    BY ReadTyped
  <2>2. /\ lockout' = lockout /\ guesses' = guesses /\ Allowance' = Allowance
        /\ overlapped' = (overlapped \/ \E r \in SignIns : AttemptAt(r, "writeFailed"))
        /\ attempt[s].pc = "readFailed"
    BY DEF ReadFailedLogin, Allowance, AttemptAt
  <2>3. LockedAtLimit(lockout') /\ \A r \in SignIns : LockedAtLimit(attempt'[r].loaded)
    BY <2>1, <2>2 DEF GuessesInv
  <2>4. GuessingNow' = GuessingNow
    BY <2>1, <2>2 DEF GuessingNow, Guessing
  <2>5. ASSUME ~overlapped'
        PROVE  \A r \in SignIns : attempt'[r].pc = "writeFailed" => r = s
    BY <2>1, <2>2, <2>5 DEF AttemptAt
  <2>6. ASSUME ~overlapped'
        PROVE  /\ lockout.lock = "none"  => guesses <= lockout.attempts
               /\ lockout.lock = "ahead" => guesses + Cardinality(GuessingNow) <= Allowance
               /\ lockout.lock = "past"  => guesses + Cardinality(SignIns) <= Allowance
    BY <2>2, <2>6 DEF GuessesInv
  <2>7. LockedAtLimit(lockout)' /\ \A r \in SignIns : LockedAtLimit(attempt[r].loaded)'
    BY <2>3 DEF LockedAtLimit
  <2>8. ASSUME ~overlapped'
        PROVE  /\ lockout'.lock = "none"  => guesses' <= lockout'.attempts
               /\ lockout'.lock = "ahead" => guesses' + Cardinality(GuessingNow') <= Allowance'
               /\ lockout'.lock = "past"  => guesses' + Cardinality(SignIns) <= Allowance'
    BY <2>2, <2>4, <2>6, <2>8
  <2>9. ASSUME ~overlapped'
        PROVE  /\ \A q, r \in SignIns :
                    AttemptAt(q, "writeFailed")' /\ AttemptAt(r, "writeFailed")' => q = r
               /\ \A r \in SignIns :
                    AttemptAt(r, "writeFailed")' /\ attempt'[r].loaded.lock = "none" =>
                      lockout'.lock = "none" /\ guesses' <= attempt'[r].loaded.attempts
    BY <2>1, <2>2, <2>5, <2>6, <2>9 DEF AttemptAt
  <2>. QED
    BY <2>7, <2>8, <2>9 DEF GuessesInv
<1>6. CASE \E s \in SignIns : WriteFailedLogin(s)
  BY <1>6, GuessCounted
<1>7. CASE \E s \in SignIns : RecordFailure(s) \/ RequestSucceeds(s)
  <2>. PICK s \in SignIns : RecordFailure(s) \/ RequestSucceeds(s)
    BY <1>7
  <2>1. /\ attempt'[s].pc = "idle" /\ attempt'[s].loaded = NoLockout
        /\ \A r \in SignIns : r # s => attempt'[r] = attempt[r]
    BY EndsTyped DEF RecordFailure, RequestSucceeds
  <2>. QED
    BY <2>1, GuessesKept DEF RecordFailure, RequestSucceeds, Guessing
<1>8. CASE PasswordUpdated
  <2>1. /\ lockout' = NoLockout /\ guesses' = 0 /\ overlapped' = overlapped /\ attempt' = attempt
    BY <1>8 DEF PasswordUpdated, ClearLoginFailures
  <2>2. \A r \in SignIns : attempt[r].loaded.attempts \in Nat
    BY <1>t DEF Attempt, Lockout
  <2>. QED
    BY <1>n, <2>1, <2>2 DEF GuessesInv, AttemptAt, LockedAtLimit
<1>9. CASE \E type \in EventType : WindowSlides(type)
  BY <1>9 DEF WindowSlides, GuessesInv, AttemptAt, LockedAtLimit, GuessingNow, Allowance
<1>10. CASE LockExpires
  <2>1. /\ lockout.lock = "ahead" /\ lockout'.lock = "past" /\ lockout'.attempts = lockout.attempts
        /\ attempt' = attempt /\ guesses' = guesses /\ overlapped' = overlapped
        /\ expiries' = expiries + 1
    BY <1>10, <1>t DEF LockExpires, Lockout
  <2>2. Allowance' = Allowance + Cardinality(SignIns)
    <3>1. /\ expiries * Cardinality(SignIns) \in Nat
          /\ (expiries + 1) * Cardinality(SignIns)
               = expiries * Cardinality(SignIns) + Cardinality(SignIns)
      BY <1>t, AllowanceGrows
    <3>. QED
      BY <1>t, <2>1, <3>1 DEF Allowance
  <2>3. ~overlapped => guesses + Cardinality(GuessingNow) <= Allowance
    BY <2>1 DEF GuessesInv
  <2>4. Cardinality(GuessingNow) \in Nat
    <3>1. GuessingNow \in SUBSET SignIns
      BY DEF GuessingNow
    <3>. QED
      BY <3>1, InFlightShrinks
  <2>5. ~overlapped => guesses' + Cardinality(SignIns) <= Allowance'
    BY <1>t, <2>1, <2>2, <2>3, <2>4
  <2>6. LockedAtLimit(lockout)' /\ \A r \in SignIns : LockedAtLimit(attempt[r].loaded)'
    BY <2>1 DEF GuessesInv, LockedAtLimit
  <2>7. ASSUME ~overlapped
        PROVE  \A r \in SignIns : attempt[r].pc = "writeFailed" => attempt[r].loaded.lock # "none"
    BY <2>1, <2>7 DEF GuessesInv, AttemptAt
  <2>. QED
    BY <2>1, <2>5, <2>6, <2>7 DEF GuessesInv, AttemptAt
<1>. QED
  BY SignInStepCases, <1>1, <1>2, <1>3, <1>4, <1>5, <1>6, <1>7, <1>8, <1>9, <1>10

LEMMA GuessesInvLimits ==
  ASSUME SignInTypeOK, GuessesInv
  PROVE  GuessesLimited
<1>. SUFFICES ASSUME ~overlapped PROVE guesses <= Allowance
  BY DEF GuessesLimited, Allowance
<1>t. /\ guesses \in Nat /\ lockout \in Lockout /\ LoginMaxAttempts \in Nat \ {0}
      /\ Cardinality(SignIns) \in Nat /\ expiries * Cardinality(SignIns) \in Nat
      /\ Allowance = LoginMaxAttempts + (Cardinality(SignIns) - 1) + expiries * Cardinality(SignIns)
  BY SignInsFinite, AllowanceGrows, SignInAssumption DEF SignInTypeOK, SignInAssumption, Allowance
<1>1. Cardinality(GuessingNow) \in Nat
  <2>1. GuessingNow \in SUBSET SignIns
    BY DEF GuessingNow
  <2>. QED
    BY <2>1, InFlightShrinks
<1>2. CASE lockout.lock = "none"
  <2>1. guesses <= lockout.attempts /\ ~(lockout.attempts >= LoginMaxAttempts)
    BY <1>2 DEF GuessesInv, LockedAtLimit
  <2>2. lockout.attempts \in Nat
    BY <1>t DEF Lockout
  <2>. QED
    BY <1>t, <2>1, <2>2
<1>3. CASE lockout.lock = "ahead"
  <2>1. guesses + Cardinality(GuessingNow) <= Allowance
    BY <1>3 DEF GuessesInv
  <2>. QED
    BY <1>t, <1>1, <2>1
<1>4. CASE lockout.lock = "past"
  <2>1. guesses + Cardinality(SignIns) <= Allowance
    BY <1>4 DEF GuessesInv
  <2>. QED
    BY <1>t, <2>1
<1>. QED
  BY <1>t, <1>2, <1>3, <1>4 DEF Lockout

(* The rows, counters and copies of a sign-in keep their shapes.           *)
THEOREM SignInTyped == SignInSpec => []SignInTypeOK
<1>1. SignInTypeOK /\ [SignInNext]_signInVars => SignInTypeOK'
  BY SignInStepTyped DEF signInVars, SignInTypeOK
<1>. QED
  BY SignInInitTyped, <1>1, PTL DEF SignInSpec

(* A password can be guessed only so often, whatever the handlers of one   *)
(* account's sign-ins interleave, and a client's failures stay within      *)
(* their limit (login-protection.service.ts, abuse-protection.service.ts). *)
THEOREM GuessingIsLimited == SignInSpec => []AttemptsLimited
<1> DEFINE Inv == SignInTypeOK /\ GuessesInv /\ FailuresLimited
<1>1. SignInInit => Inv
  BY SignInInitTyped, GuessesInit, FailuresInit
<1>2. Inv /\ [SignInNext]_signInVars => Inv'
  <2> SUFFICES ASSUME Inv, [SignInNext]_signInVars PROVE Inv'
    OBVIOUS
  <2>1. CASE SignInNext
    BY <2>1, SignInStepTyped, GuessesStep, FailuresStep
  <2>2. CASE UNCHANGED signInVars
    BY <2>2 DEF signInVars, SignInTypeOK, GuessesInv, FailuresLimited, AttemptAt, LockedAtLimit,
               GuessingNow, Allowance
  <2>. QED
    BY <2>1, <2>2
<1>3. Inv => AttemptsLimited
  BY GuessesInvLimits DEF AttemptsLimited
<1>. QED
  BY <1>1, <1>2, <1>3, PTL DEF SignInSpec

----
(* Credentials: what the newest of a list are.                             *)
LEMMA NewestOf ==
  ASSUME NEW S, NEW s \in Seq(S), NEW n \in Nat, NEW m,
         m = IF Len(s) < n THEN Len(s) ELSE n
  PROVE  /\ SubSeq(s, 1, m) \in Seq(S) /\ Len(SubSeq(s, 1, m)) = m
         /\ \A i \in 1 .. m : SubSeq(s, 1, m)[i] = s[i]
         /\ ToSet(SubSeq(s, 1, m)) = {s[i] : i \in 1 .. m}
<1> DEFINE r == SubSeq(s, 1, m)
<1>1. m \in Nat /\ m <= Len(s)
  OBVIOUS
<1>2. r \in Seq(S) /\ Len(r) = m /\ \A i \in 1 .. m : r[i] = s[i]
  BY <1>1
<1>. HIDE DEF r
<1>3. ToSet(r) = {s[i] : i \in 1 .. m}
  BY <1>2 DEF ToSet
<1>. QED
  BY <1>2, <1>3 DEF r

(* What is put before a list.                                              *)
LEMMA PutBefore ==
  ASSUME NEW S, NEW s \in Seq(S), NEW x \in S
  PROVE  /\ <<x>> \o s \in Seq(S) /\ Len(<<x>> \o s) = Len(s) + 1
         /\ (<<x>> \o s)[1] = x
         /\ \A i \in 1 .. Len(s) : (<<x>> \o s)[i + 1] = s[i]
OBVIOUS

----
(* Credentials: the inductive invariant.                                   *)

(* Before the account there is nothing but requests to create it.          *)
NobodyYet ==
  ~account.exists => /\ account = NoUser /\ past = <<>> /\ link = <<>>
                     /\ \A h \in Handlers : work[h].pc \in {"idle", "create"}

(* As long as no two updates have overlapped, the handler that updates is  *)
(* alone, with the password it loaded, ...                                 *)
Alone ==
  /\ \A g, h \in Handlers : Updating(g) /\ Updating(h) => g = h
  /\ \A h \in Handlers :
       /\ work[h].pc \in {"check", "update"} => work[h].old = account.passwordHash
       /\ work[h].pc = "update" =>
            /\ work[h].new # account.passwordHash
            /\ \A i \in 1 .. Len(past) : i <= HistoryCount => work[h].new # past[i]

(* ... and the history holds the newest passwords, enough of them.         *)
HistoryIsPast ==
  /\ Len(history) = Len(past) \/ (Len(history) <= Len(past) /\ HistoryCount <= Len(history))
  /\ \A i \in 1 .. Len(history) : history[i] = past[i]

PasswordIsNew ==
  \A i \in 1 .. Len(past) : i <= HistoryCount + 1 => account.passwordHash # past[i]

(* A link that is about to be made is of a kind.                           *)
KindOf(w) == w.pc \in {"create", "revokeLinks", "createLink"} => w.kind # "none"

LinksOfAKind == \A h \in Handlers : KindOf(work[h])

CredentialsInv ==
  /\ CredentialsTypeOK /\ NobodyYet /\ LinksOfAKind
  /\ ~raced => Alone /\ HistoryIsPast /\ PasswordIsNew

----
(* Credentials: what a handler becomes, and what becomes of the links.     *)

SoundWork(w) == w \in Work /\ w.t \in {0} \cup Links /\ KindOf(w)

LEMMA WorkMoves ==
  ASSUME CredentialsTypeOK, NEW h \in Handlers, NEW w \in Work, w.t \in {0} \cup Links',
         work' = [work EXCEPT ![h] = w], Len(link') \in Nat, Len(link') >= Len(link)
  PROVE  /\ work' \in [Handlers -> Work] /\ \A g \in Handlers : work'[g].t \in {0} \cup Links'
         /\ work'[h] = w /\ \A g \in Handlers : g # h => work'[g] = work[g]
<1>1. work \in [Handlers -> Work] /\ Len(link) \in Nat
  BY DEF CredentialsTypeOK
<1>2. Links \subseteq Links'
  BY <1>1 DEF Links
<1>. QED
  BY <1>1, <1>2 DEF CredentialsTypeOK, SoundWork

LEMMA SomePasswordIsOne == SomePassword \in Passwords
BY CredentialsAssumption DEF CredentialsAssumption, SomePassword

LEMMA IdleWorkSound ==
  ASSUME NEW pc \in WorkPc \ {"create", "revokeLinks", "createLink"}, NEW kind \in {"none", "reset", "verify"}, NEW t \in {0} \cup Links,
         NEW p \in Passwords, NEW q \in Passwords
  PROVE  SoundWork([pc |-> pc, kind |-> kind, t |-> t, new |-> p, old |-> q])
BY DEF SoundWork, Work, Links, KindOf

(* Links are only added to.                                                *)
LinksKept == link' \in Seq(OneTimeToken) /\ Len(link') >= Len(link)

LEMMA SameLinksKept == CredentialsTypeOK /\ UNCHANGED link => LinksKept
BY DEF CredentialsTypeOK, LinksKept

(* A handler that is not about to update, or ends, disturbs nothing.       *)
LEMMA QuietMove ==
  ASSUME CredentialsInv, NEW h \in Handlers, NEW w \in Work, w.t \in {0} \cup Links', KindOf(w),
         w.pc \notin {"loadReset", "check", "update", "trim"},
         work' = [work EXCEPT ![h] = w], UNCHANGED <<history, past, raced>>,
         account' \in User, account'.passwordHash = account.passwordHash, LinksKept,
         ~account'.exists => UNCHANGED <<account, link>> /\ w.pc \in {"idle", "create"}
  PROVE  CredentialsInv'
<1>1. Len(link) \in Nat /\ Len(link') \in Nat /\ CredentialsTypeOK
  BY DEF CredentialsInv, CredentialsTypeOK, LinksKept
<1>2. /\ work' \in [Handlers -> Work] /\ \A g \in Handlers : work'[g].t \in {0} \cup Links'
      /\ work'[h] = w /\ \A g \in Handlers : g # h => work'[g] = work[g]
  BY <1>1, WorkMoves DEF LinksKept
<1>3. CredentialsTypeOK'
  BY <1>1, <1>2 DEF CredentialsTypeOK, LinksKept
<1>4. NobodyYet'
  BY <1>2 DEF CredentialsInv, NobodyYet
<1>11. LinksOfAKind'
  BY <1>2 DEF CredentialsInv, LinksOfAKind
<1>5. Links \subseteq Links'
  BY <1>1 DEF Links, LinksKept
<1>8. ASSUME ~raced
      PROVE  Alone'
  <2>1. Alone /\ \A g \in Handlers : work[g].t \in {0} \cup Links
    BY <1>1, <1>8 DEF CredentialsInv, CredentialsTypeOK
  <2>2. \A g \in Handlers : work'[g].pc \in {"loadReset", "check", "update", "trim"} =>
                              work'[g] = work[g]
    BY <1>2
  <2>3. \A g \in Handlers : Updating(g)' => Updating(g) /\ work'[g] = work[g]
    BY <2>2 DEF Updating
  <2>. QED
    BY <2>1, <2>3 DEF Alone, Updating
<1>9. ~raced => HistoryIsPast' /\ PasswordIsNew'
  BY DEF CredentialsInv, HistoryIsPast, PasswordIsNew
<1>. QED
  BY <1>3, <1>4, <1>8, <1>9, <1>11 DEF CredentialsInv

(* Mostly no link is added.                                                *)
LEMMA SoundMove ==
  ASSUME CredentialsInv, NEW h \in Handlers, NEW w, SoundWork(w),
         w.pc \notin {"loadReset", "check", "update", "trim"},
         work' = [work EXCEPT ![h] = w], UNCHANGED <<history, past, raced>>,
         account' \in User, account'.passwordHash = account.passwordHash, LinksKept,
         ~account'.exists => UNCHANGED <<account, link>> /\ w.pc \in {"idle", "create"}
  PROVE  CredentialsInv'
<1>1. Links \subseteq Links'
  BY DEF Links, LinksKept, CredentialsInv, CredentialsTypeOK
<1>. QED
  BY <1>1, QuietMove DEF SoundWork

(* A link that is mailed or expires, and one that is spent or serves, is   *)
(* still a link, of the same issuer.                                       *)
LEMMA LinkTyped ==
  ASSUME CredentialsTypeOK
  PROVE  /\ link \in [Links -> OneTimeToken]
         /\ \A t \in Links : link[t] \in OneTimeToken
BY DEF CredentialsTypeOK, Links

SameIssue(l, k) == l.kind = k.kind /\ l.since = k.since

LEMMA MarkedLink ==
  ASSUME NEW l \in OneTimeToken, NEW b \in BOOLEAN
  PROVE  /\ [l EXCEPT !.mailed = b] \in OneTimeToken /\ SameIssue([l EXCEPT !.mailed = b], l)
         /\ [l EXCEPT !.mailed = b].used = l.used /\ [l EXCEPT !.mailed = b].uses = l.uses
         /\ [l EXCEPT !.mailed = b].held = l.held
         /\ [l EXCEPT !.expired = TRUE] \in OneTimeToken /\ SameIssue([l EXCEPT !.expired = TRUE], l)
         /\ [l EXCEPT !.expired = TRUE].used = l.used /\ [l EXCEPT !.expired = TRUE].uses = l.uses
         /\ [l EXCEPT !.expired = TRUE].held = l.held
BY DEF OneTimeToken, SameIssue

LEMMA ConfirmingFinite ==
  ASSUME NEW t
  PROVE  IsFiniteSet(Confirming(t)) /\ Cardinality(Confirming(t)) \in Nat
<1>1. Confirming(t) \in SUBSET Handlers
  BY DEF Confirming
<1>. QED
  BY <1>1, FS_Subset, FS_CardinalityType, CredentialsAssumption DEF CredentialsAssumption

LEMMA SpentLink ==
  ASSUME CredentialsTypeOK, NEW t \in Links
  PROVE  /\ Spent(t) \in OneTimeToken /\ Spent(t).used /\ SameIssue(Spent(t), link[t])
         /\ Spent(t).uses = link[t].uses
         /\ Spent(t).held = IF link[t].used THEN link[t].held ELSE Cardinality(Confirming(t))
         /\ Served(t) \in OneTimeToken /\ Served(t).used /\ SameIssue(Served(t), link[t])
         /\ Served(t).uses = link[t].uses + 1 /\ Served(t).held = Spent(t).held
<1> DEFINE n == IF link[t].used THEN link[t].held ELSE Cardinality(Confirming(t))
           m == link[t].uses + 1
<1>1. link[t] \in OneTimeToken
  BY LinkTyped
<1>2. n \in Nat /\ m \in Nat
  BY <1>1, ConfirmingFinite DEF OneTimeToken
<1>3. Spent(t) = [link[t] EXCEPT !.used = TRUE, !.held = n]
  BY DEF Spent
<1>. HIDE DEF n
<1>4. /\ Spent(t) \in OneTimeToken /\ Spent(t).used /\ SameIssue(Spent(t), link[t])
      /\ Spent(t).uses = link[t].uses /\ Spent(t).held = n
  BY <1>1, <1>2, <1>3 DEF OneTimeToken, SameIssue
<1>5. Served(t) = [Spent(t) EXCEPT !.uses = m]
  BY <1>4 DEF Served
<1>. HIDE DEF m
<1>6. /\ Served(t) \in OneTimeToken /\ Served(t).used /\ SameIssue(Served(t), link[t])
      /\ Served(t).uses = m /\ Served(t).held = Spent(t).held
  BY <1>2, <1>4, <1>5 DEF OneTimeToken, SameIssue
<1>. QED
  BY <1>4, <1>6 DEF n, m

(* Marking some links keeps them all.                                      *)
LEMMA MarkedKept ==
  ASSUME CredentialsTypeOK, link' \in [Links -> OneTimeToken]
  PROVE  LinksKept /\ Len(link') = Len(link) /\ Links' = Links
<1>1. Len(link) \in Nat
  BY DEF CredentialsTypeOK
<1>2. link' \in Seq(OneTimeToken) /\ Len(link') = Len(link)
  BY <1>1 DEF Links
<1>. QED
  BY <1>1, <1>2 DEF LinksKept, Links

(* The steps of handlers that register, mail links or verify.              *)
QuietStep(h) ==
  \/ Register(h) \/ CreateUser(h) \/ RequestPasswordReset(h) \/ ResendVerification(h)
  \/ RevokeUnusedForUser(h) \/ CreateLink(h) \/ Deliver(h)
  \/ \E t \in Links : OpenVerification(h, t)
  \/ LoadForVerification(h) \/ VerifyEmail(h) \/ Dies(h)

LEMMA QuietSteps ==
  ASSUME CredentialsInv, NEW h \in Handlers, QuietStep(h)
  PROVE  CredentialsInv'
<1>0. /\ CredentialsTypeOK /\ NobodyYet /\ work \in [Handlers -> Work] /\ account \in User
      /\ SoundWork(work[h]) /\ work[h] \in Work
  BY DEF CredentialsInv, CredentialsTypeOK, SoundWork, LinksOfAKind
<1>i. SoundWork(IdleWork) /\ IdleWork.pc = "idle"
  BY SomePasswordIsOne, IdleWorkSound DEF IdleWork, WorkPc
<1>s. ASSUME NEW pc \in WorkPc, NEW kind \in {"reset", "verify"}, WorkStarts(h, pc, kind)
      PROVE  \E w : SoundWork(w) /\ w.pc = pc /\ work' = [work EXCEPT ![h] = w]
  <2> DEFINE w == [IdleWork EXCEPT !.pc = pc, !.kind = kind]
  <2>1. SoundWork(w) /\ w.pc = pc
    BY <1>i DEF SoundWork, Work, IdleWork, KindOf
  <2>2. work' = [work EXCEPT ![h] = w]
    BY <1>s DEF WorkStarts
  <2>. HIDE DEF w
  <2>. QED
    BY <2>1, <2>2
<1>g. ASSUME NEW pc \in WorkPc, WorkGoto(h, pc),
             pc = "createLink" \/ pc = "revokeLinks" => work[h].kind # "none", pc # "create"
      PROVE  \E w : SoundWork(w) /\ w.pc = pc /\ work' = [work EXCEPT ![h] = w]
  <2> DEFINE w == [work[h] EXCEPT !.pc = pc]
  <2>1. SoundWork(w) /\ w.pc = pc
    BY <1>0, <1>g DEF SoundWork, Work, KindOf
  <2>2. work' = [work EXCEPT ![h] = w]
    BY <1>0, <1>g DEF WorkGoto
  <2>. HIDE DEF w
  <2>. QED
    BY <2>1, <2>2
<1>n. work[h].pc \in {"create", "revokeLinks", "createLink"} => work[h].kind # "none"
  BY <1>0 DEF SoundWork, KindOf
<1>k. UNCHANGED link => LinksKept
  BY <1>0, SameLinksKept
<1>e. WorkEnds(h) => work' = [work EXCEPT ![h] = IdleWork]
  BY DEF WorkEnds
<1>x. work[h].pc \notin {"idle", "create"} => account.exists
  BY <1>0 DEF NobodyYet
<1>1. CASE Register(h)
  <2>1. PICK w : SoundWork(w) /\ w.pc = "create" /\ work' = [work EXCEPT ![h] = w]
    BY <1>1, <1>s DEF Register, WorkPc
  <2>. QED
    BY <1>0, <1>1, <1>k, <2>1, SoundMove DEF Register
<1>2. CASE CreateUser(h)
  <2>1. CASE ~account.exists
    <3>1. PICK w : SoundWork(w) /\ w.pc = "revokeLinks" /\ work' = [work EXCEPT ![h] = w]
      BY <1>2, <1>g, <1>n, <2>1 DEF CreateUser, WorkPc, WorkAt
    <3>2. account' \in User /\ account'.exists /\ account'.passwordHash = SomePassword
      BY <1>2, <2>1, SomePasswordIsOne DEF CreateUser, NoUser, User
    <3>3. account.passwordHash = SomePassword
      BY <1>0, <2>1 DEF NobodyYet, NoUser
    <3>. QED
      BY <1>0, <1>2, <1>k, <2>1, <3>1, <3>2, <3>3, SoundMove DEF CreateUser
  <2>2. CASE account.exists
    BY <1>0, <1>2, <1>e, <1>i, <1>k, <2>2, SoundMove DEF CreateUser
  <2>. QED
    BY <2>1, <2>2
<1>3. CASE RequestPasswordReset(h) \/ ResendVerification(h)
  <2>1. PICK w : SoundWork(w) /\ w.pc = "revokeLinks" /\ work' = [work EXCEPT ![h] = w]
    BY <1>3, <1>s DEF RequestPasswordReset, ResendVerification, WorkPc
  <2>. QED
    BY <1>0, <1>3, <1>k, <2>1, SoundMove DEF RequestPasswordReset, ResendVerification
<1>4. CASE RevokeUnusedForUser(h)
  <2> DEFINE w == [work[h] EXCEPT !.pc = "createLink", !.t = Len(link)]
  <2>1. SoundWork(w) /\ w.pc = "createLink" /\ work' = [work EXCEPT ![h] = w]
    <3>1. Len(link) \in Nat /\ Len(link) \in {0} \cup Links /\ "createLink" \in WorkPc
      BY <1>0 DEF CredentialsTypeOK, Links, WorkPc
    <3>2. w \in Work /\ w.pc = "createLink" /\ w.t = Len(link) /\ w.kind = work[h].kind
      BY <1>0, <3>1 DEF Work
    <3>3. work' = [work EXCEPT ![h] = w] /\ work[h].kind # "none"
      BY <1>0, <1>4, <1>n DEF RevokeUnusedForUser, WorkAt
    <3>. HIDE DEF w
    <3>. QED
      BY <3>1, <3>2, <3>3 DEF SoundWork, KindOf
  <2>. HIDE DEF w
  <2>2. \A t \in Links : link[t] \in OneTimeToken /\ Spent(t) \in OneTimeToken
    BY <1>0, LinkTyped, SpentLink
  <2>3. LinksKept
    <3>1. link' \in [Links -> OneTimeToken]
      BY <1>4, <2>2 DEF RevokeUnusedForUser
    <3>. QED
      BY <1>0, <3>1, MarkedKept
  <2>. QED
    BY <1>0, <1>4, <1>x, <2>1, <2>3, SoundMove DEF RevokeUnusedForUser, WorkAt
<1>5. CASE CreateLink(h)
  <2> DEFINE w   == [work[h] EXCEPT !.pc = "mail", !.t = Len(link) + 1]
             new == [kind |-> work[h].kind, used |-> FALSE, expired |-> FALSE,
                     mailed |-> FALSE, uses |-> 0, held |-> 0, since |-> work[h].t]
  <2>1. /\ Len(link) \in Nat /\ link \in Seq(OneTimeToken) /\ work[h].kind \in {"reset", "verify"}
        /\ work[h].t \in Nat
    BY <1>0, <1>5, <1>n DEF CredentialsTypeOK, Work, CreateLink, WorkAt
  <2>2. work' = [work EXCEPT ![h] = w] /\ link' = Append(link, new)
    BY <1>0, <1>5 DEF CreateLink
  <2>3. new \in OneTimeToken
    BY <2>1 DEF OneTimeToken
  <2>. HIDE DEF new
  <2>4. /\ link' \in Seq(OneTimeToken) /\ Len(link') = Len(link) + 1
        /\ link'[Len(link) + 1] = new /\ \A t \in 1 .. Len(link) : link'[t] = link[t]
    BY <2>1, <2>2, <2>3
  <2>5. LinksKept
    BY <2>1, <2>4 DEF LinksKept
  <2>6. w \in Work /\ w.t \in Links' /\ w.pc = "mail" /\ KindOf(w)
    <3>1. Len(link) + 1 \in Nat /\ Len(link) + 1 \in Links' /\ "mail" \in WorkPc
      BY <2>1, <2>4 DEF Links, WorkPc
    <3>. QED
      BY <1>0, <3>1 DEF Work, KindOf
  <2>. HIDE DEF w
  <2>7. account.exists
    BY <1>5, <1>x DEF CreateLink, WorkAt
  <2>. QED
    BY <1>0, <1>5, <2>2, <2>5, <2>6, <2>7, QuietMove DEF CreateLink
<1>6. CASE Deliver(h)
  <2>1. PICK sent \in BOOLEAN : link' = [link EXCEPT ![work[h].t].mailed = sent]
    BY <1>6 DEF Deliver
  <2>2. link' \in [Links -> OneTimeToken]
    BY <1>0, <2>1, LinkTyped, MarkedLink
  <2>3. LinksKept
    BY <1>0, <2>2, MarkedKept
  <2>. QED
    BY <1>0, <1>6, <1>e, <1>i, <1>x, <2>3, SoundMove DEF Deliver, WorkAt
<1>7. CASE \E t \in Links : OpenVerification(h, t)
  <2>1. PICK t \in Links : OpenVerification(h, t)
    BY <1>7
  <2> DEFINE w == [IdleWork EXCEPT !.pc = "loadVerify", !.t = t]
  <2>2. SoundWork(w) /\ w.pc = "loadVerify" /\ work' = [work EXCEPT ![h] = w]
    <3>1. t \in Nat /\ t \in Links /\ "loadVerify" \in WorkPc /\ IdleWork \in Work
      BY <1>i, <2>1 DEF Links, WorkPc, SoundWork
    <3>2. SoundWork(w) /\ w.pc = "loadVerify"
      BY <3>1 DEF SoundWork, Work, KindOf
    <3>. QED
      BY <2>1, <3>2 DEF OpenVerification
  <2>3. account.exists
    BY <1>0, <2>1 DEF NobodyYet, Links
  <2>. HIDE DEF w
  <2>. QED
    BY <1>0, <1>k, <2>1, <2>2, <2>3, SoundMove DEF OpenVerification
<1>8. CASE LoadForVerification(h)
  <2>1. PICK pc \in {"markUsed", "verify"} : WorkGoto(h, pc)
    BY <1>8 DEF LoadForVerification
  <2>2. PICK w : SoundWork(w) /\ w.pc = pc /\ work' = [work EXCEPT ![h] = w]
    BY <1>g, <2>1 DEF WorkPc
  <2>. QED
    BY <1>0, <1>8, <1>k, <1>x, <2>1, <2>2, SoundMove DEF LoadForVerification, WorkAt
<1>9. CASE VerifyEmail(h)
  <2>1. link' \in [Links -> OneTimeToken]
    <3>1. link' = [link EXCEPT ![work[h].t] = Served(work[h].t)]
      BY <1>9 DEF VerifyEmail
    <3>2. work[h].t \in Links => Served(work[h].t) \in OneTimeToken
      BY <1>0, SpentLink
    <3>. QED
      BY <1>0, <3>1, <3>2, LinkTyped
  <2>2. LinksKept
    BY <1>0, <2>1, MarkedKept
  <2>3. /\ account' \in User /\ account'.passwordHash = account.passwordHash
        /\ account'.exists = account.exists
    BY <1>0, <1>9 DEF VerifyEmail, User
  <2>. QED
    BY <1>0, <1>9, <1>e, <1>i, <1>x, <2>2, <2>3, SoundMove DEF VerifyEmail, WorkAt
<1>10. CASE Dies(h)
  BY <1>0, <1>10, <1>e, <1>i, <1>k, <1>x, SoundMove DEF Dies, WorkAt
<1>. QED
  BY <1>1, <1>2, <1>3, <1>4, <1>5, <1>6, <1>7, <1>8, <1>9, <1>10 DEF QuietStep

----
(* Credentials: password updates.                                          *)

(* What a handler that updates may rely on.                                *)
Prepared(w) ==
  /\ w.pc \in {"check", "update"} => w.old = account.passwordHash
  /\ w.pc = "update" => /\ w.new # account.passwordHash
                        /\ \A i \in 1 .. Len(past) : i <= HistoryCount => w.new # past[i]

(* A step that prepares an update, and touches nothing but its handler.    *)
LEMMA PreparingMove ==
  ASSUME CredentialsInv, NEW h \in Handlers, NEW w, SoundWork(w),
         w.pc \in {"loadReset", "check", "update"}, account.exists,
         work' = [work EXCEPT ![h] = w], UNCHANGED <<account, history, link, past>>,
         raced' \in BOOLEAN, raced => raced',
         ~raced' => Prepared(w) /\ \A g \in Handlers : Updating(g) => g = h
  PROVE  CredentialsInv'
<1>1. CredentialsTypeOK /\ Len(link) \in Nat /\ Links' = Links /\ link' = link
  BY DEF CredentialsInv, CredentialsTypeOK, Links
<1>2. /\ work' \in [Handlers -> Work] /\ \A g \in Handlers : work'[g].t \in {0} \cup Links'
      /\ work'[h] = w /\ \A g \in Handlers : g # h => work'[g] = work[g]
  <2>1. Len(link') \in Nat /\ Len(link') >= Len(link) /\ w \in Work /\ w.t \in {0} \cup Links'
    BY <1>1 DEF SoundWork
  <2>. QED
    BY <1>1, <2>1, WorkMoves
<1>3. CredentialsTypeOK' /\ NobodyYet'
  BY <1>1, <1>2 DEF CredentialsInv, CredentialsTypeOK, NobodyYet
<1>4. LinksOfAKind'
  BY <1>2 DEF CredentialsInv, LinksOfAKind, SoundWork
<1>5. ASSUME ~raced'
      PROVE  Alone'
  <2>1. Alone /\ Prepared(w) /\ \A g \in Handlers : Updating(g) => g = h
    BY <1>5 DEF CredentialsInv
  <2>2. \A g \in Handlers : Updating(g)' => g = h
    BY <1>2, <2>1 DEF Updating
  <2>3. \A g \in Handlers : Updating(g)' => work'[g] = w
    BY <1>2, <2>2
  <2>. QED
    BY <2>1, <2>2, <2>3 DEF Alone, Prepared, Updating
<1>6. ~raced' => HistoryIsPast' /\ PasswordIsNew'
  BY <1>1 DEF CredentialsInv, HistoryIsPast, PasswordIsNew
<1>. QED
  BY <1>3, <1>4, <1>5, <1>6 DEF CredentialsInv

PrepareStep(h) ==
  \/ \E t \in Links, p \in Passwords : OpenReset(h, t, p)
  \/ \E p \in Passwords : ChangePassword(h, p)
  \/ LoadForReset(h) \/ AssertPasswordNotReused(h)

LEMMA PrepareSteps ==
  ASSUME CredentialsInv, NEW h \in Handlers, PrepareStep(h)
  PROVE  CredentialsInv'
<1>0. /\ CredentialsTypeOK /\ NobodyYet /\ work \in [Handlers -> Work] /\ account \in User
      /\ SoundWork(work[h]) /\ work[h] \in Work /\ raced \in BOOLEAN
      /\ history \in Seq(Passwords) /\ past \in Seq(Passwords)
      /\ account.passwordHash \in Passwords /\ link \in Seq(OneTimeToken)
  BY DEF CredentialsInv, CredentialsTypeOK, SoundWork, User, LinksOfAKind
<1>i. IdleWork \in Work
  BY SomePasswordIsOne DEF IdleWork, Work, WorkPc
<1>s. ASSUME StartsUpdate(h)
      PROVE  /\ raced' \in BOOLEAN /\ (raced => raced')
             /\ ~raced' => \A g \in Handlers : Updating(g) => g = h
  BY <1>0, <1>s DEF StartsUpdate
<1>u. ASSUME Updating(h), ~raced
      PROVE  Prepared(work[h]) /\ \A g \in Handlers : Updating(g) => g = h
  BY <1>u DEF CredentialsInv, Alone, Prepared
<1>1. ASSUME NEW t \in Links, NEW p \in Passwords, OpenReset(h, t, p)
      PROVE  CredentialsInv'
  <2> DEFINE w == [IdleWork EXCEPT !.pc = "loadReset", !.t = t, !.new = p]
  <2>1. t \in Nat /\ "loadReset" \in WorkPc
    BY <1>0 DEF Links, WorkPc
  <2>2. w \in Work /\ w.pc = "loadReset" /\ w.t = t
    BY <1>i, <2>1 DEF Work
  <2>3. work' = [work EXCEPT ![h] = w] /\ UNCHANGED <<account, history, link, past>>
    BY <1>1 DEF OpenReset
  <2>. HIDE DEF w
  <2>4. SoundWork(w)
    BY <2>2 DEF SoundWork, KindOf
  <2>5. account.exists
    BY <1>0 DEF NobodyYet, Links
  <2>7. Prepared(w)
    BY <2>2 DEF Prepared
  <2>8. StartsUpdate(h)
    BY <1>1 DEF OpenReset
  <2>9. /\ raced' \in BOOLEAN /\ (raced => raced')
        /\ ~raced' => Prepared(w) /\ \A g \in Handlers : Updating(g) => g = h
    BY <1>s, <2>7, <2>8
  <2>. QED
    BY <2>2, <2>3, <2>4, <2>5, <2>9, PreparingMove
<1>2. ASSUME NEW p \in Passwords, ChangePassword(h, p)
      PROVE  CredentialsInv'
  <2> DEFINE w == [IdleWork EXCEPT !.pc = "check", !.new = p, !.old = account.passwordHash]
  <2>1. w \in Work /\ w.pc = "check" /\ w.t = 0 /\ w.old = account.passwordHash
    BY <1>0, <1>i DEF Work, WorkPc, IdleWork
  <2>2. work' = [work EXCEPT ![h] = w] /\ UNCHANGED <<account, history, link, past>>
    BY <1>2 DEF ChangePassword
  <2>. HIDE DEF w
  <2>3. SoundWork(w) /\ Prepared(w)
    BY <2>1 DEF SoundWork, KindOf, Prepared
  <2>4. account.exists /\ StartsUpdate(h)
    BY <1>2 DEF ChangePassword
  <2>5. /\ raced' \in BOOLEAN /\ (raced => raced')
        /\ ~raced' => Prepared(w) /\ \A g \in Handlers : Updating(g) => g = h
    BY <1>s, <2>3, <2>4
  <2>. QED
    BY <2>1, <2>2, <2>3, <2>4, <2>5, PreparingMove
<1>3. CASE LoadForReset(h)
  <2> DEFINE w == [work[h] EXCEPT !.pc = "check", !.old = account.passwordHash]
  <2>1. w \in Work /\ w.pc = "check" /\ w.t = work[h].t /\ w.old = account.passwordHash
    BY <1>0 DEF Work, WorkPc
  <2>2. /\ work' = [work EXCEPT ![h] = w] /\ UNCHANGED <<account, history, link, past, raced>>
        /\ work[h].pc = "loadReset" /\ Updating(h)
    BY <1>0, <1>3 DEF LoadForReset, WorkAt, Updating
  <2>. HIDE DEF w
  <2>3. SoundWork(w) /\ account.exists
    BY <1>0, <2>1, <2>2 DEF SoundWork, KindOf, NobodyYet
  <2>4. ~raced => Prepared(w)
    BY <1>u, <2>1, <2>2 DEF Prepared
  <2>. QED
    BY <1>0, <1>u, <2>1, <2>2, <2>3, <2>4, PreparingMove
<1>4. CASE AssertPasswordNotReused(h)
  <2>1. CASE Reused(h)
    <3>1. /\ work' = [work EXCEPT ![h] = IdleWork] /\ UNCHANGED <<account, history, link, past, raced>>
          /\ work[h].pc = "check"
      BY <1>4, <2>1 DEF AssertPasswordNotReused, WorkEnds, WorkAt
    <3>2. SoundWork(IdleWork) /\ IdleWork.pc = "idle" /\ account.exists
      BY <1>0, <1>i, <3>1 DEF SoundWork, KindOf, NobodyYet, IdleWork
    <3>3. LinksKept
      BY <1>0, <3>1, SameLinksKept
    <3>. QED
      BY <1>0, <3>1, <3>2, <3>3, SoundMove
  <2>2. CASE ~Reused(h)
    <3> DEFINE w == [work[h] EXCEPT !.pc = "update"]
               m == IF Len(history) < HistoryCount THEN Len(history) ELSE HistoryCount
    <3>1. w \in Work /\ w.pc = "update" /\ w.t = work[h].t /\ w.old = work[h].old /\ w.new = work[h].new
      BY <1>0 DEF Work, WorkPc
    <3>2. /\ work' = [work EXCEPT ![h] = w] /\ UNCHANGED <<account, history, link, past, raced>>
          /\ work[h].pc = "check" /\ Updating(h)
      BY <1>0, <1>4, <2>2 DEF AssertPasswordNotReused, WorkAt, WorkGoto, Updating
    <3>. HIDE DEF w
    <3>3. SoundWork(w) /\ account.exists
      BY <1>0, <3>1, <3>2 DEF SoundWork, KindOf, NobodyYet
    <3>4. work[h].new # work[h].old /\ \A i \in 1 .. m : work[h].new # history[i]
      <4>1. ToSet(RecentHistory(HistoryCount)) = {history[i] : i \in 1 .. m}
        BY <1>0, NewestOf, CredentialsAssumption DEF RecentHistory, CredentialsAssumption
      <4>. HIDE DEF m
      <4>. QED
        BY <2>2, <4>1 DEF Reused
    <3>5. ASSUME ~raced
          PROVE  Prepared(w)
      <4>1. HistoryIsPast /\ Prepared(work[h])
        BY <1>u, <3>2, <3>5 DEF CredentialsInv
      <4>2. ASSUME NEW i \in 1 .. Len(past), i <= HistoryCount
            PROVE  w.new # past[i]
        <5>1. i \in 1 .. Len(history)
          BY <1>0, <4>1, <4>2, CredentialsAssumption DEF HistoryIsPast, CredentialsAssumption
        <5>2. i \in 1 .. m
          BY <4>2, <5>1
        <5>. QED
          BY <3>1, <3>4, <4>1, <5>1, <5>2 DEF HistoryIsPast
      <4>. QED
        BY <3>1, <3>2, <3>4, <4>1, <4>2 DEF Prepared
    <3>. QED
      BY <1>0, <1>u, <3>1, <3>2, <3>3, <3>5, PreparingMove
  <2>. QED
    BY <2>1, <2>2
<1>. QED
  BY <1>1, <1>2, <1>3, <1>4 DEF PrepareStep

(* The update itself: both lists begin with the password that goes.        *)
LEMMA UpdateStep ==
  ASSUME CredentialsInv, NEW h \in Handlers, UpdatePassword(h)
  PROVE  CredentialsInv'
<1>0. /\ CredentialsTypeOK /\ NobodyYet /\ LinksOfAKind
      /\ work \in [Handlers -> Work] /\ account \in User /\ account.passwordHash \in Passwords
      /\ SoundWork(work[h]) /\ work[h] \in Work /\ work[h].new \in Passwords
      /\ work[h].old \in Passwords /\ raced \in BOOLEAN
      /\ history \in Seq(Passwords) /\ past \in Seq(Passwords)
      /\ link \in Seq(OneTimeToken) /\ work[h].pc = "update" /\ raced' = raced
  BY DEF CredentialsInv, CredentialsTypeOK, SoundWork, User, LinksOfAKind, Work, UpdatePassword, WorkAt
<1>1. /\ history' \in Seq(Passwords) /\ Len(history') = Len(history) + 1
      /\ history'[1] = work[h].old /\ \A i \in 1 .. Len(history) : history'[i + 1] = history[i]
      /\ past' \in Seq(Passwords) /\ Len(past') = Len(past) + 1
      /\ past'[1] = account.passwordHash /\ \A i \in 1 .. Len(past) : past'[i + 1] = past[i]
  <2>1. history' = <<work[h].old>> \o history /\ past' = <<account.passwordHash>> \o past
    BY DEF UpdatePassword
  <2>2. /\ <<work[h].old>> \o history \in Seq(Passwords)
        /\ Len(<<work[h].old>> \o history) = Len(history) + 1
        /\ (<<work[h].old>> \o history)[1] = work[h].old
        /\ \A i \in 1 .. Len(history) : (<<work[h].old>> \o history)[i + 1] = history[i]
    BY <1>0, PutBefore
  <2>3. /\ <<account.passwordHash>> \o past \in Seq(Passwords)
        /\ Len(<<account.passwordHash>> \o past) = Len(past) + 1
        /\ (<<account.passwordHash>> \o past)[1] = account.passwordHash
        /\ \A i \in 1 .. Len(past) : (<<account.passwordHash>> \o past)[i + 1] = past[i]
    BY <1>0, PutBefore
  <2>. QED
    BY <2>1, <2>2, <2>3
<1>2. /\ account' \in User /\ account'.passwordHash = work[h].new /\ account'.exists
  <2>1. account.exists
    BY <1>0 DEF NobodyYet
  <2>. QED
    BY <1>0, <2>1 DEF UpdatePassword, User
<1>3. link' \in Seq(OneTimeToken) /\ Len(link') = Len(link)
  <2>1. \A t \in Links : link[t] \in OneTimeToken /\ Served(t) \in OneTimeToken
    BY <1>0, LinkTyped, SpentLink
  <2>2. link' \in [Links -> OneTimeToken]
    BY <2>1 DEF UpdatePassword
  <2>. QED
    BY <1>0, <2>2, MarkedKept DEF LinksKept
<1>4. Links' = Links
  BY <1>3 DEF Links
<1>5. /\ work' \in [Handlers -> Work] /\ \A g \in Handlers : work'[g].t \in {0} \cup Links'
      /\ \A g \in Handlers : g # h => work'[g] = work[g]
      /\ work'[h].pc = "trim" /\ work'[h].t = work[h].t
  <2> DEFINE w == [work[h] EXCEPT !.pc = "trim"]
  <2>1. w \in Work /\ w.t \in {0} \cup Links' /\ w.pc = "trim" /\ w.t = work[h].t
    BY <1>0, <1>4 DEF Work, WorkPc, SoundWork
  <2>2. work' = [work EXCEPT ![h] = w]
    BY <1>0 DEF UpdatePassword, WorkGoto
  <2>3. Len(link') \in Nat /\ Len(link') >= Len(link)
    BY <1>0, <1>3
  <2>. HIDE DEF w
  <2>. QED
    BY <1>0, <2>1, <2>2, <2>3, WorkMoves
<1>6. CredentialsTypeOK' /\ NobodyYet' /\ LinksOfAKind'
  BY <1>0, <1>1, <1>2, <1>3, <1>5 DEF CredentialsTypeOK, NobodyYet, LinksOfAKind, KindOf
<1>8. ASSUME ~raced
      PROVE  Alone' /\ HistoryIsPast' /\ PasswordIsNew'
  <2>1. /\ Alone /\ HistoryIsPast /\ PasswordIsNew
        /\ work[h].old = account.passwordHash /\ work[h].new # account.passwordHash
        /\ \A i \in 1 .. Len(past) : i <= HistoryCount => work[h].new # past[i]
        /\ \A g \in Handlers : Updating(g) => g = h
    BY <1>0, <1>8 DEF CredentialsInv, Alone, Updating
  <2>2. Alone'
    BY <1>5, <2>1 DEF Alone, Updating
  <2>3. HistoryIsPast'
    <3>1. \A i \in 1 .. Len(history') : i = 1 \/ (i - 1 \in 1 .. Len(history) /\ i = (i - 1) + 1)
      BY <1>0, <1>1
    <3>2. \A i \in 1 .. Len(history) : i \in 1 .. Len(past) /\ history'[i + 1] = past'[i + 1]
      BY <1>0, <1>1, <2>1, CredentialsAssumption DEF HistoryIsPast, CredentialsAssumption
    <3>3. \A i \in 1 .. Len(history') : history'[i] = past'[i]
      BY <1>1, <2>1, <3>1, <3>2
    <3>4. Len(history') = Len(past') \/ (Len(history') <= Len(past') /\ HistoryCount <= Len(history'))
      BY <1>0, <1>1, <2>1, CredentialsAssumption DEF HistoryIsPast, CredentialsAssumption
    <3>. QED
      BY <3>3, <3>4 DEF HistoryIsPast
  <2>4. PasswordIsNew'
    <3>1. \A i \in 1 .. Len(past') : i = 1 \/ (i - 1 \in 1 .. Len(past) /\ i = (i - 1) + 1)
      BY <1>0, <1>1
    <3>2. ASSUME NEW i \in 1 .. Len(past'), i <= HistoryCount + 1
          PROVE  account'.passwordHash # past'[i]
      <4>1. CASE i = 1
        BY <1>1, <1>2, <2>1, <4>1
      <4>2. CASE i # 1
        <5>1. i - 1 \in 1 .. Len(past) /\ i - 1 <= HistoryCount /\ past'[i] = past[i - 1]
          BY <1>1, <3>1, <3>2, <4>2, CredentialsAssumption DEF CredentialsAssumption
        <5>. QED
          BY <1>2, <2>1, <5>1
      <4>. QED
        BY <4>1, <4>2
    <3>. QED
      BY <3>2 DEF PasswordIsNew
  <2>. QED
    BY <2>2, <2>3, <2>4
<1>. QED
  BY <1>0, <1>6, <1>8 DEF CredentialsInv

(* Trimming the history keeps enough of it.                                *)
LEMMA TrimStep ==
  ASSUME CredentialsInv, NEW h \in Handlers, TrimToLimit(h)
  PROVE  CredentialsInv'
<1> DEFINE m == IF Len(history) < HistoryCount THEN Len(history) ELSE HistoryCount
<1>0. /\ CredentialsTypeOK /\ NobodyYet /\ work[h].pc = "trim" /\ account \in User
      /\ history \in Seq(Passwords) /\ past \in Seq(Passwords)
      /\ UNCHANGED <<account, link, past, raced>> /\ work' = [work EXCEPT ![h] = IdleWork]
  BY DEF CredentialsInv, CredentialsTypeOK, TrimToLimit, WorkAt, WorkEnds
<1>1. /\ history' \in Seq(Passwords) /\ Len(history') = m
      /\ \A i \in 1 .. m : history'[i] = history[i]
  BY <1>0, NewestOf, CredentialsAssumption DEF TrimToLimit, RecentHistory, CredentialsAssumption
<1>2. SoundWork(IdleWork) /\ IdleWork.pc = "idle"
  BY SomePasswordIsOne, IdleWorkSound DEF IdleWork, WorkPc
<1>3. /\ work' \in [Handlers -> Work] /\ \A g \in Handlers : work'[g].t \in {0} \cup Links'
      /\ work'[h] = IdleWork /\ \A g \in Handlers : g # h => work'[g] = work[g]
  <2>1. /\ Len(link') \in Nat /\ Len(link') >= Len(link)
        /\ IdleWork \in Work /\ IdleWork.t \in {0} \cup Links'
    BY <1>0, <1>2 DEF CredentialsTypeOK, SoundWork, Links
  <2>. QED
    BY <1>0, <2>1, WorkMoves
<1>4. CredentialsTypeOK' /\ NobodyYet' /\ LinksOfAKind'
  BY <1>0, <1>1, <1>2, <1>3 DEF CredentialsInv, CredentialsTypeOK, NobodyYet,
     LinksOfAKind, KindOf, Links
<1>5. ASSUME ~raced
      PROVE  Alone' /\ HistoryIsPast' /\ PasswordIsNew'
  <2>1. Alone /\ HistoryIsPast /\ PasswordIsNew
    BY <1>5 DEF CredentialsInv
  <2>2. Alone'
    BY <1>0, <1>2, <1>3, <2>1 DEF Alone, Updating
  <2>3. HistoryIsPast'
    BY <1>0, <1>1, <2>1, CredentialsAssumption DEF HistoryIsPast, CredentialsAssumption
  <2>. QED
    BY <1>0, <2>1, <2>2, <2>3 DEF PasswordIsNew, Links
<1>. QED
  BY <1>0, <1>4, <1>5 DEF CredentialsInv

(* The administrator and the clock.                                        *)
LEMMA OutsideStep ==
  ASSUME CredentialsInv, SetActive \/ \E t \in Links : LinkExpires(t)
  PROVE  CredentialsInv'
<1>0. CredentialsTypeOK /\ Len(link) \in Nat
  BY DEF CredentialsInv, CredentialsTypeOK
<1>1. CASE SetActive
  <2>1. /\ account' \in User /\ account'.exists /\ account'.passwordHash = account.passwordHash
        /\ UNCHANGED <<history, link, work, past, raced>>
    BY <1>0, <1>1 DEF SetActive, CredentialsTypeOK, User
  <2>. QED
    BY <2>1 DEF CredentialsInv, CredentialsTypeOK, NobodyYet, LinksOfAKind, KindOf,
       Links, Alone, Updating, HistoryIsPast, PasswordIsNew
<1>2. CASE \E t \in Links : LinkExpires(t)
  <2>1. UNCHANGED <<account, history, work, past, raced>> /\ Links # {}
    BY <1>2 DEF LinkExpires
  <2>2. link' \in [Links -> OneTimeToken]
    <3>1. PICK t \in Links : LinkExpires(t)
      BY <1>2
    <3> DEFINE new == [link[t] EXCEPT !.expired = TRUE]
    <3>2. new \in OneTimeToken /\ link \in [Links -> OneTimeToken]
      BY <1>0, LinkTyped, MarkedLink
    <3>3. link' = [link EXCEPT ![t] = new]
      BY <3>1, <3>2 DEF LinkExpires
    <3>. HIDE DEF new, Links
    <3>. QED
      BY <3>2, <3>3
  <2>3. link' \in Seq(OneTimeToken) /\ Links' = Links
    BY <1>0, <2>2 DEF Links
  <2>4. CredentialsTypeOK' /\ NobodyYet' /\ LinksOfAKind'
    <3>1. account.exists
      BY <2>1 DEF CredentialsInv, NobodyYet, Links
    <3>. QED
      BY <2>1, <2>2, <2>3, <3>1 DEF CredentialsInv, CredentialsTypeOK, NobodyYet, LinksOfAKind
  <2>5. ASSUME ~raced
        PROVE  Alone' /\ HistoryIsPast' /\ PasswordIsNew'
    <3>1. Alone /\ HistoryIsPast /\ PasswordIsNew
      BY <2>5 DEF CredentialsInv
    <3>2. \A g \in Handlers : work[g].t \in {0} \cup Links
      BY <1>0 DEF CredentialsTypeOK
    <3>3. Alone'
      BY <2>1, <2>2, <3>1, <3>2 DEF Alone, Updating
    <3>. QED
      BY <2>1, <2>2, <2>3, <3>1, <3>3 DEF HistoryIsPast, PasswordIsNew
  <2>. QED
    BY <2>1, <2>4, <2>5 DEF CredentialsInv
<1>. QED
  BY <1>1, <1>2

LEMMA CredentialsStep == CredentialsInv /\ [CredentialsNext]_credentialVars => CredentialsInv'
<1> SUFFICES ASSUME CredentialsInv, [CredentialsNext]_credentialVars PROVE CredentialsInv'
  OBVIOUS
<1>1. CASE UNCHANGED credentialVars
  BY <1>1 DEF credentialVars, CredentialsInv, CredentialsTypeOK, NobodyYet,
     LinksOfAKind, KindOf, Links, Alone, Updating, HistoryIsPast, PasswordIsNew
<1>. QED
  BY <1>1, QuietSteps, PrepareSteps, UpdateStep, TrimStep, OutsideStep
  DEF CredentialsNext, QuietStep, PrepareStep

LEMMA CredentialsInitially == CredentialsInit => CredentialsInv
<1> SUFFICES ASSUME CredentialsInit PROVE CredentialsInv
  OBVIOUS
<1>1. SoundWork(IdleWork) /\ IdleWork.pc = "idle" /\ SomePassword \in Passwords
  BY SomePasswordIsOne, IdleWorkSound DEF IdleWork, WorkPc
<1>2. \A h \in Handlers : work[h] = IdleWork
  BY DEF CredentialsInit
<1>3. CredentialsTypeOK
  <2>1. work \in [Handlers -> Work] /\ \A h \in Handlers : work[h].t \in {0} \cup Links
    <3>1. IdleWork \in Work /\ IdleWork.t = 0
      BY <1>1 DEF SoundWork, IdleWork
    <3>2. work = [h \in Handlers |-> IdleWork]
      BY DEF CredentialsInit
    <3>. QED
      BY <1>2, <3>1, <3>2
  <2>2. account \in User
    BY <1>1 DEF CredentialsInit, NoUser, User
  <2>3. <<>> \in Seq(Passwords) /\ <<>> \in Seq(OneTimeToken)
    OBVIOUS
  <2>. QED
    BY <2>1, <2>2, <2>3 DEF CredentialsInit, CredentialsTypeOK
<1>. QED
  BY <1>1, <1>2, <1>3 DEF CredentialsInit, CredentialsInv, NobodyYet,
     LinksOfAKind, SoundWork, Links, Alone, Updating, HistoryIsPast, PasswordIsNew

----
(* Credentials: what becomes of the links.                                 *)

(* Whoever is about to insert a link has revoked those of its kind that it *)
(* found; a link's issuer had.                                             *)
IssuersRevoked ==
  /\ \A h \in Handlers : work[h].pc = "createLink" =>
       \A s \in Links : link[s].kind = work[h].kind /\ ~link[s].used => s > work[h].t
  /\ LinksSupersede

LinksInv == IssuersRevoked /\ LinksServeHolders

(* No link of those there were is made unused, or changes its issuer.      *)
OnlySpent ==
  \A t \in Links : SameIssue(link'[t], link[t]) /\ (link[t].used => link'[t].used)

(* The links that served or were spent by now, and those who hold them.    *)
SameUse(t) ==
  link'[t].used = link[t].used /\ link'[t].uses = link[t].uses /\ link'[t].held = link[t].held

(* A step that neither revokes nor inserts keeps the first of the two.     *)
LEMMA RevokedStays ==
  ASSUME IssuersRevoked, Links' = Links, OnlySpent,
         \A g \in Handlers : work'[g].pc = "createLink" => work'[g] = work[g]
  PROVE  IssuersRevoked'
<1>. HIDE DEF Links
<1>. QED
  BY DEF IssuersRevoked, LinksSupersede, OnlySpent, SameIssue

(* Fewer hold it, and it served no more.                                   *)
LEMMA FewerHold ==
  ASSUME LinksServeHolders, NEW t \in Links, SameUse(t),
         link[t] \in OneTimeToken, link[t].used => Confirming(t)' \subseteq Confirming(t)
  PROVE  IF link'[t].used THEN link'[t].uses + Cardinality(Confirming(t)') <= link'[t].held
                          ELSE link'[t].uses = 0
<1>1. CASE ~link[t].used
  BY <1>1 DEF LinksServeHolders, SameUse
<1>2. CASE link[t].used
  <2>1. Cardinality(Confirming(t)') <= Cardinality(Confirming(t)) /\ Cardinality(Confirming(t)') \in Nat
    BY <1>2, ConfirmingFinite, FS_Subset, FS_CardinalityType
  <2>2. link[t].uses + Cardinality(Confirming(t)) <= link[t].held /\ link[t].uses \in Nat /\ link[t].held \in Nat
    BY <1>2 DEF LinksServeHolders, OneTimeToken
  <2>3. link'[t].used /\ link'[t].uses = link[t].uses /\ link'[t].held = link[t].held
    BY <1>2 DEF SameUse
  <2>. QED
    BY <2>1, <2>2, <2>3, ConfirmingFinite
<1>. QED
  BY <1>1, <1>2

(* It is spent while the same hold it.                                     *)
LEMMA SpendingIt ==
  ASSUME CredentialsTypeOK, LinksServeHolders, NEW t \in Links, link'[t] = Spent(t),
         Confirming(t)' = Confirming(t)
  PROVE  IF link'[t].used THEN link'[t].uses + Cardinality(Confirming(t)') <= link'[t].held
                          ELSE link'[t].uses = 0
<1>1. /\ link'[t].used /\ link'[t].uses = link[t].uses
      /\ link'[t].held = IF link[t].used THEN link[t].held ELSE Cardinality(Confirming(t))
  BY SpentLink
<1>2. Cardinality(Confirming(t)) \in Nat
  BY ConfirmingFinite
<1>. QED
  BY <1>1, <1>2 DEF LinksServeHolders

(* It serves one of those who hold it.                                     *)
LEMMA ServingOne ==
  ASSUME CredentialsTypeOK, LinksServeHolders, NEW t \in Links, link'[t] = Served(t),
         NEW h \in Confirming(t), Confirming(t)' \subseteq Confirming(t) \ {h}
  PROVE  IF link'[t].used THEN link'[t].uses + Cardinality(Confirming(t)') <= link'[t].held
                          ELSE link'[t].uses = 0
<1> DEFINE c == Cardinality(Confirming(t))
           d == Cardinality(Confirming(t)')
<1>1. /\ link'[t].used /\ link'[t].uses = link[t].uses + 1
      /\ link'[t].held = IF link[t].used THEN link[t].held ELSE c
  BY SpentLink
<1>2. c \in Nat /\ d \in Nat /\ d <= c - 1
  <2>1. /\ IsFiniteSet(Confirming(t)) /\ IsFiniteSet(Confirming(t) \ {h}) /\ c \in Nat
        /\ Cardinality(Confirming(t) \ {h}) = c - 1
    BY ConfirmingFinite, FS_RemoveElement
  <2>2. d <= Cardinality(Confirming(t) \ {h}) /\ IsFiniteSet(Confirming(t)')
    BY <2>1, FS_Subset
  <2>. QED
    BY <2>1, <2>2, FS_CardinalityType
<1>3. link[t].uses \in Nat /\ link[t].held \in Nat
  BY LinkTyped DEF OneTimeToken
<1>4. IF link[t].used THEN link[t].uses + c <= link[t].held ELSE link[t].uses = 0
  BY DEF LinksServeHolders
<1>. HIDE DEF c, d
<1>5. link'[t].uses + d <= link'[t].held
  BY <1>1, <1>2, <1>3, <1>4
<1>. QED
  BY <1>1, <1>5 DEF d

(* Where a handler goes, while the others stay.                            *)
GoneTo(h, pc) == work'[h].pc = pc /\ \A g \in Handlers : g # h => work'[g] = work[g]

(* Those that confirm a link or are about to insert one.                   *)
Holding == {"loadVerify", "verify", "markUsed", "loadReset", "check", "update"}

LEMMA HandlersGo ==
  ASSUME work \in [Handlers -> Work], NEW h \in Handlers
  PROVE  /\ \A pc, kind : WorkStarts(h, pc, kind) => GoneTo(h, pc)
         /\ \A pc : WorkGoto(h, pc) => GoneTo(h, pc) /\ work'[h].t = work[h].t
         /\ WorkEnds(h) => GoneTo(h, "idle")
<1>1. IdleWork.pc = "idle"
  BY DEF IdleWork
<1>2. ASSUME NEW pc, NEW kind, WorkStarts(h, pc, kind) PROVE GoneTo(h, pc)
  BY <1>2 DEF WorkStarts, IdleWork, GoneTo
<1>3. ASSUME NEW pc, WorkGoto(h, pc) PROVE GoneTo(h, pc) /\ work'[h].t = work[h].t
  BY <1>3 DEF WorkGoto, GoneTo, Work
<1>. QED
  BY <1>1, <1>2, <1>3 DEF WorkEnds, GoneTo

(* A handler that goes on with its link, or lets go of it, adds nobody to  *)
(* those who hold one.                                                     *)
LEMMA NobodyJoins ==
  ASSUME NEW h \in Handlers, \A g \in Handlers : g # h => work'[g] = work[g],
         \/ work'[h].pc \notin Holding
         \/ work[h].pc \in Holding /\ work'[h].t = work[h].t
  PROVE  \A t : Confirming(t)' \subseteq Confirming(t)
BY DEF Confirming, Holding

(* A step that writes no link, or only what a mail or the clock does to it.*)
LEMMA IdleLinks ==
  ASSUME CredentialsInv, LinksInv, Links' = Links, OnlySpent, \A t \in Links : SameUse(t),
         \A g \in Handlers : work'[g].pc = "createLink" => work'[g] = work[g],
         \A t \in Links : link[t].used => Confirming(t)' \subseteq Confirming(t)
  PROVE  LinksInv'
<1>2. IssuersRevoked'
  BY RevokedStays DEF LinksInv
<1>3. \A t \in Links : link[t] \in OneTimeToken
  BY LinkTyped DEF CredentialsInv
<1>4. LinksServeHolders'
  BY <1>3, FewerHold DEF LinksServeHolders, LinksInv
<1>. QED
  BY <1>2, <1>4 DEF LinksInv

LEMMA SameLinks == UNCHANGED link => Links' = Links /\ OnlySpent /\ \A t \in Links : SameUse(t)
BY DEF Links, OnlySpent, SameIssue, SameUse

(* The steps that write no link.                                           *)
LinklessStep(h) ==
  \/ Register(h) \/ CreateUser(h) \/ RequestPasswordReset(h) \/ ResendVerification(h)
  \/ LoadForVerification(h) \/ LoadForReset(h) \/ AssertPasswordNotReused(h)
  \/ TrimToLimit(h) \/ Dies(h)
  \/ \E p \in Passwords : ChangePassword(h, p)
  \/ \E t \in Links : OpenVerification(h, t) \/ \E p \in Passwords : OpenReset(h, t, p)

LEMMA LinklessKeeps ==
  ASSUME CredentialsInv, LinksInv, NEW h \in Handlers, LinklessStep(h)
  PROVE  LinksInv'
<1>0. /\ CredentialsTypeOK /\ work \in [Handlers -> Work] /\ Len(link) \in Nat
      /\ work[h].t \in {0} \cup Links
  BY DEF CredentialsInv, CredentialsTypeOK
<1>1. link' = link
  BY DEF LinklessStep, Register, CreateUser, RequestPasswordReset, ResendVerification,
     LoadForVerification, LoadForReset, AssertPasswordNotReused, TrimToLimit, Dies,
     ChangePassword, OpenVerification, OpenReset
<1>2. Links' = Links /\ OnlySpent /\ \A t \in Links : SameUse(t)
  BY <1>1, SameLinks
<1>g. ASSUME NEW pc, pc # "createLink", GoneTo(h, pc),
             \A t \in Links : link[t].used => Confirming(t)' \subseteq Confirming(t)
      PROVE  LinksInv'
  BY <1>2, <1>g, IdleLinks DEF GoneTo
<1>3. CASE \/ Register(h) \/ CreateUser(h) \/ RequestPasswordReset(h) \/ ResendVerification(h)
           \/ TrimToLimit(h) \/ Dies(h) \/ (AssertPasswordNotReused(h) /\ WorkEnds(h))
  <2>1. \/ \E kind : \E pc \in {"create", "revokeLinks"} : WorkStarts(h, pc, kind)
        \/ WorkGoto(h, "revokeLinks")
        \/ WorkEnds(h)
    BY <1>3 DEF Register, CreateUser, RequestPasswordReset, ResendVerification,
       AssertPasswordNotReused, TrimToLimit, Dies
  <2>2. PICK pc \in {"create", "revokeLinks", "idle"} : GoneTo(h, pc)
    BY <1>0, <2>1, HandlersGo
  <2>3. \A t : Confirming(t)' \subseteq Confirming(t)
    BY <2>2, NobodyJoins DEF GoneTo, Holding
  <2>. QED
    BY <1>g, <2>2, <2>3
<1>4. CASE LoadForVerification(h) \/ LoadForReset(h) \/ (AssertPasswordNotReused(h) /\ ~WorkEnds(h))
  <2>1. \E pc \in {"markUsed", "verify", "check", "update"} : GoneTo(h, pc) /\ work'[h].t = work[h].t
    <3>1. CASE LoadForReset(h)
      BY <1>0, <3>1 DEF LoadForReset, GoneTo, Work
    <3>2. CASE ~LoadForReset(h)
      <4>1. \E pc \in {"markUsed", "verify", "update"} : WorkGoto(h, pc)
        BY <1>4, <3>2 DEF LoadForVerification, AssertPasswordNotReused
      <4>. QED
        BY <1>0, <4>1, HandlersGo
    <3>. QED
      BY <3>1, <3>2
  <2>2. PICK pc \in {"markUsed", "verify", "check", "update"} : GoneTo(h, pc) /\ work'[h].t = work[h].t
    BY <2>1
  <2>3. work[h].pc \in Holding
    BY <1>4 DEF LoadForVerification, LoadForReset, AssertPasswordNotReused, WorkAt, Holding
  <2>4. \A t : Confirming(t)' \subseteq Confirming(t)
    BY <2>2, <2>3, NobodyJoins DEF GoneTo
  <2>. QED
    BY <1>g, <2>2, <2>4
<1>5. ASSUME NEW p \in Passwords, ChangePassword(h, p)
      PROVE  LinksInv'
  <2>1. GoneTo(h, "check") /\ work'[h].t = 0
    BY <1>0, <1>5 DEF ChangePassword, GoneTo, IdleWork
  <2>2. \A t \in Links : Confirming(t)' \subseteq Confirming(t)
    BY <1>0, <2>1 DEF Confirming, GoneTo, Links
  <2>. QED
    BY <1>g, <2>1, <2>2
<1>6. ASSUME NEW s \in Links, OpenVerification(h, s) \/ \E p \in Passwords : OpenReset(h, s, p)
      PROVE  LinksInv'
  <2>1. /\ \E pc \in {"loadVerify", "loadReset"} : GoneTo(h, pc)
        /\ work'[h].t = s /\ ~link[s].used
    BY <1>0, <1>6 DEF OpenVerification, OpenReset, Usable, GoneTo, IdleWork
  <2>2. \A t \in Links : link[t].used => Confirming(t)' \subseteq Confirming(t)
    BY <2>1 DEF Confirming, GoneTo
  <2>. QED
    BY <1>g, <2>1, <2>2
<1>. QED
  BY <1>3, <1>4, <1>5, <1>6 DEF LinklessStep

(* The older links are marked used, those of others stay as they are.      *)
LEMMA RevokeKeeps ==
  ASSUME CredentialsInv, LinksInv, NEW h \in Handlers, RevokeUnusedForUser(h)
  PROVE  LinksInv'
<1>0. /\ CredentialsTypeOK /\ work \in [Handlers -> Work] /\ Len(link) \in Nat
      /\ \A t \in Links : link[t] \in OneTimeToken
  BY LinkTyped DEF CredentialsInv, CredentialsTypeOK
<1>1. /\ \A g \in Handlers : g # h => work'[g] = work[g]
      /\ work'[h].pc = "createLink" /\ work'[h].t = Len(link) /\ work'[h].kind = work[h].kind
      /\ work[h].pc = "revokeLinks"
  BY <1>0 DEF RevokeUnusedForUser, WorkAt, Work
<1>2. \A t \in Links : Spent(t) \in OneTimeToken /\ Spent(t).used /\ SameIssue(Spent(t), link[t])
  BY <1>0, SpentLink
<1>3. link' = [t \in Links |-> IF link[t].kind = work[h].kind THEN Spent(t) ELSE link[t]]
  BY DEF RevokeUnusedForUser
<1>4. Links' = Links
  <2>1. link' \in [Links -> OneTimeToken]
    BY <1>0, <1>2, <1>3
  <2>. QED
    BY <1>0, <2>1, MarkedKept
<1>5. OnlySpent
  BY <1>2, <1>3 DEF OnlySpent, SameIssue
<1>6. \A t \in Links : link'[t].kind = work[h].kind => link'[t].used
  BY <1>2, <1>3 DEF SameIssue
<1>7. LinksSupersede'
  BY <1>4, <1>5 DEF LinksInv, IssuersRevoked, LinksSupersede, OnlySpent, SameIssue
<1>8. ASSUME NEW g \in Handlers, work'[g].pc = "createLink", NEW s \in Links',
             link'[s].kind = work'[g].kind, ~link'[s].used
      PROVE  s > work'[g].t
  <2>1. g # h /\ s \in Links
    BY <1>1, <1>4, <1>6, <1>8
  <2>2. work'[g] = work[g] /\ ~link[s].used /\ link[s].kind = link'[s].kind
    BY <1>1, <1>5, <1>8, <2>1 DEF OnlySpent, SameIssue
  <2>. QED
    BY <1>8, <2>1, <2>2 DEF LinksInv, IssuersRevoked
<1>9. LinksServeHolders'
  <2>1. \A t : Confirming(t)' = Confirming(t)
    BY <1>1 DEF Confirming
  <2>2. ASSUME NEW t \in Links
        PROVE  IF link'[t].used THEN link'[t].uses + Cardinality(Confirming(t)') <= link'[t].held
                                ELSE link'[t].uses = 0
    <3>1. CASE link'[t] = Spent(t)
      BY <1>0, <2>1, <3>1, SpendingIt DEF LinksInv
    <3>2. CASE link'[t] = link[t]
      BY <2>1, <3>2 DEF LinksInv, LinksServeHolders
    <3>. QED
      BY <1>3, <3>1, <3>2
  <2>. QED
    BY <1>4, <2>2 DEF LinksServeHolders
<1>. QED
  BY <1>7, <1>8, <1>9 DEF LinksInv, IssuersRevoked

(* The new link comes after all there are; its issuer knows which it left. *)
LEMMA CreateKeeps ==
  ASSUME CredentialsInv, LinksInv, NEW h \in Handlers, CreateLink(h)
  PROVE  LinksInv'
<1> DEFINE id == Len(link) + 1
<1>0. /\ CredentialsTypeOK /\ work \in [Handlers -> Work] /\ Len(link) \in Nat
      /\ \A t \in Links : link[t] \in OneTimeToken
      /\ \A g \in Handlers : work[g].t \in {0} \cup Links
  BY LinkTyped DEF CredentialsInv, CredentialsTypeOK
<1>1. /\ \A g \in Handlers : g # h => work'[g] = work[g]
      /\ work'[h].pc = "mail" /\ work[h].pc = "createLink"
  BY <1>0 DEF CreateLink, WorkAt, Work
<1>2. /\ Len(link') = id /\ \A t \in Links : link'[t] = link[t]
      /\ link'[id].kind = work[h].kind /\ ~link'[id].used /\ link'[id].uses = 0
      /\ link'[id].since = work[h].t
  BY <1>0 DEF CreateLink, Links
<1>3. Links' = Links \cup {id} /\ id \notin Links
  BY <1>0, <1>2 DEF Links
<1>4. \A t \in Links : t \in Nat /\ t < id /\ t <= Len(link)
  BY <1>0 DEF Links
<1>. HIDE DEF Links
<1>5. ASSUME NEW g \in Handlers, work'[g].pc = "createLink", NEW s \in Links',
             link'[s].kind = work'[g].kind, ~link'[s].used
      PROVE  s > work'[g].t
  <2>1. work'[g] = work[g]
    BY <1>1, <1>5
  <2>2. CASE s = id
    BY <1>0, <1>4, <2>1, <2>2
  <2>3. CASE s \in Links
    BY <1>2, <1>5, <2>1, <2>3 DEF LinksInv, IssuersRevoked
  <2>. QED
    BY <1>3, <2>2, <2>3
<1>6. ASSUME NEW s \in Links', NEW t \in Links', link'[s].kind = link'[t].kind, s < t, ~link'[s].used
      PROVE  s > link'[t].since
  <2>1. CASE t \in Links
    <3>1. s \in Links
      BY <1>0, <1>3, <1>4, <1>6, <2>1
    <3>. QED
      BY <1>2, <1>6, <2>1, <3>1 DEF LinksInv, IssuersRevoked, LinksSupersede
  <2>2. CASE t = id
    <3>1. s \in Links
      BY <1>0, <1>3, <1>4, <1>6, <2>2
    <3>. QED
      BY <1>1, <1>2, <1>6, <2>2, <3>1 DEF LinksInv, IssuersRevoked
  <2>. QED
    BY <1>3, <2>1, <2>2
<1>7. LinksServeHolders'
  <2>1. \A t : Confirming(t)' \subseteq Confirming(t)
    BY <1>1, NobodyJoins DEF Holding
  <2>2. \A t \in Links : SameUse(t)
    BY <1>2 DEF SameUse
  <2>3. ASSUME NEW t \in Links'
        PROVE  IF link'[t].used THEN link'[t].uses + Cardinality(Confirming(t)') <= link'[t].held
                                ELSE link'[t].uses = 0
    <3>1. CASE t = id
      BY <1>2, <3>1
    <3>2. CASE t \in Links
      BY <1>0, <2>1, <2>2, <3>2, FewerHold DEF LinksInv
    <3>. QED
      BY <1>3, <3>1, <3>2
  <2>. QED
    BY <2>3 DEF LinksServeHolders
<1>. QED
  BY <1>5, <1>6, <1>7 DEF LinksInv, IssuersRevoked, LinksSupersede

(* A confirmation goes through.                                            *)
LEMMA ServeKeeps ==
  ASSUME CredentialsInv, LinksInv, NEW h \in Handlers, VerifyEmail(h) \/ UpdatePassword(h)
  PROVE  LinksInv'
<1>0. /\ CredentialsTypeOK /\ work \in [Handlers -> Work] /\ Len(link) \in Nat
      /\ link \in [Links -> OneTimeToken] /\ \A t \in Links : link[t] \in OneTimeToken
      /\ work[h].t \in {0} \cup Links
  BY LinkTyped DEF CredentialsInv, CredentialsTypeOK
<1>1. \E pc \in {"idle", "trim"} : GoneTo(h, pc)
  BY <1>0, HandlersGo DEF VerifyEmail, UpdatePassword
<1>2. work[h].pc \in Holding
  BY DEF VerifyEmail, UpdatePassword, WorkAt, Holding
<1>3. \A t : Confirming(t)' \subseteq Confirming(t) \ {h}
  BY <1>1 DEF Confirming, GoneTo
<1>4. \A t \in Links : /\ Served(t) \in OneTimeToken /\ Served(t).used
                       /\ SameIssue(Served(t), link[t])
  BY <1>0, SpentLink
<1>5. link' = [t \in Links |-> IF t = work[h].t THEN Served(t) ELSE link[t]]
  <2>1. CASE VerifyEmail(h)
    <3>1. link' = [link EXCEPT ![work[h].t] = Served(work[h].t)]
      BY <2>1 DEF VerifyEmail
    <3>. QED
      BY <1>0, <3>1
  <2>2. CASE UpdatePassword(h)
    BY <2>2 DEF UpdatePassword
  <2>. QED
    BY <2>1, <2>2
<1>6. Links' = Links
  <2>1. link' \in [Links -> OneTimeToken]
    BY <1>0, <1>4, <1>5
  <2>. QED
    BY <1>0, <2>1, MarkedKept
<1>7. OnlySpent
  BY <1>4, <1>5 DEF OnlySpent, SameIssue
<1>8. IssuersRevoked'
  <2>1. \A g \in Handlers : work'[g].pc = "createLink" => work'[g] = work[g]
    BY <1>1 DEF GoneTo
  <2>. QED
    BY <1>6, <1>7, <2>1, RevokedStays DEF LinksInv
<1>9. LinksServeHolders'
  <2>1. ASSUME NEW t \in Links
        PROVE  IF link'[t].used THEN link'[t].uses + Cardinality(Confirming(t)') <= link'[t].held
                                ELSE link'[t].uses = 0
    <3>1. CASE t = work[h].t
      <4>1. h \in Confirming(t)
        BY <1>2, <3>1 DEF Confirming, Holding
      <4>2. link'[t] = Served(t)
        BY <1>5, <3>1
      <4>. QED
        BY <1>0, <1>3, <4>1, <4>2, ServingOne DEF LinksInv
    <3>2. CASE t # work[h].t
      <4>1. SameUse(t)
        BY <1>5, <3>2 DEF SameUse
      <4>. QED
        BY <1>0, <1>3, <4>1, FewerHold DEF LinksInv
    <3>. QED
      BY <3>1, <3>2
  <2>. QED
    BY <1>6, <2>1 DEF LinksServeHolders
<1>. QED
  BY <1>8, <1>9 DEF LinksInv

(* The mail, the administrator and the clock.                              *)
LEMMA MarkKeeps ==
  ASSUME CredentialsInv, LinksInv,
         (\E h \in Handlers : Deliver(h)) \/ SetActive \/ \E t \in Links : LinkExpires(t)
  PROVE  LinksInv'
<1>0. /\ CredentialsTypeOK /\ work \in [Handlers -> Work] /\ Len(link) \in Nat
      /\ link \in [Links -> OneTimeToken] /\ \A t \in Links : link[t] \in OneTimeToken
  BY LinkTyped DEF CredentialsInv, CredentialsTypeOK
<1>1. Links' = Links /\ OnlySpent /\ \A t \in Links : SameUse(t)
  <2>1. CASE SetActive
    BY <2>1, SameLinks DEF SetActive
  <2>2. ASSUME NEW s, NEW new, link' = [link EXCEPT ![s] = new],
               s \in Links => /\ new \in OneTimeToken /\ SameIssue(new, link[s])
                              /\ new.used = link[s].used /\ new.uses = link[s].uses
                              /\ new.held = link[s].held
        PROVE  Links' = Links /\ OnlySpent /\ \A t \in Links : SameUse(t)
    <3>1. link' \in [Links -> OneTimeToken]
      BY <1>0, <2>2
    <3>2. Links' = Links
      BY <1>0, <3>1, MarkedKept
    <3>. QED
      BY <1>0, <2>2, <3>2 DEF OnlySpent, SameIssue, SameUse
  <2>3. ASSUME NEW h \in Handlers, Deliver(h)
        PROVE  Links' = Links /\ OnlySpent /\ \A t \in Links : SameUse(t)
    <3>1. PICK sent \in BOOLEAN : link' = [link EXCEPT ![work[h].t].mailed = sent]
      BY <2>3 DEF Deliver
    <3> DEFINE new == [link[work[h].t] EXCEPT !.mailed = sent]
    <3>2. link' = [link EXCEPT ![work[h].t] = new]
      BY <3>1
    <3>3. work[h].t \in Links => /\ new \in OneTimeToken /\ SameIssue(new, link[work[h].t])
             /\ new.used = link[work[h].t].used /\ new.uses = link[work[h].t].uses
             /\ new.held = link[work[h].t].held
      BY <1>0, MarkedLink
    <3>. HIDE DEF new
    <3>. QED
      BY <2>2, <3>2, <3>3
  <2>4. ASSUME NEW t \in Links, LinkExpires(t)
        PROVE  Links' = Links /\ OnlySpent /\ \A u \in Links : SameUse(u)
    <3> DEFINE new == [link[t] EXCEPT !.expired = TRUE]
    <3>1. link' = [link EXCEPT ![t] = new]
      BY <2>4 DEF LinkExpires
    <3>2. /\ new \in OneTimeToken /\ SameIssue(new, link[t])
          /\ new.used = link[t].used /\ new.uses = link[t].uses /\ new.held = link[t].held
      BY <1>0, MarkedLink
    <3>. HIDE DEF new
    <3>. QED
      BY <2>2, <3>1, <3>2
  <2>. QED
    BY <2>1, <2>3, <2>4
<1>2. \A g \in Handlers : work'[g] = work[g] \/ work'[g].pc = "idle"
  <2>1. \A h \in Handlers : WorkEnds(h) => GoneTo(h, "idle")
    BY <1>0, HandlersGo
  <2>. QED
    BY <2>1 DEF Deliver, SetActive, LinkExpires, GoneTo
<1>3. \A t : Confirming(t)' \subseteq Confirming(t)
  BY <1>2 DEF Confirming
<1>. QED
  BY <1>1, <1>2, <1>3, IdleLinks

LEMMA LinksStep == CredentialsInv /\ LinksInv /\ [CredentialsNext]_credentialVars => LinksInv'
<1> SUFFICES ASSUME CredentialsInv, LinksInv, [CredentialsNext]_credentialVars PROVE LinksInv'
  OBVIOUS
<1>1. CASE UNCHANGED credentialVars
  BY <1>1 DEF credentialVars, LinksInv, IssuersRevoked, LinksSupersede, LinksServeHolders,
     Confirming, Links
<1>2. CASE \E h \in Handlers : \/ LinklessStep(h) \/ RevokeUnusedForUser(h) \/ CreateLink(h)
                               \/ VerifyEmail(h) \/ UpdatePassword(h) \/ Deliver(h)
  BY <1>2, LinklessKeeps, RevokeKeeps, CreateKeeps, ServeKeeps, MarkKeeps
<1>3. CASE SetActive \/ \E t \in Links : LinkExpires(t)
  BY <1>3, MarkKeeps
<1>. QED
  BY <1>1, <1>2, <1>3 DEF CredentialsNext, LinklessStep

(* A link serves only the requests that found it unused, no link outlives  *)
(* the next but one inserted while the next was being issued, and unless   *)
(* two updates have overlapped no password is set that the history holds:  *)
(* whichever of the handlers of email-verification.service.ts and          *)
(* password.service.ts run at once.                                        *)
THEOREM SpentStaysSpent == CredentialsSpec => [](LinksAreSpent /\ NoRecentPassword)
<1> DEFINE Inv == CredentialsInv /\ LinksInv
<1>1. CredentialsInit => Inv
  <2> SUFFICES ASSUME CredentialsInit PROVE Inv
    OBVIOUS
  <2>1. Links = {} /\ \A h \in Handlers : work[h].pc = "idle"
    BY DEF CredentialsInit, Links, IdleWork
  <2>2. LinksInv
    BY <2>1 DEF LinksInv, IssuersRevoked, LinksSupersede, LinksServeHolders
  <2>. QED
    BY <2>2, CredentialsInitially
<1>2. Inv /\ [CredentialsNext]_credentialVars => Inv'
  BY CredentialsStep, LinksStep
<1>3. Inv => LinksAreSpent /\ NoRecentPassword
  <2> SUFFICES ASSUME Inv PROVE LinksAreSpent /\ NoRecentPassword
    OBVIOUS
  <2>1. past \in Seq(Passwords) /\ HistoryCount + 1 \in Nat
    BY CredentialsAssumption DEF CredentialsAssumption, CredentialsInv, CredentialsTypeOK
  <2> DEFINE n == HistoryCount + 1
             m == IF Len(past) < n THEN Len(past) ELSE n
  <2>2. Recent(n) = {past[i] : i \in 1 .. m}
    BY <2>1, NewestOf DEF Recent
  <2>3. ASSUME ~raced, NEW i \in 1 .. m PROVE account.passwordHash # past[i]
    BY <2>1, <2>3 DEF CredentialsInv, PasswordIsNew
  <2>. HIDE DEF m
  <2>4. NoRecentPassword
    BY <2>2, <2>3 DEF NoRecentPassword
  <2>. QED
    BY <2>4 DEF LinksAreSpent, LinksInv, IssuersRevoked
<1>. QED
  BY <1>1, <1>2, <1>3, PTL DEF CredentialsSpec

(* Handlers, links and lists of passwords keep their shapes, and a handler *)
(* that updates a password has one and a link that is there.               *)
THEOREM CredentialsTyped == CredentialsSpec => []CredentialsTypeOK
<1>1. CredentialsInv => CredentialsTypeOK
  BY DEF CredentialsInv
<1>. QED
  BY CredentialsInitially, CredentialsStep, <1>1, PTL DEF CredentialsSpec

----
(* The parts side by side. A behaviour of the sum is one of each part.     *)

LEMMA SumOfParts == Spec => SessionsSpec /\ CredentialsSpec /\ SignInSpec
<1>1. Init => SessionsInit /\ CredentialsInit /\ SignInInit
  BY DEF Init
<1>2. [Next]_<<part, sessionVars, credentialVars, signInVars>> =>
        [SessionsNext]_sessionVars /\ [CredentialsNext]_credentialVars /\ [SignInNext]_signInVars
  BY DEF Next
<1>. QED
  BY <1>1, <1>2, PTL DEF Spec, SessionsSpec, CredentialsSpec, SignInSpec

(* Whatever part moves, its variables have their types.                    *)
THEOREM AuthUserTyped == Spec => []TypesOK
<1>1. SessionsTypeOK /\ CredentialsTypeOK /\ SignInTypeOK => TypesOK
  BY DEF TypesOK
<1>. QED
  BY SumOfParts, SessionsTyped, CredentialsTyped, SignInTyped, <1>1, PTL

(* What was spent stays spent.                                             *)
THEOREM CredentialsAreSafe == Spec => []CredentialsHold
<1>1. LinksAreSpent /\ NoRecentPassword => CredentialsHold
  BY DEF CredentialsHold
<1>. QED
  BY SumOfParts, SpentStaysSpent, <1>1, PTL
====
