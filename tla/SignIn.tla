---- MODULE SignIn ----
(***************************************************************************)
(* auth-user-service: the checks around a sign-in with a password and the  *)
(* other limited requests. One account, one client address. Handlers       *)
(* interleave at every await.                                              *)
(*                                                                         *)
(*   lockout   failed_login_attempts and locked_until of the account; lock *)
(*             is "none", "ahead" or "past" (a time that has gone by)      *)
(*   failures  unsuccessful rows of auth.security_events by type, within   *)
(*             the window of that type                                     *)
(*   attempt   where each handler stands, with the row it has loaded       *)
(*   guesses, expiries, overlapped   history variables: wrong passwords    *)
(*             since the count was last cleared, locks that have expired   *)
(*             since, and whether two failures have been written at once   *)
(***************************************************************************)
EXTENDS Naturals, FiniteSets

CONSTANTS
  EventType,           \* of SecurityEventType, those in play
  SignIns,             \* handlers that may be under way at once
  LoginMaxAttempts,    \* AUTH_LOGIN_MAX_ATTEMPTS
  IpMax,               \* AUTH_IP_MAX_ATTEMPTS and its relatives
  MaxGuesses           \* bound on wrong passwords

ASSUME SignInAssumption ==
  /\ IsFiniteSet(SignIns)
  /\ {"LOGIN", "REGISTER_BUYER"} \subseteq EventType
  /\ EventType \subseteq {"LOGIN", "ADMIN_LOGIN", "REGISTER_BUYER", "REGISTER_DEALER", "REFRESH"}
  /\ LoginMaxAttempts \in Nat \ {0} /\ IpMax \in Nat \ {0} /\ MaxGuesses \in Nat

VARIABLES lockout, failures, attempt, guesses, expiries, overlapped

signInVars == <<lockout, failures, attempt, guesses, expiries, overlapped>>

PasswordLogin == {"LOGIN", "ADMIN_LOGIN"}

Lockout == [attempts : Nat, lock : {"none", "ahead", "past"}]

AttemptPc == {"idle", "preLogin", "validate", "success", "readFailed", "writeFailed",
              "record"}

Attempt == [pc : AttemptPc, type : EventType, loaded : Lockout]

SignInTypeOK ==
  /\ lockout \in Lockout
  /\ failures \in [EventType -> Nat]
  /\ attempt \in [SignIns -> Attempt]
  /\ guesses \in Nat /\ expiries \in Nat /\ overlapped \in BOOLEAN
  /\ lockout.attempts >= LoginMaxAttempts => lockout.lock # "none"

NoLockout   == [attempts |-> 0, lock |-> "none"]
IdleAttempt == [pc |-> "idle", type |-> "LOGIN", loaded |-> NoLockout]

SignInInit ==
  /\ lockout = NoLockout
  /\ failures = [type \in EventType |-> 0]
  /\ attempt = [s \in SignIns |-> IdleAttempt]
  /\ guesses = 0 /\ expiries = 0 /\ overlapped = FALSE

AttemptAt(s, pc)   == attempt[s].pc = pc
AttemptGoto(s, pc) == attempt' = [attempt EXCEPT ![s].pc = pc]
AttemptEnds(s)     == attempt' = [attempt EXCEPT ![s] = IdleAttempt]

(* assertIpRateLimit, assertRefreshAllowed, assertRegistrationAllowed: the *)
(* failures of a type are counted first. Registration of a dealer counts   *)
(* those of REGISTER_BUYER. What follows may fail and be recorded.         *)
CountedAs(type) == IF type = "REGISTER_DEALER" THEN "REGISTER_BUYER" ELSE type
RequestAllowed(s, type) ==
  /\ AttemptAt(s, "idle")
  /\ failures[CountedAs(type)] < IpMax
  /\ attempt' = [attempt EXCEPT ![s] = [IdleAttempt EXCEPT
                   !.pc = IF type \in PasswordLogin THEN "preLogin" ELSE "record", !.type = type]]
  /\ UNCHANGED <<lockout, failures, guesses, expiries, overlapped>>

(* preLoginCheck: while a lock lies ahead the request is refused, which is *)
(* a failure too.                                                          *)
PreLoginCheck(s) ==
  /\ AttemptAt(s, "preLogin")
  /\ AttemptGoto(s, IF lockout.lock = "ahead" THEN "record" ELSE "validate")
  /\ UNCHANGED <<lockout, failures, guesses, expiries, overlapped>>

(* validateCredentials: right; right for an account that may not sign in,  *)
(* which is no failure; wrong; or the address is nobody's.                 *)
ValidateCredentials(s) ==
  /\ AttemptAt(s, "validate")
  /\ \/ AttemptGoto(s, "success")
     \/ AttemptEnds(s)
     \/ AttemptGoto(s, "readFailed")
     \/ AttemptGoto(s, "record")
  /\ UNCHANGED <<lockout, failures, guesses, expiries, overlapped>>

(* clearLoginFailures: recordLoginSuccess, and the end of updatePassword.  *)
ClearLoginFailures ==
  /\ lockout' = NoLockout
  /\ guesses' = 0 /\ expiries' = 0
  /\ UNCHANGED <<failures, overlapped>>

RecordLoginSuccess(s) ==
  AttemptAt(s, "success") /\ ClearLoginFailures /\ AttemptEnds(s)

PasswordUpdated == ClearLoginFailures /\ UNCHANGED attempt

(* handleFailedLogin: recordFailedLogin reads the row, ...                 *)
ReadFailedLogin(s) ==
  /\ AttemptAt(s, "readFailed")
  /\ attempt' = [attempt EXCEPT ![s].pc = "writeFailed", ![s].loaded = lockout]
  /\ overlapped' = (overlapped \/ \E r \in SignIns : AttemptAt(r, "writeFailed"))
  /\ UNCHANGED <<lockout, failures, guesses, expiries>>

(* Mutant of Locks: one failure too many.                                  *)
LocksLate(attempts) == attempts > LoginMaxAttempts

(* ... and writes a count and a lock made from what it read.               *)
Locks(attempts) == attempts >= LoginMaxAttempts

WriteFailedLogin(s) ==
  LET attempts == attempt[s].loaded.attempts + 1 IN
  /\ AttemptAt(s, "writeFailed")
  /\ guesses < MaxGuesses /\ attempts <= MaxGuesses
  /\ lockout' = [attempts |-> attempts,
                 lock |-> IF Locks(attempts) THEN "ahead" ELSE attempt[s].loaded.lock]
  /\ guesses' = guesses + 1
  /\ AttemptGoto(s, "record")
  /\ UNCHANGED <<failures, expiries, overlapped>>

(* securityEventsRepository.record, or an end that records no failure. The *)
(* bound is reached by REGISTER_DEALER alone, which nothing counts.        *)
RecordFailure(s) ==
  /\ AttemptAt(s, "record")
  /\ failures[attempt[s].type] < IpMax + Cardinality(SignIns)
  /\ failures' = [failures EXCEPT ![attempt[s].type] = @ + 1]
  /\ AttemptEnds(s)
  /\ UNCHANGED <<lockout, guesses, expiries, overlapped>>

RequestSucceeds(s) ==
  /\ AttemptAt(s, "record") /\ attempt[s].type \notin PasswordLogin
  /\ AttemptEnds(s)
  /\ UNCHANGED <<lockout, failures, guesses, expiries, overlapped>>

(* Failures leave their window; a lock comes to its end.                   *)
WindowSlides(type) ==
  /\ failures[type] > 0
  /\ failures' = [failures EXCEPT ![type] = @ - 1]
  /\ UNCHANGED <<lockout, attempt, guesses, expiries, overlapped>>

LockExpires ==
  /\ lockout.lock = "ahead"
  /\ lockout' = [lockout EXCEPT !.lock = "past"]
  /\ expiries' = expiries + 1
  /\ UNCHANGED <<failures, attempt, guesses, overlapped>>

SignInNext ==
  \/ \E s \in SignIns :
       \/ \E type \in EventType : RequestAllowed(s, type)
       \/ PreLoginCheck(s) \/ ValidateCredentials(s) \/ RecordLoginSuccess(s)
       \/ ReadFailedLogin(s) \/ WriteFailedLogin(s) \/ RecordFailure(s) \/ RequestSucceeds(s)
  \/ PasswordUpdated
  \/ \E type \in EventType : WindowSlides(type)
  \/ LockExpires

SignInSpec == SignInInit /\ [][SignInNext]_signInVars

----
(* Wrong passwords are limited: as long as no two of them were counted at  *)
(* the same time, an account takes LoginMaxAttempts of them, those that    *)
(* were past preLoginCheck when it was locked, and as many again for each  *)
(* lock that has run out. (recordFailedLogin locks on the count it reads.) *)
GuessesLimited ==
  LET n == Cardinality(SignIns) IN
  ~overlapped => guesses <= LoginMaxAttempts + (n - 1) + expiries * n

(* A client's failures stay within the limit of their type, but for the    *)
(* requests that were counted before one another's failure was recorded.   *)
FailuresLimited ==
  \A type \in EventType :
    CountedAs(type) = type =>
      failures[type] + Cardinality({s \in SignIns : ~AttemptAt(s, "idle") /\ attempt[s].type = type})
        < IpMax + Cardinality(SignIns)

(* Attempts are limited, by account and by client (the two above).         *)
AttemptsLimited == GuessesLimited /\ FailuresLimited
====
