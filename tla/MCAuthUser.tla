---- MODULE MCAuthUser ----
(***************************************************************************)
(* The parts of auth-user-service that share no state in the models, side  *)
(* by side in one run: the initial state chooses the part that moves, and  *)
(* the others stay at rest.                                                *)
(***************************************************************************)
EXTENDS Sessions, Credentials, SignIn, TLC

VARIABLE part

Init ==
  /\ part \in {"sessions", "credentials", "signIn"}
  /\ SessionsInit /\ CredentialsInit /\ SignInInit
  /\ part # "sessions" => standing = [u \in Accounts |-> FALSE]

Next ==
  /\ UNCHANGED part
  /\ IF part = "sessions"    THEN SessionsNext    ELSE UNCHANGED sessionVars
  /\ IF part = "credentials" THEN CredentialsNext ELSE UNCHANGED credentialVars
  /\ IF part = "signIn"      THEN SignInNext      ELSE UNCHANGED signInVars

Spec == Init /\ [][Next]_<<part, sessionVars, credentialVars, signInVars>>

(* Every variable of the part that moves has its type.                     *)
TypesOK ==
  /\ part = "sessions"    => SessionsTypeOK
  /\ part = "credentials" => CredentialsTypeOK
  /\ part = "signIn"      => SignInTypeOK

(* What was spent stays spent, whichever of resend, verification, reset and*)
(* password change run at once: a link serves only the requests that found *)
(* it unused, and no link outlives the next but one inserted while the next*)
(* was being issued (LinksAreSpent). Unless two password updates have      *)
(* overlapped, no password is set that the history holds                   *)
(* (NoRecentPassword; Credentials).                                        *)
CredentialsHold == part = "credentials" => LinksAreSpent /\ NoRecentPassword

(* Handlers of one kind may be exchanged: no property tells them apart. The*)
(* parts share their handlers.                                             *)
Exchangeable == Permutations(Calls)
====
