\* Sessions, credentials and sign-in limits, two handlers each.
SPECIFICATION Spec
CONSTANTS
  Accounts = {"u"}
  NoAccount = "nobody"
  Calls = {c1, c2}
  MaxSessions = 1
  Grace = 1
  TTL = 2
  MaxTokens = 3
  MaxTime = 2
  Handlers = {c1, c2}
  Passwords = {"p", "q", "r"}
  HistoryCount = 1
  MaxLinks = 2
  MaxChanges = 2
  EventType = {"LOGIN", "REGISTER_BUYER", "REGISTER_DEALER"}
  SignIns = {c1, c2}
  LoginMaxAttempts = 2
  IpMax = 1
  MaxGuesses = 5
SYMMETRY Exchangeable
INVARIANTS
  TypesOK
  ForksAreGraced
  CredentialsHold
  AttemptsLimited
PROPERTIES
  QuietSignInRestoresLimit
  OverStaysOver
CHECK_DEADLOCK FALSE
