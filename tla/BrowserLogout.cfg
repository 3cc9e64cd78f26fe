\* One tab, whose access token has expired when the user logs out.
SPECIFICATION BrowserSpec
CONSTANTS
  Tabs = {t1}
  MaxIssued = 3
INVARIANTS
  LogoutEndsSession
CHECK_DEADLOCK FALSE
