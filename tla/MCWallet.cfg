\* Two views, two accounts and two passwords; a view is closed or the worker restarted.
SPECIFICATION FairSpec
CONSTANTS
  Accounts = {a, b}
  Passwords = {p, q}
  Earlier = {p}
  None = None
  Views = {popup, options}
  Slots = {1, 2}
  MaxActions = 2
  MaxFaults = 1
INVARIANTS AccountsKept SessionOpensVault LockForgets
PROPERTIES ViewsFollow
CHECK_DEADLOCK FALSE
