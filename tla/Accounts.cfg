\* Every operation on one account, up to two at a time.
SPECIFICATION Spec
CONSTANTS
  Users = {u1}
  Workers = {w1, w2}
  Widths = {1, 2}
  Passwords = {p1, p2}
  Tokens = {t1, t2}
  None = None
  Operations = {"register", "login", "refresh", "oauth", "reset", "delete", "suspend", "verify"}
  Overlapping = {"register", "login", "suspend"}
  MaxFailedAttempts = 2
  MaxCount = 3
INVARIANTS TypeOK LocksAreEarned PasswordIsLatest DeletedIsAnonymous DecisionIsConsistent
PROPERTIES TokenWorksOnce
CHECK_DEADLOCK FALSE
