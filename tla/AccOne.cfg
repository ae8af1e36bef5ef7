\* One worker for every account handler, failing statements and restarts: a session
\* that has ended stays ended, users have the owners that registered them, and handlers end.
SPECIFICATION LoneSpec
CONSTANTS
  Null = Null
  Lower <- MCLower
  Workers = {w1, w2}
  Names = {"ann", ""}
  Roles = {"Manager", "Employee"}
  Offered = {"login", "logout", "add_user", "me", "current_user", "add_sub_user", "delete_user", "list_users", "get_users", "audit_users"}
  MaxUsers = 2
  MaxAudits = 4
  MaxLogins = 2
  DiskFaults = TRUE
  Crashes = TRUE
PROPERTIES SessionsStayEnded OwnersRegisterTheirUsers RequestsAreAnswered
