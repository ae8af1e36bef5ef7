\* Two workers that race, for accounts and for sessions.
SPECIFICATION MCSpec
SYMMETRY WorkersAreAlike
CONSTANTS
  Null = Null
  Lower <- MCLower
  Workers = {w1, w2}
  Names = {"ann", ""}
  Roles = {"Manager"}
  Offered = {"login", "logout", "add_user", "me", "delete_user"}
  MaxUsers = 2
  MaxAudits = 3
  MaxLogins = 2
  DiskFaults = FALSE
  Crashes = FALSE
INVARIANTS TypeOK AuditsStayWithTheirUser LogoutsFollowLogins SessionsAreOfTheirLogin
