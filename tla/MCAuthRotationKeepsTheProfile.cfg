SPECIFICATION Spec
CONSTANTS
  admin = admin
  developer = developer
  w1 = w1
  NoUser = NoUser
  Users = {admin, developer}
  Admins = {admin}
  Workers = {w1}
  SecretSet = TRUE
  AccessTTL = 1
  RefreshTTL = 2
  TicksPerSecond = 2
  MaxClock = 4
  MaxIssues = 3
  MaxRestarts = 1
INVARIANT
  RotationKeepsTheProfile
