SPECIFICATION FairSpec
CONSTANTS
  local = local
  desk = desk
  laptop = laptop
  root = root
  alice = alice
  Screen <- MCScreen
  Self = local
  User <- MCUser
  FirstUser = root
  None = None
  MaxRequests = 5
  MaxCrashes = 2
INVARIANTS NeverStranded LastRequestWins
PROPERTIES PauseStops CoreComesBack
CHECK_DEADLOCK FALSE
