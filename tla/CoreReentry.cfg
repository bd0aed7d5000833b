SPECIFICATION Spec
CONSTANTS
  local = local
  desk = desk
  laptop = laptop
  root = root
  alice = alice
  Screen <- MCScreen
  Self = local
  User <- MCUser
  FirstUser = root
  None = None
  MaxRequests = 5
  MaxCrashes = 2
INVARIANT CallersSurvivePoll
CHECK_DEADLOCK FALSE
