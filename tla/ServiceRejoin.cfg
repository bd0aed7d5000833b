\* Removed from one profile, logged in to another.
SPECIFICATION ServiceSpec
CONSTANTS
  ProfileId = {1, 2}
  MaxIds = 2
  Other = 20
  MaxEdits = 2
  MaxCalls = 3
  MaxBreaks = 0
INVARIANTS StartedWhenFound
CHECK_DEADLOCK FALSE
