\* One login that fails and one click after it.
SPECIFICATION LoginSpec
CONSTANTS
  MaxClicks = 2
  MaxDenied = 1
  MaxRuns = 1
  MaxSwitches = 2
INVARIANT EveryClickHeard
CHECK_DEADLOCK FALSE
