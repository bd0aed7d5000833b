SPECIFICATION MCSpec
CONSTANTS
  Category = {1, 2}
  MaxJobs = 3
  MaxFaults = 2
  MaxProxies = 2
  MaxCommands = 4
  MaxFailures = 2
  TrayId = {1, 2, 3}
  MaxPings = 2
  MaxStarts = 1
  ScreenId = {1, 2, 3}
  Local = 1
  Spot <- MSpot
  Place <- MPlace
  MaxDrops = 2
  MaxSnapshots = 1
  MaxClicks = 2
  MaxDenied = 1
  MaxRuns = 1
  MaxSwitches = 2
  UserSession = {1, 2}
  MaxTrouble = 2
  MaxControls = 2
  XSession = {1, 2}
  MaxSwitch = 2
  MaxUids = 1
  MaxMonitor = 1
  MaxNews = 2
  MaxLosses = 1
  MaxLooks = 3
  MaxUploads = 2
INVARIANTS
  NotStranded
  FlagTrue
  OneTray
  NoOverlap
  LinksMutual
  ServiceTold
  OneOfEach
  CoreInSession
  ErrorViewTrue
  MessageOnce
PROPERTIES
  ImplementsBoard
  JobsAnswered
  ComesOnline
  ServiceReplaced
  RetryEnds
  OneIconAgain
CHECK_DEADLOCK FALSE
