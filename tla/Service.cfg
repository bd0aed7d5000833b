SPECIFICATION MCSpec
CONSTANTS
  ProfileId = {1, 2}
  MaxIds = 2
  Other = 20
  MaxEdits = 2
  MaxCalls = 2
  MaxBreaks = 1
  Host = {1, 2}
  RetryLimit = 2
  MaxSessions = 3
  MaxChunks = 1
  MaxTroubles = 2
  MaxMessages = 2
  MaxLines = 5
  MaxNews = 1
  MaxAddresses = 3
  MaxOutages = 2
  MaxSignals = 6
INVARIANTS
  LoggedOutIdle
  InStep
  LinkIsOwn
  WholeUnlessCrowded
  StatusSettles
  ReportIsTrue
PROPERTIES
  CoreReturns
  SessionLinked
  ImplementsLink
  AddressReported
CHECK_DEADLOCK FALSE
