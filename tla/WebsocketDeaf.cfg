SPECIFICATION WsSpec
CONSTANTS
  MaxCommands = 2
  MaxFailures = 1
PROPERTY DownIsNoticed
CHECK_DEADLOCK FALSE
