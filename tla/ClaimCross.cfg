\* Two claims that cross.
SPECIFICATION Spec
CONSTANTS
  desk = desk
  laptop = laptop
  tablet = tablet
  Screen <- TwoScreens
  First = desk
  MaxInputs = 2
  MaxReadies = 2
  MaxMoves = 0
INVARIANTS SomeServer
CHECK_DEADLOCK FALSE
