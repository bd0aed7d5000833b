\* Three services: two claims, one after the other or crossing, or a claim and an edit of the layout.
\* Two windows and three screens: two icons dragged, two edits.
SPECIFICATION MCSpec
CONSTANTS
  desk = desk
  laptop = laptop
  tablet = tablet
  Screen <- ThreeScreens
  First = desk
  MaxInputs = 2
  MaxReadies = 2
  MaxMoves = 1
  Window = {2, 3}
  Others = {1}
  MaxLayoutEdits = 2
  MaxDrags = 2
INVARIANTS LocalFollows LostOnlyByLag SettledClaimWins WindowsAgree
CHECK_DEADLOCK FALSE
CONSTRAINT FewEvents
