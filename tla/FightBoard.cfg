SPECIFICATION MCSpec
CONSTANTS
  Fights <- MCFights
  Posting <- MCPosting
  Teams = {1}
  Junk = 0
  Cafes <- MCCafes
  MaxClock = 2
  MaxOutstanding = 2
  MaxLost = 1
INVARIANTS BoardInv
PROPERTIES PostsArrive ResetOnlyByOverlap OnlyWinnersJoinLate
CHECK_DEADLOCK FALSE
