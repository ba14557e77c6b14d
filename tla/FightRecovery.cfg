SPECIFICATION CoopFull
CONSTANTS
  Teams = {1, 2, 3}
  Bio = 1
  NextLvNum = 1
  MaxBacklog = 0
  MaxCrashes = 1
INVARIANTS RecoverySound
PROPERTIES FinishesUnlessTorn
CHECK_DEADLOCK FALSE
