SPECIFICATION FieldsSpec
CONSTANTS
  Teams = {1, 2, 3, 4, 5}
  Bio = 3
  NextLvNum = 1
INVARIANTS SingleFailInv HousesOfThisRound BracketWhole
PROPERTIES StopsPlayedOut ByesAdvance
