SPECIFICATION PlayersSpec
CONSTANTS
  Sides <- MCTeams
  Members <- MCMembers
  Leader <- MCLeader
  Cafe <- MCCafe
  Nobody = 0
  MaxHouses = 4
INVARIANTS HouseInv
PROPERTIES LedHousesStart
CHECK_DEADLOCK FALSE
