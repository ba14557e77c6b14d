CONSTANTS
  Procs = {0, 1, 2}
  Dials <- MCDials
  Cafes <- MCCafes
  MaxSockets = 2
  MaxCrashes = 2
SPECIFICATION NetSpec
INVARIANTS PrivateNetInv
PROPERTIES LinkedInTheEnd ResumedWhenLinked Resumes
CHECK_DEADLOCK FALSE
