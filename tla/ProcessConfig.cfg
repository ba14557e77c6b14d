SPECIFICATION Spec
CONSTANTS
  Words <- MCWords
  Figures <- MCFigures
  Texts <- MCTexts
  Names <- MCNames
  Values <- MCValues
  Leaves <- MCLeaves
  Processes <- MCProcesses
  MaxEdits = 2
  MaxNodes = 4
  MaxFirst = 6
INVARIANTS XmlInv SavedReadsBack CutShows ConfigSound
PROPERTY ImplementsForest
CHECK_DEADLOCK FALSE
