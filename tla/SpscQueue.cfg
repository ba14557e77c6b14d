SPECIFICATION Spec
CONSTANTS
  Values = {a, b}
  NoItem = NoItem
  Size = 4
  Width = 8
INVARIANTS RingSafe
PROPERTIES ImplementsFifo
