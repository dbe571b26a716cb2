SPECIFICATION Spec
CONSTANTS
  None = None
  Definitions = {a, b}
  Levels = {backward, full}
  MaxVersion = 3
  MaxLate = 0
INVARIANT UpdateResultAsPlanned
