SPECIFICATION Spec
CONSTANTS
  N = 4
  BNST_MAX = 6
  PARA_PART_MAX = 4
  PARA_MAX = 4
  Sentences <- MCSentences
  Options <- MCOptions
INVARIANTS TypeOK TreesWhole HeadsAgree
PROPERTY HistoryFree
CHECK_DEADLOCK FALSE
