SPECIFICATION FairSpec
CONSTANTS
  N = 7
  Sentences <- MCSentences
  PARA_MAX = 5
  PARA_PART_MAX = 5
INVARIANTS TypeOK ManagersForest MarksNested ConjunctsMarked
PROPERTY Terminates
