CONSTANTS
  MAX_MATCH_MAX = 2
  CMM_MAX = 4
  SOTO_THRESHOLD = 8
  NOUN_THRESHOLD = 5
  Unit = 6
  Inputs <- const_Inputs
SPECIFICATION Spec
INVARIANTS MatchBest FramesKept ClosestFirst
