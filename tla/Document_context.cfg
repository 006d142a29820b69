SPECIFICATION Spec
CONSTANTS
  Texts <- MCTexts
  Options <- MCOptions
  MRPH_MAX = 10
  BNST_MAX = 4
  PAREN_MAX = 3
  SENTENCE_MAX = 2
  TAG_MAX = 10
  ENTITY_MAX = 14
  UNNAMED = 2
CHECK_DEADLOCK FALSE
INVARIANT OnlyKeptCounted
