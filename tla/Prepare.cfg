SPECIFICATION Spec
CONSTANTS
  N = 5
  QUOTE_MAX = 4
  Sentences <- MCSentences
INVARIANTS TypeOK QuotesNested RelaxedAll KoouClosed
