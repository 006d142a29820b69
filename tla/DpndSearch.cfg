SPECIFICATION FairSpec
CONSTANTS
  N = 5
  Sentences <- MCSentences
  Leftovers <- MCLeftovers
  Score <- MCScore
INVARIANTS TypeOK HeadsRight NonCrossing SearchExact BestHanded
PROPERTIES Terminates
