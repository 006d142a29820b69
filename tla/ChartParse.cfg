SPECIFICATION Spec
CONSTANTS
  N = 5
  Inputs <- MCInputs
  Score <- MCScore
  TableMax = 40
  TableMaxForCase = 12
INVARIANTS TypeOK HeadsRight MarksKept ChartExact BestChosen FreshChart
