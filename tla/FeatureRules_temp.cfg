CONSTANTS
  N = 3
  Tests = {"t"}
  Inputs <- const_Inputs
SPECIFICATION Spec
INVARIANT TempAsFinal
