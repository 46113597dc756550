\* Three invocations, no fault, and more passes than they can use.
SPECIFICATION Spec
CONSTANTS
  Proc <- MCProc3
  MaxPasses = 4
  MayFail = FALSE
INVARIANT MarkerLeftOnlyByBudget
