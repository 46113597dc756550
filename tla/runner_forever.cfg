\* Two slots for an unbounded sequence of invocations.
SPECIFICATION ForeverSpec
CONSTANTS
  Proc <- MCProc2
  MaxPasses = 2
  MayFail = FALSE
PROPERTY EveryInvocationEnds
