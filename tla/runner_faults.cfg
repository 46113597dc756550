\* Three invocations of five kinds, an error or a kill at every step, two passes each.
SPECIFICATION FiveKindsSpec
CONSTANTS
  Proc <- MCProc3
  MaxPasses = 2
  MayFail = TRUE
INVARIANTS
  TypeOK
  LockInv
  RequestConserved
  DeferredPass
  NoStrandedMarker
  SomebodyReconciles
PROPERTY ImplementsSerialPasses
