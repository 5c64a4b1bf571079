SPECIFICATION Spec
CONSTANTS
  Kinds <- MCKinds
  Windows <- MCWindows
  Shapes <- MCShapes
  MaxGeneration = 2
  MaxMessages <- MCMessages
  MaxFlight = 2
  Undefined = Undefined
INVARIANTS
  AckLedger
  ClientAgrees
PROPERTY ServerGoesOn
CHECK_DEADLOCK FALSE
