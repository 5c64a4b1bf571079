CONSTANTS
  w1 = w1
  w2 = w2
  alice = alice
  bob = bob
  portal = portal
  broken = broken
  none = none
  NoService = none
  Worker <- TwoWorkers
  User <- TwoUsers
  Service <- OneService
  Unparsable <- NoBroken
  SingleSignOut = FALSE
  MaxLT = 1
  MaxTGT = 2
  MaxST = 2
  MaxPGT = 1
  MaxTime = 0
  LTLife = 1
  STLife = 0
  SessionLife = 0
SPECIFICATION Spec
SYMMETRY WorkerUserSymmetry
INVARIANTS
  TypeOK
  Provenance
  UsedUp
  AnswersBounded
  LoginsBounded
  OrphansBounded
  LogoutEndsProxying
