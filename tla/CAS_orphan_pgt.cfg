CONSTANTS
  w1 = w1
  w2 = w2
  alice = alice
  bob = bob
  portal = portal
  broken = broken
  none = none
  NoService = none
  Worker <- OneWorker
  User <- OneUser
  Service <- OneService
  Unparsable <- NoBroken
  SingleSignOut = FALSE
  MaxLT = 2
  MaxTGT = 2
  MaxST = 2
  MaxPGT = 1
  MaxTime = 0
  LTLife = 1
  STLife = 0
  SessionLife = 1
SPECIFICATION Spec
INVARIANT OwnProxyGrantingTicketsDeleted
