CONSTANTS
  w1 = w1
  w2 = w2
  alice = alice
  bob = bob
  portal = portal
  broken = broken
  none = none
  NoService = none
  Worker <- OneWorker
  User <- OneUser
  Service <- BothServices
  Unparsable <- Broken
  SingleSignOut = TRUE
  MaxLT = 2
  MaxTGT = 2
  MaxST = 2
  MaxPGT = 1
  MaxTime = 1
  LTLife = 1
  STLife = 0
  SessionLife = 0
SPECIFICATION Spec
INVARIANTS
  ProxiesEndWithSession
  ServicesNotified
PROPERTIES
  OneTimeTickets
