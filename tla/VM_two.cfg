CONSTANTS
  web1 = web1
  web2 = web2
  thread1 = thread1
  thread2 = thread2
  Web <- TwoWebs
  Sidekiq <- TwoThreads
  Request <- Approvals
  MaxJobs = 4
  MaxFaults = 1
SPECIFICATION Spec
SYMMETRY ActorSymmetry
INVARIANTS
  MachinesBounded
  UnownedBounded
  ApprovedIsRecorded
CHECK_DEADLOCK FALSE
