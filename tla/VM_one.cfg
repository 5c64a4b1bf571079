CONSTANTS
  web1 = web1
  web2 = web2
  thread1 = thread1
  thread2 = thread2
  Web <- OneWeb
  Sidekiq <- OneThread
  Request <- AllRequests
  MaxJobs = 2
  MaxFaults = 1
SPECIFICATION Spec
INVARIANTS
  TypeOK
  CreatedIsDeployed
PROPERTIES
  OneMachineForLife
