CONSTANTS
  web1 = web1
  web2 = web2
  thread1 = thread1
  thread2 = thread2
  Web <- OneWeb
  Sidekiq <- OneThread
  Request <- Approvals
  MaxJobs = 1
  MaxFaults = 0
SPECIFICATION FairSpec
PROPERTIES
  FailedDeploymentDropped
CHECK_DEADLOCK FALSE
