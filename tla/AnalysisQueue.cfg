SPECIFICATION FairSpec
CONSTANTS
    j1 = j1  j2 = j2  t1 = t1  w1 = w1  local = local
    h1 = h1  m = m  nobody = nobody
    Jobs <- TwoJobs
    Tasks <- OneTask
    JobOf <- AllOfFirstJob
    Workers <- RemoteAndLocal
    LocalWorkers <- OnlyLocal
    Handlers <- OneHandler
    Maintenance = m
    NoOwner = nobody
    MaxAttempts = 2
    MaxClaims = 2
    MaxAborts = 2
INVARIANTS TypeOK ResultBeforeCompletion ClosedJobsAreSettled
    RetriesAreNotCutShort
PROPERTIES SettledIsForever ImplementsLifecycle JobsCloseForGood
