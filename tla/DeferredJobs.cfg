SPECIFICATION FairSpec
CONSTANTS
    a = a  b = b  c = c  nojob = nojob  nothread = nothread
    Jobs <- ThreeJobs
    KindOf <- AllKinds
    Cancellable <- OnlyB
    Readers = {}
    NoJob = nojob
    NoThread = nothread
INVARIANTS TypeOK OrderHasStarters RunsOnce
PROPERTIES LaunchedJobsRun StartedJobsClose
