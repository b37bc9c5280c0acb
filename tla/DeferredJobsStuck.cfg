SPECIFICATION FairSpec
CONSTANTS
    a = a  b = b  c = c  nojob = nojob  nothread = nothread
    Jobs <- ThreeJobs
    KindOf <- ProgressAndMemory
    Cancellable <- OnlyB
    Readers = {}
    NoJob = nojob
    NoThread = nothread
PROPERTIES DeferredJobsMoveOn
