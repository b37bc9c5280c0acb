CONSTANTS
    t1 = t1
    t2 = t2
    Tasks = {t1, t2}
    Options <- MCOptions
    MaxAttempts = 2
    ClaimBatch = 2
    MaxInflight = 2
    SubmitBatch = 1
    HeadBatch = 2
    MaxClaims = 2
    MaxCopies = 4
SPECIFICATION FairSpec
PROPERTIES EveryTaskIsAnswered
INVARIANTS TypeOK LeasesAreInWork PipelineIsBounded DrainLeaves
CHECK_DEADLOCK FALSE
