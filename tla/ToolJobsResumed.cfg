SPECIFICATION FairSpec
CONSTANTS
    w1 = w1
    w2 = w2
    l1 = l1
    l2 = l2
    a1 = a1
    Nobody = Nobody
    MaxJobs = 1
    Labels = {l1}
    LabelsOf <- OneList
    Workers = {w1}
    Admins = {a1}
    Wishes <- CancelAndResume
    Slots = 1
    MaxLosses = 0
PROPERTIES DroppedJobsClose
