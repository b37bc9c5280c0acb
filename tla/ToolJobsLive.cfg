SPECIFICATION FairSpec
CONSTANTS
    w1 = w1
    w2 = w2
    l1 = l1
    l2 = l2
    a1 = a1
    Nobody = Nobody
    MaxJobs = 2
    Labels = {l1}
    LabelsOf <- TwoLists
    Workers = {w1}
    Admins = {a1}
    Wishes <- ResumeTheFirst
    Slots = 1
    MaxLosses = 1
PROPERTIES JobsEnd
INVARIANTS DoneIsDescribed
