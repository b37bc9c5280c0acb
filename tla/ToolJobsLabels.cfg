SPECIFICATION Spec
CONSTANTS
    w1 = w1
    w2 = w2
    l1 = l1
    l2 = l2
    a1 = a1
    Nobody = Nobody
    MaxJobs = 1
    Labels = {l1, l2}
    LabelsOf <- LongList
    Workers = {w1, w2}
    Admins = {a1}
    Wishes <- PauseOrCancel
    Slots = 2
    MaxLosses = 1
SYMMETRY SameWorkers
INVARIANTS TypeOK OneAgentPerJob DoneIsDescribed NothingLeftBehind

