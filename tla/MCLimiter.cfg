SPECIFICATION FairSpec
CONSTANTS
    a = a
    b = b
    c = c
    Requests <- MCRequests
    Weight <- MCWeight
    MaxWeight = 2
    Limits = {2, 3}
    QueueMaxes = {0, 2}
    Impatient = {a, c}
    MaxReloads = 2
INVARIANT LimiterInv
PROPERTIES KeepsPromise ParkedIsAdmitted
