SPECIFICATION FairSpec
CONSTANTS
    a = a
    b = b
    Requests <- MCRequests
    OpenFor = 2
    MinRequests = 2
    FailurePercent = 50
    MaxCount = 3
    MaxStall = 1
PROPERTIES ProbesSpaced ClosedByNewestProbe Recovers
