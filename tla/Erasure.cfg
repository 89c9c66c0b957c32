SPECIFICATION FairSpec
CONSTANTS
    MaxInFlight = 2
    MaxRequests = 3
    MaxFaults = 2
INVARIANT RerunErases
PROPERTY EventuallyErased
