SPECIFICATION Spec
CONSTANTS
    MaxInFlight = 1
    MaxRequests = 3
    MaxFaults = 0
PROPERTY VerifiedMeansShredded
