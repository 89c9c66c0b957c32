SPECIFICATION FairSpec
CONSTANTS
    Instance = {1, 2}
    TenantOf <- MCOneTenant
    maxInstancesPerTenant = 0
    maxConcurrentSyncs = 1
    MaxStarts = 2
    MaxChanges = 2
    MaxFailures = 1
PROPERTIES StatusFollowed ShutdownCompletes
CHECK_DEADLOCK FALSE
