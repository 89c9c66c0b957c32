SPECIFICATION Spec
CONSTANTS
    Instance = {1, 2, 3}
    TenantOf <- MCTwoTenants
    maxInstancesPerTenant = 1
    maxConcurrentSyncs = 2
    MaxStarts = 2
    MaxChanges = 3
    MaxFailures = 1
INVARIANTS OnePassPerInstance SlotsAccounted CapOnWorkers ReturnsDrained
CHECK_DEADLOCK FALSE
