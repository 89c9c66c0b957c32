SPECIFICATION Spec
CONSTANTS
    Client = {c1, c2}
    Tenant = {1, 2}
    Id = {1, 2, 3, 4}
    maxInstances = 2
    limit = 1
INVARIANTS QuotaHeld NoOrphans ListingComplete
PROPERTIES TenantsApart Atomic CallsEnd
CHECK_DEADLOCK FALSE
