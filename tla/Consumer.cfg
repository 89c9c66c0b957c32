\* An upsert and a tombstone of one document, a poison document, and a record
\* with a bad header.
SPECIFICATION FairSpec
CONSTANTS
    Members = {m1, m2}
    Record = {"upsert", "tombstone", "poison", "malformed"}
    Doc = {"d"}
    DocOf <- MCDocOf
    Malformed = {"malformed"}
    Poison = {"poison"}
    Tombstone = {"tombstone"}
    Nobody = Nobody
    MaxLog = 2
    MaxFaults = 3
INVARIANTS AtLeastOnce OrderUnlessStolen
PROPERTIES ImplementsDelivery EveryRecordSettled
CHECK_DEADLOCK FALSE
