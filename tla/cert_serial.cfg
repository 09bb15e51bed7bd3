\* Runs that do not overlap, two instances, one fault of any kind.
SPECIFICATION Spec
CONSTANTS
    Instances = {i1, i2}
    Jobs = {"boot", "daily"}
    Serial = TRUE
    Faults = {"download", "issue", "upload", "kill"}
    MaxFaults = 1
    MaxCerts = 2
SYMMETRY Symmetry
INVARIANTS TypeOK OkMeansServing
PROPERTIES DiskNeverOlder CacheNeverOlder IssuesOnce KeepsStore
