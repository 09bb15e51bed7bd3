\* Fair, runs that do not overlap, one fault of any kind.
SPECIFICATION FairSpec
CONSTANTS
    Instances = {i1, i2}
    Jobs = {"boot"}
    Serial = TRUE
    Faults = {"download", "issue", "upload", "kill"}
    MaxFaults = 1
    MaxCerts = 3
PROPERTIES CacheHeals FreshServed
