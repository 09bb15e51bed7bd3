\* One upload that fails.
SPECIFICATION Spec
CONSTANTS
    Instances = {i1, i2}
    Jobs = {"boot"}
    Serial = TRUE
    Faults = {"upload"}
    MaxFaults = 1
    MaxCerts = 2
INVARIANTS FreshInstancesServe
