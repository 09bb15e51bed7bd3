\* One invocation at a time, fair, with every kind of fault.
SPECIFICATION FairSpec
CONSTANTS
    Regions = {r1, r2}
    Instances = {i1, i2, i3, i4}
    Windows = {}
    Invocations = {l1}
    NoRegion = NoRegion
    NoInstance = NoInstance
    Faults = {"api", "lost", "boot", "post", "discord", "kill", "sg", "apply"}
    MaxFaults = 1
PROPERTIES Recovers RunsEnd
