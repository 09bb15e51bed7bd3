\* One invocation at a time, one failed call: what the name stands for when
\* no rotation is under way.
SPECIFICATION Spec
CONSTANTS
    Regions = {r1, r2}
    Instances = {i1, i2, i3}
    Windows = {}
    Invocations = {l1}
    NoRegion = NoRegion
    NoInstance = NoInstance
    Faults = {"api"}
    MaxFaults = 1
INVARIANTS DnsNamesActiveInstance
