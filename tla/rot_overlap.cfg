\* Two invocations that overlap.
SPECIFICATION Spec
CONSTANTS
    Regions = {r1, r2}
    Instances = {i1, i2, i3, i4}
    Windows = {}
    Invocations = {l1, l2}
    NoRegion = NoRegion
    NoInstance = NoInstance
    Faults = {}
    MaxFaults = 0
SYMMETRY Symmetry
INVARIANTS PredecessorsRetired
