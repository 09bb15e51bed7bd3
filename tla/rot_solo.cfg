\* One invocation at a time, with every kind of fault.
SPECIFICATION Spec
CONSTANTS
    Regions = {r1, r2}
    Instances = {w, i1, i2, i3, i4}
    Windows = {w}
    Invocations = {l1}
    NoRegion = NoRegion
    NoInstance = NoInstance
    Faults = {"api", "lost", "boot", "discord", "post", "kill", "sg", "apply"}
    MaxFaults = 2
SYMMETRY Symmetry
INVARIANTS TypeOK CompletedRunHeals GateClosedUntilNamed
PROPERTIES AnnounceCurrent KeepsService MovesRegion RevokeSparesLive
