\* Instances that follow one another as rotations launch them, runs that do
\* not overlap, one of them cut off.
SPECIFICATION Spec
CONSTANTS
    Instances = {i1, i2}
    Jobs = {"boot"}
    Serial = TRUE
    Faults = {"kill"}
    MaxFaults = 1
    MaxCerts = 2
CONSTRAINT InTurn
PROPERTIES OnlyFirstContacts
