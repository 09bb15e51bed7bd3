\* Fair; updates that may overlap, every fault.
SPECIFICATION FairSpec
CONSTANTS
    Updates = {u1, u2}
    Activities = {a1}
    Faults = {"flush", "nft", "reboot", "send", "bot", "init6"}
    MaxFaults = 2
    MaxStarts = 3
INVARIANTS TypeOK NamedAfterReboot ImageGuarded OkMeansNamed OpenOnlyUnnamed
PROPERTIES FirewallKept KeepsNaming UpdateSettles RequestsEnd
CHECK_DEADLOCK FALSE
