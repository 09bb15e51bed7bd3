SPECIFICATION FairSpec
CONSTANTS
    MaxTries = 2
    Faults = {"login", "connect", "drop", "invalid", "refuse", "busy", "send"}
    MaxFaults = 3
INVARIANTS TypeOK NoRepeat Persists OneWaits
PROPERTIES KeepsAnnouncement ReadyEnds Announces
CHECK_DEADLOCK FALSE
