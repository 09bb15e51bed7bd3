\* The longest calls, and boots about as long as the waits are made for.
SPECIFICATION Spec
CONSTANTS
    Calls = {0, 4}
    Launches = {1, 15, 29, 30, 31}
    Boots = {1, 2, 3, 4, 5, 10, 11, 12, 14}
    Reboots = {1, 5, 6, 23, 24}
    Jobs = {0, 1}
INVARIANTS TypeOK UpdateTaken OpensToServer SyncsWhenQuick
PROPERTIES StopsOnlyHung SyncsUnnamed
CHECK_DEADLOCK FALSE
