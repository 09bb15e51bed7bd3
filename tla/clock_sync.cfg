\* A machine that boots in half a minute or more.
SPECIFICATION Spec
CONSTANTS
    Calls = {0, 1}
    Launches = {1, 3}
    Boots = {3, 4, 6}
    Reboots = {3, 6}
    Jobs = {0, 1}
INVARIANTS FreshComesUpLatest
CHECK_DEADLOCK FALSE
