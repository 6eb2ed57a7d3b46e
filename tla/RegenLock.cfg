SPECIFICATION FairSpec
CONSTANTS
    Jobs = {j1, j2}
    Requests = {r1, r2}
PROPERTY RequestEnds
CHECK_DEADLOCK FALSE
