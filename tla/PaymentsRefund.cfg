\* One order, one invocation at a time, two refunds of a half or all of its price.
CONSTANTS
    Orders <- OneOrder
    Workers = {x1}
    Refunds = {r1, r2}
    Duration <- OneTick
    Price = 2
    MaxTime = 1
    MaxFaults = 2
    None = None
SPECIFICATION FairSpec
INVARIANTS
    MoneyIsReal
PROPERTIES
    CapturedIsGranted
CHECK_DEADLOCK FALSE
