\* Two orders of one owner, two invocations at a time and a refund.
CONSTANTS
    Orders <- TwoOrders
    Workers = {x1, x2}
    Refunds = {r1}
    Duration <- TwoTicks
    Price = 1
    MaxTime = 1
    MaxFaults = 1
    None = None
SPECIFICATION Spec
SYMMETRY Symmetry
INVARIANTS
    ProcessedIsGranted
    AccessIsOneChain
PROPERTIES
    AccessEndsByRefund
CHECK_DEADLOCK FALSE
