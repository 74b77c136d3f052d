\* Two deliverers race for one run of a customer with two bots.
CONSTANTS
    Runs = {r1}
    Deliverers = {w1, w2}
    Bots = {b1, b2}
    MaxPosts = 2
    None = None
SPECIFICATION Spec
SYMMETRY Symmetry
INVARIANTS
    VerdictsAreTrue
    OkReportIsTrue
PROPERTIES
    BotsSendOnce
    FinalRowsStay
\* The delivery ends: nothing is left to do once everybody is through.
CHECK_DEADLOCK FALSE
