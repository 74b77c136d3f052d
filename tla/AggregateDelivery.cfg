\* Two deliverers race for one run, with two subscriptions and an email.
CONSTANTS
    Runs = {r1}
    Deliverers = {w1, w2}
    Subs = {s1, s2}
    Days <- TwoDays
    MaxPushAttempts = 2
    None = None
SPECIFICATION Spec
SYMMETRY Symmetry
INVARIANTS
    RetryableIsUnsent
    OkReportIsTrue
PROPERTIES
    ChannelsSendOnce
\* The delivery ends: nothing is left to do once everybody is through.
CHECK_DEADLOCK FALSE
