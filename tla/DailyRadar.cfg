\* Two granted invocations and two profiles: takeover in the middle of the loop.
CONSTANTS
    Workers = {w1, w2}
    Profiles = {p1, p2}
    MaxDailyAttempts = 2
    MaxProfileAttempts = 2
    None = None
SPECIFICATION Spec
SYMMETRY Symmetry
INVARIANTS
    RunningProfilesAreFenced
    CompletedRunHasNoOpenProfile
    OneDigestRunDelivered
    CompletedReplyIsDurable
\* The date ends: nothing is left to do once the run is final.
CHECK_DEADLOCK FALSE
