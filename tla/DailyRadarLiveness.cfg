\* More granted invocations than the limits admit: what happens at and past them, and,
\* under FairSpec, that no attempt hangs.  No symmetry, which is unsound for liveness.
CONSTANTS
    Workers = {w1, w2, w3}
    Profiles = {p1}
    MaxDailyAttempts = 2
    MaxProfileAttempts = 2
    None = None
SPECIFICATION FairSpec
PROPERTIES
    NoAttemptHangs
\* The date ends: nothing is left to do once the run is final.
CHECK_DEADLOCK FALSE
