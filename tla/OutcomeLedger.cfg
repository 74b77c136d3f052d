\* Two versions of the scoring, four events in all, one of them at most on the second opportunity.
CONSTANTS
    v1 = v1
    v2 = v2
    Versions = {v1, v2}
    MaxEvents <- ManyAndOne
    MaxTotal = 4
    MaxTime = 1
    NoProjection = NoProjection
SPECIFICATION OutcomeSpec
INVARIANTS
    ReplayAgrees
    HistoryIsLegal
PROPERTIES
    DecisionsOutliveJobs
CHECK_DEADLOCK FALSE
