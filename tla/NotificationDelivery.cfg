\* Two runs on one route, a faulty caller and a retry queue that takes one at a time.
CONSTANTS
    Owners = {o1}
    OwnerOf <- OwnedByOne
    Runs = {r1, r2}
    Routes = {tg}
    Telegram = {tg}
    Keys <- AllKeys
    Callers = {c1}
    Crons = {k1}
    Faulty = {c1}
    MaxAttempts = 2
    Limit = 1
    RunIdFits = TRUE
    None = None
    r1 = r1
    r2 = r2
    tg = tg
    vk = vk
    o1 = o1
    o2 = o2
SPECIFICATION FairSpec
INVARIANTS
    VerdictsMatchProvider
    FailedJobHasAttemptLeft
    DeletedOwnerHasNoOpenJob
PROPERTIES
    SendsOnce
    DisconnectIsLasting
    SendingEnds
    FailedIsRetried
