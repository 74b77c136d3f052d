\* One company and two invocations over three days, each a digest or an onboarding test,
\* and answers of every kind: companies do not disturb each other.
CONSTANTS
    Orgs = {o1}
    Digests = {d1, d2}
    Answers = {"snooze", "badfit", "contacted"}
    CooldownDays = {1, 2}
    SnoozeDays = 1
    MaxSnoozeDays = 2
    BadfitDays = 2
    MaxDay = 3
    Forever = 9
    NoDigest = NoDigest
SPECIFICATION DigestSpec
SYMMETRY Symmetry
INVARIANTS
    CooldownIsTheLongest
PROPERTIES
    AnswersKeepTheirEffect
\* The days are over.
CHECK_DEADLOCK FALSE
