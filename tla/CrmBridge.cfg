\* Three requests for one delivery, two credentials, one event of the CRM with two bodies.
CONSTANTS
    Attempts = {a1, a2, a3}
    Events = {e1}
    Bodies = {b1, b2}
    MaxCredentials = 2
    None = None
SPECIFICATION Spec
SYMMETRY Symmetry
INVARIANTS
    SucceededIsReceived
    ToldIsRecorded
    OneBodyUntilSettled
    ReceiptsMatchLedger
CHECK_DEADLOCK FALSE
