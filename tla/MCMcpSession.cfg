SPECIFICATION LiveSpec
CONSTANTS
    Ids = {i1, i2}
    Inputs <- MCInputs
    MaxUses = 3
    MaxFaults = 1
    MAX_IN_FLIGHT_REQUESTS = 2
    MAX_SESSION_REQUEST_IDS = 2
    MAX_BLOCKING_STORE_CALLS = 1
INVARIANTS
    SlotsSound
    FamiliesSound
PROPERTY
    EveryRequestSettled
