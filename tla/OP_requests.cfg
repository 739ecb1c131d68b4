SPECIFICATION Spec
CONSTANTS
    Requests = {a, b}
    Timer = timer
    MaxRows = 1
    MaxAttempts = 2
    RowOf <- OneRow
    Mismatched = {2}
    HasHub = FALSE
    Handlers = {"verify", "cancelCheckout", "payCash", "customerCancel", "createCheckout"}
    Crashes = FALSE
SYMMETRY NoRace
INVARIANTS
    CancelledIsReturned
CHECK_DEADLOCK FALSE
