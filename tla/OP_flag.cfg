SPECIFICATION Spec
CONSTANTS
    Requests = {a}
    Timer = timer
    MaxRows = 1
    MaxAttempts = 1
    RowOf <- OneRow
    Mismatched = {}
    HasHub = TRUE
    Handlers = {"createCheckout", "webhook", "reconcile"}
    Crashes = FALSE
INVARIANTS
    LateCaptureIsFlagged
CHECK_DEADLOCK FALSE
