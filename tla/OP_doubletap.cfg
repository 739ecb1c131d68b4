SPECIFICATION Spec
CONSTANTS
    Requests = {a, b}
    Timer = timer
    MaxRows = 2
    MaxAttempts = 1
    RowOf <- OneRow
    Mismatched = {}
    HasHub = TRUE
    Handlers = {"createCheckout"}
    Crashes = FALSE
INVARIANTS
    OneReusableRow
CHECK_DEADLOCK FALSE
