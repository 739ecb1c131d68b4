SPECIFICATION FairSpec
CONSTANTS
    Requests = {a}
    Timer = timer
    MaxRows = 1
    MaxAttempts = 1
    RowOf <- OneRow
    Mismatched = {}
    HasHub = TRUE
    Handlers = {"verify", "webhook", "poll", "reconcile", "cancelCheckout", "createCheckout", "supersede"}
    Crashes = FALSE
PROPERTIES
    Decided
CHECK_DEADLOCK FALSE
