SPECIFICATION Spec
CONSTANTS
    Requests = {a}
    Timer = timer
    MaxRows = 1
    MaxAttempts = 1
    RowOf <- OneRow
    Mismatched = {}
    HasHub = TRUE
    Handlers = {"verify", "badVerify", "webhook", "reconcile", "createCheckout", "payCash", "customerCancel"}
    Crashes = TRUE
INVARIANTS
    RefundOnlyWhenDue
    IInv
PROPERTIES
    KeepsPromise
CHECK_DEADLOCK FALSE
