SPECIFICATION FairSpec
CONSTANTS
    None = None
    Requests = {a, b}
    Orders = {1, 2, 3}
    Asha = Asha
    Binu = Binu
    Cement = Cement
    Sand = Sand
    Customers = {Asha, Binu}
    Products = {Cement, Sand}
    CustomerOf <- OrderCustomer
    Wants <- Carts
    KeyOf <- Keys
    Online = {1, 3}
    ByBike = {1, 2, 3}
    HubStock <- TwoOfEach
    VariantStock <- CountedCement
    Tracked = {Cement}
    totalAllowed = 1
    Handlers = {"place", "release"}
    Crashes = TRUE
INVARIANTS
    ReservedCoversOrders
PROPERTIES
    PlacementsEnd
CHECK_DEADLOCK FALSE
