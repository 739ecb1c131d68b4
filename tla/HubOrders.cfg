SPECIFICATION HiredSpec
CONSTANTS
    None = None
    Requests = {a, b}
    Orders = {o1, o2}
    Drivers = {d1, d2}
    Vehicles = {v1}
    MaxIrregular = 1
SYMMETRY Alike
INVARIANTS
    DeliveredWithCode
    StockFollowsOrders
    OutForAReason
CHECK_DEADLOCK FALSE
