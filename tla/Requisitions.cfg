SPECIFICATION PartsSpec
CONSTANTS
    None = None
    Requests = {a, b}
    Requisition = {r1, r2}
    MaxQty = 2
    Asked = {2}
    Approvals = {None, 1}
    Allocations = {None, 1}
    Transport = {TRUE, FALSE}
    MaxOvertaken = 1
    MaxEdition = 1
    WarehouseStock = 2
    Hubs = {hub, warehouse}
    Warehouse = warehouse
    Amounts = {1}
    Start = 1
    MaxStock = 2
SYMMETRY Alike
INVARIANTS
    StockIsLedgered
    AllocatedIsReserved
    ReceivedWasDispatched
    StockHolds
CHECK_DEADLOCK FALSE
