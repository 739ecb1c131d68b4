-------------------------- MODULE MC_Requisitions --------------------------
(***************************************************************************)
(* One run over two instances about the stock of hubs, of which a behaviour*)
(* chooses one at the start and leaves the other at rest:                  *)
(*   "requisitions"  two requisitions for one material;                    *)
(*   "inventory"     the stock of a hub and of the warehouse.              *)
(***************************************************************************)
EXTENDS Requisitions, TLC

CONSTANTS Hubs, Warehouse, Amounts, Start, MaxStock    \* of HubInventory

VARIABLES part, hubAvailable, hubReserved, hubRequest, inFlow, raced

inventoryVars == <<hubAvailable, hubReserved, hubRequest, inFlow, raced>>

Inventory == INSTANCE HubInventory WITH
    availableQty <- hubAvailable, reservedQty <- hubReserved, request <- hubRequest

ASSUME InventoryAssumption == Inventory!ConstantsFit

PartsInit == part \in {"requisitions", "inventory"} /\ Init /\ Inventory!Init

PartsNext ==
    \/ part = "requisitions" /\ Next /\ UNCHANGED <<part, inventoryVars>>
    \/ part = "inventory" /\ Inventory!Next /\ UNCHANGED <<part, vars>>

PartsSpec == PartsInit /\ [][PartsNext]_<<part, vars, inventoryVars>>

Alike == Permutations(Requests) \cup Permutations(Requisition)

(* HubInventory: stock is neither lost nor made, and no hub owes any, unless *)
(* a number computed from a stale read was written (adjust, adjustInventory) *)
(* or a row had changed after its check (transfer, placeOrder).              *)
StockHolds == Inventory!StockHolds
=============================================================================
