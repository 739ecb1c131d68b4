---------------------------- MODULE HubInventory ----------------------------
(***************************************************************************)
(* The stock of one product at several hubs (hub_inventory), written side  *)
(* by side by the hub's and the administrator's screens, by placements and *)
(* by orders that end (src/hub/inventory/hub-inventory.service.ts and the  *)
(* services the actions name).                                             *)
(*                                                                         *)
(* Of these writers some add to what is there, some write what they were   *)
(* told, and some write a number they have computed from a read.  A        *)
(* statement is a step, and so is a transaction, unless it reads without a *)
(* lock: then the read is a step of its own.                               *)
(*                                                                         *)
(* Left out: the hub without a row, which an upsert makes one of zeros;    *)
(* the row of a transfer, which nothing reads; thresholds and messages.    *)
(* What requisitions do to these rows under their locks is in              *)
(* Requisitions.                                                           *)
(***************************************************************************)
EXTENDS Integers, FiniteSets, FiniteSetsExt

CONSTANTS
    None,        \* SQL null
    Requests,    \* requests that may be running at the same time
    Hubs,
    Warehouse,   \* the hub whose stock the administrator adjusts
    Amounts,     \* bound on the quantities in the requests
    Start,       \* availableQty of a hub at the start
    MaxStock     \* bound on the stock of all hubs

(* What the theorems ask of the constants; an instance states it as ASSUME.  *)
ConstantsFit ==
    /\ IsFiniteSet(Hubs)
    /\ Warehouse \in Hubs
    /\ Amounts \subseteq Nat
    /\ Start \in Nat
    /\ None \notin Int
    /\ None \notin Hubs
    /\ None \notin Requests

VARIABLES
    availableQty,
    reservedQty,
    request,     \* the frame of each request
    inFlow,      \* history: what there was, came in and went out, as reported;
                 \* None once a number computed from a stale read was written
    raced        \* history: hubs that were taken from after the check had become stale

vars == <<availableQty, reservedQty, request, inFlow, raced>>

-----------------------------------------------------------------------------
\* sum is the number to be written; stale whether the row has been written since
\* it was read.
Idle == [op |-> "none", hub |-> None, to |-> None, qty |-> 0, sum |-> 0,
         reserved |-> None, stale |-> FALSE]

Init ==
    /\ availableQty = [h \in Hubs |-> Start]
    /\ reservedQty = [h \in Hubs |-> 0]
    /\ request = [w \in Requests |-> Idle]
    /\ inFlow = Start * Cardinality(Hubs)
    /\ raced = {}

\* What the two columns of each hub hold, and what all hubs do.
Units == [h \in Hubs |-> availableQty[h] + reservedQty[h]]
Stock == MapThenSumSet(LAMBDA h : Units[h], Hubs)

\* A request w has read the row of hub f.hub.
Read(w, f) ==
    /\ request[w] = Idle
    /\ request' = [request EXCEPT ![w] = f]
    /\ UNCHANGED <<availableQty, reservedQty, inFlow, raced>>

\* w ends, or None writes, and the rows of these hubs change under the others.
Written(w, hubs) ==
    request' = [v \in Requests |->
        IF v = w THEN Idle
        ELSE IF request[v].hub \in hubs THEN [request[v] EXCEPT !.stale = TRUE]
        ELSE request[v]]

At(w, op) == request[w].op = op

Report(n) == inFlow' = IF inFlow = None THEN None ELSE inFlow + n

-----------------------------------------------------------------------------
(* The hub's screens. *)

Receive(h, q) ==
    /\ Stock + q <= MaxStock
    /\ availableQty' = [availableQty EXCEPT ![h] = @ + q]
    /\ Report(q)
    /\ Written(None, {h})
    /\ UNCHANGED <<reservedQty, raced>>

AdjustRead(w, h, n) ==
    /\ availableQty[h] + n >= 0
    /\ Stock + n <= MaxStock
    /\ Read(w, [Idle EXCEPT !.op = "adjust", !.hub = h, !.qty = n,
                            !.sum = availableQty[h] + n])

(* A number computed from a read, of which n is news.                         *)
ReportRead(f, n) == IF f.stale THEN inFlow' = None ELSE Report(n)

Adjust(w) ==
    LET f == request[w]
    IN  /\ At(w, "adjust")
        /\ availableQty' = [availableQty EXCEPT ![f.hub] = f.sum]
        /\ ReportRead(f, f.qty)
        /\ Written(w, {f.hub})
        /\ UNCHANGED <<reservedQty, raced>>

TransferRead(w, h, to, q) ==
    /\ h # to
    /\ availableQty[h] >= q
    /\ Read(w, [Idle EXCEPT !.op = "transfer", !.hub = h, !.to = to, !.qty = q])

\* Whatever is taken from hub f.hub was there when the row was read.
Takes(f) == raced' = IF f.stale THEN raced \cup {f.hub} ELSE raced

(* One transaction; neither of its updates has a condition. *)
Transfer(w) ==
    LET f == request[w]
    IN  /\ At(w, "transfer")
        /\ availableQty' = [availableQty EXCEPT ![f.hub] = @ - f.qty, ![f.to] = @ + f.qty]
        /\ Takes(f)
        /\ Written(w, {f.hub, f.to})
        /\ UNCHANGED <<reservedQty, inFlow>>

-----------------------------------------------------------------------------
(* Screens that write the number they are told. *)

SetStock(h, q, r) ==
    LET reserved == IF r = None THEN reservedQty[h] ELSE r
        change == q - availableQty[h] + reserved - reservedQty[h]
    IN  /\ Stock + change <= MaxStock
        /\ availableQty' = [availableQty EXCEPT ![h] = q]
        /\ reservedQty' = [reservedQty EXCEPT ![h] = reserved]
        /\ Report(change)
        /\ Written(None, {h})
        /\ UNCHANGED raced

\* ... the hub's inventory, its products, the administrator's hub and product.
Update(h, q) == SetStock(h, q, None)
UpdateStock(h, q) == SetStock(h, q, None)
AddInventory(h, q) == SetStock(h, q, None)
UpdateInventory(h, q, r) == SetStock(h, q, r)

\* The warehouse's row is read without a lock, for the ledger entry.
AdjustInventoryRead(w, q, r) ==
    Read(w, [Idle EXCEPT !.op = "adjustInventory", !.hub = Warehouse,
                         !.qty = q - availableQty[Warehouse], !.sum = q, !.reserved = r])

(* The entry says qty, whatever the row has become since.                     *)
AdjustInventory(w) ==
    LET f == request[w]
        reserved == IF f.reserved = None THEN reservedQty[f.hub] ELSE f.reserved
        change == reserved - reservedQty[f.hub]
    IN  /\ At(w, "adjustInventory")
        /\ Stock - availableQty[f.hub] + f.sum + change <= MaxStock
        /\ availableQty' = [availableQty EXCEPT ![f.hub] = f.sum]
        /\ reservedQty' = [reservedQty EXCEPT ![f.hub] = reserved]
        /\ ReportRead(f, f.qty + change)
        /\ Written(w, {f.hub})
        /\ UNCHANGED raced

-----------------------------------------------------------------------------
(* Orders. *)

\* In its transaction a placement reads the row; the order number keeps other
\* placements out, but nobody else.
TakeStockRead(w, h, q) ==
    /\ \A v \in Requests : ~At(v, "place")
    /\ availableQty[h] >= q
    /\ Read(w, [Idle EXCEPT !.op = "place", !.hub = h, !.qty = q])

TakeStock(w) ==
    LET f == request[w]
    IN  /\ At(w, "place")
        /\ availableQty' = [availableQty EXCEPT ![f.hub] = @ - f.qty]
        /\ reservedQty' = [reservedQty EXCEPT ![f.hub] = @ + f.qty]
        /\ Takes(f)
        /\ Written(w, {f.hub})
        /\ UNCHANGED inFlow

(* Mutant: what is available goes up whether anything was reserved or not. *)
MutantReturnStock(h, q) ==
    /\ Stock + q <= MaxStock
    /\ availableQty' = [availableQty EXCEPT ![h] = @ + q]
    /\ reservedQty' = [reservedQty EXCEPT ![h] = IF @ >= q THEN @ - q ELSE @]
    /\ Written(None, {h})
    /\ UNCHANGED <<inFlow, raced>>

\* Releases, cancellations and the hub's rejection: guarded, or no row is found.
ReturnStock(h, q) ==
    /\ reservedQty[h] >= q
    /\ availableQty' = [availableQty EXCEPT ![h] = @ + q]
    /\ reservedQty' = [reservedQty EXCEPT ![h] = @ - q]
    /\ Written(None, {h})
    /\ UNCHANGED <<inFlow, raced>>

ConsumeReservedStock(h, q) ==
    /\ reservedQty[h] >= q
    /\ reservedQty' = [reservedQty EXCEPT ![h] = @ - q]
    /\ Report(-q)
    /\ Written(None, {h})
    /\ UNCHANGED <<availableQty, raced>>

-----------------------------------------------------------------------------
Next ==
    \/ \E w \in Requests :
          \/ Adjust(w) \/ Transfer(w) \/ AdjustInventory(w) \/ TakeStock(w)
          \/ \E q \in Amounts, r \in Amounts \cup {None} : AdjustInventoryRead(w, q, r)
          \/ \E h \in Hubs, q \in Amounts :
                \/ AdjustRead(w, h, q) \/ AdjustRead(w, h, -q)
                \/ TakeStockRead(w, h, q)
                \/ \E to \in Hubs : TransferRead(w, h, to, q)
    \/ \E h \in Hubs, q \in Amounts :
          \/ Receive(h, q) \/ ReturnStock(h, q) \/ ConsumeReservedStock(h, q)
          \/ Update(h, q) \/ UpdateStock(h, q) \/ AddInventory(h, q)
          \/ \E r \in Amounts \cup {None} : UpdateInventory(h, q, r)

Spec == Init /\ [][Next]_vars

-----------------------------------------------------------------------------
(* Properties. *)

(* Unless a number computed from a stale read has been written (adjust,       *)
(* adjustInventory), the stock of all hubs is what there was and what the     *)
(* screens and the deliveries have reported since: a transfer, a placement    *)
(* and a return move stock between rows and columns, and lose and make none.  *)
StockAddsUp == inFlow # None => Stock = inFlow

(* No hub owes stock, unless a transfer or a placement took from a row that   *)
(* had changed since it was checked: these checks are the only protection,    *)
(* the decrements have no condition of their own.                             *)
NotOverdrawn == \A h \in Hubs \ raced : availableQty[h] >= 0

(* Both: no unit is lost, made or owed but by a write that was computed or    *)
(* checked against a row that had changed.                                    *)
StockHolds == StockAddsUp /\ NotOverdrawn
=============================================================================
