--------------------------- MODULE OrderPlacement ---------------------------
(***************************************************************************)
(* Placing orders at one hub, and giving them up: OrdersService.placeOrder *)
(* with its interactive transaction, releaseUnpaidOnlineOrder and cancel   *)
(* (src/modules/orders/orders.service.ts), and the free bike deliveries    *)
(* they consume and restore (src/modules/delivery/                         *)
(* delivery-benefit.service.ts).                                           *)
(*                                                                         *)
(* PostgreSQL runs the transactions under READ COMMITTED: a statement sees *)
(* what had been committed when it began, and a row that was updated stays *)
(* locked until the end of the transaction. placeOrder checks stock with a *)
(* plain read and takes it with a blind decrement (hub stock) or an        *)
(* absolute write (variants); what makes that sound is its first           *)
(* statement, which updates the order number's row and so makes placements *)
(* wait for each other. Here a transaction's writes are collected in the   *)
(* request's frame and applied by its last step.                           *)
(*                                                                         *)
(* Left out: prices, points and delivery slots of the order, other hubs,   *)
(* the inventory screens that write stock directly, and the turn of the    *)
(* year, at which two placements would lock different rows.                *)
(***************************************************************************)
EXTENDS Integers, FiniteSets, FiniteSetsExt

CONSTANTS
    None,         \* no request, no order, no key
    Requests,     \* requests that may be running at the same time
    Orders,       \* placements that customers may ask for
    Customers,
    Products,
    CustomerOf,   \* who asks for an order
    Wants,        \* quantity of each product in a customer's full cart
    KeyOf,        \* idempotency key sent with an order, or None
    Online,       \* the orders to be paid online
    ByBike,       \* the orders a bike delivers
    HubStock,     \* availableQty of each product to begin with
    VariantStock, \* stock of each product's variant to begin with
    Tracked,      \* products whose variant keeps count of its stock
    totalAllowed, \* free bike deliveries of a customer
    Handlers,     \* the handlers this instance runs
    Crashes       \* whether the server may die outside a transaction

AllHandlers == {"place", "release", "cancel"}

ASSUME ConstantsAssumption ==
    /\ None \notin Requests \cup Orders
    /\ CustomerOf \in [Orders -> Customers]
    /\ Wants \in [Customers -> [Products -> Nat]]
    /\ \A c \in Customers : \E p \in Products : Wants[c][p] > 0
    /\ Online \subseteq Orders
    /\ ByBike \subseteq Orders
    /\ HubStock \in [Products -> Nat]
    /\ VariantStock \in [Products -> Nat]
    /\ Tracked \subseteq Products
    /\ \A p \in Products \ Tracked : VariantStock[p] = 0
    /\ totalAllowed \in Nat
    /\ Handlers \subseteq AllHandlers
    /\ Crashes \in BOOLEAN

VARIABLES
    lockedBy,       \* the transaction that holds the row of orderNumberSequence
    availableQty,   \* HubInventory of the hub, per product
    reservedQty,
    stock,          \* ProductVariant, one variant per product
    inStock,
    orderStatus,    \* Order.orderStatus, "none" before it is placed
    hubAssigned,    \* Order.hubId is not null
    cartFull,       \* whether the customer's cart holds what Wants says
    usedCount,      \* CustomerDeliveryBenefit.usedCount
    usage,          \* orders with a DeliveryBenefitUsage row
    request         \* the frame of each request

stockVars   == <<availableQty, reservedQty, stock, inStock>>
orderVars   == <<orderStatus, hubAssigned, cartFull>>
benefitVars == <<usedCount, usage>>
vars == <<lockedBy, stockVars, orderVars, benefitVars, request>>

-----------------------------------------------------------------------------
Statuses == {"none", "PENDING", "HUB_ASSIGNED", "AWAITING_HUB_ALLOCATION", "CANCELLED"}

CANCELLABLE_STATUSES == {"PENDING", "HUB_ASSIGNED", "AWAITING_HUB_ALLOCATION"}

Items(o) == {p \in Products : Wants[CustomerOf[o]][p] > 0}

Quantity(o, p) == Wants[CustomerOf[o]][p]

Placed == {o \in Orders : orderStatus[o] # "none"}

\* Orders of the same customer sent with the same idempotency key.
SameKey(o, x) ==
    CustomerOf[o] = CustomerOf[x] /\ KeyOf[o] = KeyOf[x] /\ KeyOf[o] # None

InTransaction == {"takeStock", "takeVariants", "commit"}

Labels == {"idle", "release", "prepare", "lock", "cancelTx", "findUsage",
           "deleteUsage", "restoreCount"} \cup InTransaction

Frame ==
    [pc        : Labels,
     order     : Orders \cup {None},       \* the order it places
     todo      : SUBSET Orders,            \* unpaid orders it has yet to release
     victim    : Orders \cup {None},       \* the order being given up
     hub       : BOOLEAN,                  \* routing found a hub that can fulfil
     free      : BOOLEAN,                  \* checkout granted a free bike delivery
     taken     : SUBSET Products,          \* items whose hub stock was checked
     read      : SUBSET Products,          \* items whose variant was read
     counted   : SUBSET Products,          \* those that keep count of their stock
     remaining : [Products -> Int]]        \* stock to be written to the variants

Idle == [pc |-> "idle", order |-> None, todo |-> {}, victim |-> None,
         hub |-> FALSE, free |-> FALSE, taken |-> {}, read |-> {}, counted |-> {},
         remaining |-> [p \in Products |-> 0]]

TypeOK ==
    /\ lockedBy \in Requests \cup {None}
    /\ availableQty \in [Products -> Int]
    /\ reservedQty \in [Products -> Nat]
    /\ stock \in [Products -> Int]
    /\ inStock \in [Products -> BOOLEAN]
    /\ orderStatus \in [Orders -> Statuses]
    /\ hubAssigned \in [Orders -> BOOLEAN]
    /\ cartFull \in [Customers -> BOOLEAN]
    /\ usedCount \in [Customers -> Nat]
    /\ usage \subseteq Orders
    /\ request \in [Requests -> Frame]

Init ==
    /\ lockedBy = None
    /\ availableQty = HubStock
    /\ reservedQty = [p \in Products |-> 0]
    /\ stock = VariantStock
    /\ inStock = [p \in Products |-> p \in Tracked => VariantStock[p] > 0]
    /\ orderStatus = [o \in Orders |-> "none"]
    /\ hubAssigned = [o \in Orders |-> FALSE]
    /\ cartFull = [c \in Customers |-> TRUE]
    /\ usedCount = [c \in Customers |-> 0]
    /\ usage = {}
    /\ request = [w \in Requests |-> Idle]

-----------------------------------------------------------------------------
(* Moving a request from one statement to the next. *)

At(w, pc) == request[w].pc = pc

Goto(w, frame) == request' = [request EXCEPT ![w] = frame]

Free(w, handler) == handler \in Handlers /\ At(w, "idle")

\* A request that is at work on order o.
PlacedBy(o) == {w \in Requests : request[w].order = o}

\* A placement turns to the next order it has to release.
NextVictim(f) == [f EXCEPT !.pc = "release", !.todo = @ \ {f.victim}, !.victim = None]

Unpaid(o) == o \in Online /\ orderStatus[o] = "PENDING"

-----------------------------------------------------------------------------
(* placeOrder, before its transaction. *)

\* The lookup by idempotency key found nothing; a cash order first releases the
\* customer's unpaid online orders.
PlaceOrder(w, o) ==
    /\ Free(w, "place")
    /\ orderStatus[o] = "none"
    /\ PlacedBy(o) = {}
    /\ ~\E x \in Placed : SameKey(o, x)
    /\ Goto(w, [Idle EXCEPT !.order = o,
                           !.todo = IF o \in Online THEN {}
                                    ELSE {x \in Placed : /\ CustomerOf[x] = CustomerOf[o]
                                                         /\ Unpaid(x)},
                           !.pc = "release"])
    /\ UNCHANGED <<lockedBy, stockVars, orderVars, benefitVars>>

\* prepareCheckout and the routing read cart, benefit and stock, no lock held.
Prepare(w) ==
    LET f == request[w]
        c == CustomerOf[f.order]
    IN  /\ At(w, "prepare")
        /\ Goto(w, IF ~cartFull[c] THEN Idle ELSE
                   [f EXCEPT
                      !.pc   = "lock",
                      !.free = f.order \in ByBike /\ usedCount[c] < totalAllowed,
                      !.hub  = \A p \in Items(f.order) :
                                  availableQty[p] >= Quantity(f.order, p)])
        /\ UNCHANGED <<lockedBy, stockVars, orderVars, benefitVars>>

-----------------------------------------------------------------------------
(* placeOrder's transaction. *)

(* Mutant: the order number is taken from a sequence that locks no row. *)
MutantNextOrderNumber(w) ==
    LET f == request[w]
    IN  /\ At(w, "lock")
        /\ lockedBy' = w
        /\ Goto(w, [f EXCEPT !.pc = IF f.hub THEN "takeStock" ELSE "takeVariants"])
        /\ UNCHANGED <<stockVars, orderVars, benefitVars>>

\* The upsert on the row of the year waits until no other placement holds it.
NextOrderNumber(w) ==
    LET f == request[w]
    IN  /\ At(w, "lock")
        /\ lockedBy = None
        /\ lockedBy' = w
        /\ Goto(w, [f EXCEPT !.pc = IF f.hub THEN "takeStock" ELSE "takeVariants"])
        /\ UNCHANGED <<stockVars, orderVars, benefitVars>>

(* Mutant: the transaction is left open. *)
MutantRollback(w) == Goto(w, Idle) /\ UNCHANGED lockedBy

\* The transaction is over without a trace.
Rollback(w) ==
    /\ lockedBy' = IF lockedBy = w THEN None ELSE lockedBy
    /\ Goto(w, Idle)

\* One item's hub stock: read, compared, then decremented by its quantity.
TakeStock(w, p) ==
    LET f == request[w]
    IN  /\ At(w, "takeStock")
        /\ p \in Items(f.order) \ f.taken
        /\ IF availableQty[p] < Quantity(f.order, p)
           THEN Rollback(w)
           ELSE /\ Goto(w, [f EXCEPT !.taken = @ \cup {p},
                                     !.pc = IF Items(f.order) \subseteq f.taken \cup {p}
                                            THEN "takeVariants" ELSE "takeStock"])
                /\ UNCHANGED lockedBy
        /\ UNCHANGED <<stockVars, orderVars, benefitVars>>

\* A variant that has stock, or is marked out of it, keeps count.
KeepsCount(p) == stock[p] > 0 \/ ~inStock[p]

\* One item's variant: read, compared, and its remaining stock written.
TakeVariant(w, p) ==
    LET f == request[w]
    IN  /\ At(w, "takeVariants")
        /\ p \in Items(f.order) \ f.read
        /\ IF KeepsCount(p) /\ stock[p] < Quantity(f.order, p)
           THEN Rollback(w)
           ELSE /\ Goto(w, [f EXCEPT
                       !.read = @ \cup {p},
                       !.counted = IF KeepsCount(p) THEN @ \cup {p} ELSE @,
                       !.remaining = [@ EXCEPT ![p] = stock[p] - Quantity(f.order, p)],
                       !.pc = IF Items(f.order) \subseteq f.read \cup {p}
                              THEN "commit" ELSE "takeVariants"])
                /\ UNCHANGED lockedBy
        /\ UNCHANGED <<stockVars, orderVars, benefitVars>>

(* Mutant: a variant stays in stock although none is left. *)
MutantWriteVariants(f) ==
    /\ stock' = [p \in Products |-> IF p \in f.counted THEN f.remaining[p] ELSE stock[p]]
    /\ UNCHANGED inStock

\* The variants are set to what was left when they were read.
WriteVariants(f) ==
    /\ stock' = [p \in Products |-> IF p \in f.counted THEN f.remaining[p] ELSE stock[p]]
    /\ inStock' = [p \in Products |-> IF p \in f.counted THEN f.remaining[p] > 0
                                      ELSE inStock[p]]

\* consumeFreeBikeDelivery: the counter is raised and a row remembers the order.
ConsumeFreeBikeDelivery(f) ==
    LET c == CustomerOf[f.order]
    IN  /\ usedCount' = [usedCount EXCEPT ![c] = IF f.free THEN @ + 1 ELSE @]
        /\ usage' = IF f.free THEN usage \cup {f.order} ELSE usage

(* Mutant: nothing keeps a customer's key unique. *)
MutantCommittable(f) == f.free => usedCount[CustomerOf[f.order]] < totalAllowed

\* The index on customer and key, and the free deliveries left, let it commit.
Committable(f) ==
    /\ ~\E x \in Placed : SameKey(f.order, x)
    /\ f.free => usedCount[CustomerOf[f.order]] < totalAllowed

\* The order is created, the cart emptied, the benefit consumed; it commits.
Commit(w) ==
    LET f == request[w]
        o == f.order
    IN  /\ At(w, "commit")
        /\ Committable(f)
        /\ availableQty' = [p \in Products |-> IF p \in f.taken
                               THEN availableQty[p] - Quantity(o, p) ELSE availableQty[p]]
        /\ reservedQty' = [p \in Products |-> IF p \in f.taken
                               THEN reservedQty[p] + Quantity(o, p) ELSE reservedQty[p]]
        /\ WriteVariants(f)
        /\ ConsumeFreeBikeDelivery(f)
        /\ orderStatus' = [orderStatus EXCEPT ![o] =
                CASE o \in Online             -> "PENDING"
                  [] o \notin Online /\ f.hub  -> "HUB_ASSIGNED"
                  [] o \notin Online /\ ~f.hub -> "AWAITING_HUB_ALLOCATION"]
        /\ hubAssigned' = [hubAssigned EXCEPT ![o] = f.hub]
        /\ cartFull' = [cartFull EXCEPT ![CustomerOf[o]] = FALSE]
        /\ lockedBy' = None
        /\ Goto(w, Idle)

\* A key already taken, a benefit used up in the meantime, the transaction's
\* time limit, or a crash of the server.
Abort(w) ==
    /\ request[w].pc \in InTransaction
    /\ Rollback(w)
    /\ UNCHANGED <<stockVars, orderVars, benefitVars>>

\* The time limit may also strike while the transaction waits for the row.
GiveUpWaiting(w) ==
    /\ At(w, "lock")
    /\ Goto(w, Idle)
    /\ UNCHANGED <<lockedBy, stockVars, orderVars, benefitVars>>

-----------------------------------------------------------------------------
(* Giving an order up. *)

(* Mutant: the reservation is lowered whatever the hub has reserved. *)
MutantReturn(o) == [p \in Products |-> IF hubAssigned[o] THEN Quantity(o, p) ELSE 0]

\* The stock of order o goes back, unless the hub has less of it reserved.
Return(o) == [p \in Products |->
    IF hubAssigned[o] /\ reservedQty[p] >= Quantity(o, p) THEN Quantity(o, p) ELSE 0]

ReturnStock(o) ==
    /\ availableQty' = [p \in Products |-> availableQty[p] + Return(o)[p]]
    /\ reservedQty' = [p \in Products |-> reservedQty[p] - Return(o)[p]]
    /\ UNCHANGED <<stock, inStock>>

\* releaseUnpaidOnlineOrder, called by a payment's timeout or its customer.
Release(w, o) ==
    /\ Free(w, "release")
    /\ o \in Placed
    /\ o \in Online
    /\ Goto(w, [Idle EXCEPT !.todo = {o}, !.pc = "release"])
    /\ UNCHANGED <<lockedBy, stockVars, orderVars, benefitVars>>

(* Mutant: the update is not restricted to unpaid orders. *)
MutantReleasable(o) == o \in Online

\* The WHERE of the update that releases.
Releasable(o) == Unpaid(o)

\* Its transaction: only an order that is still unpaid is cancelled.
ReleaseTx(w, o) ==
    LET f == request[w]
    IN  /\ At(w, "release")
        /\ o \in f.todo
        /\ IF Releasable(o)
           THEN /\ orderStatus' = [orderStatus EXCEPT ![o] = "CANCELLED"]
                /\ ReturnStock(o)
                /\ Goto(w, [f EXCEPT !.pc = "findUsage", !.victim = o])
           ELSE /\ Goto(w, [f EXCEPT !.todo = @ \ {o}])
                /\ UNCHANGED <<orderStatus, stockVars>>
        /\ UNCHANGED <<lockedBy, hubAssigned, cartFull, benefitVars>>

\* A placement goes on once its customer's unpaid orders are dealt with.
ReleasesDone(w) ==
    LET f == request[w]
    IN  /\ At(w, "release")
        /\ f.todo = {}
        /\ Goto(w, IF f.order = None THEN Idle ELSE [f EXCEPT !.pc = "prepare"])
        /\ UNCHANGED <<lockedBy, stockVars, orderVars, benefitVars>>

\* cancel: the status is checked before the transaction, not in it.
Cancel(w, o) ==
    /\ Free(w, "cancel")
    /\ orderStatus[o] \in CANCELLABLE_STATUSES
    /\ Goto(w, [Idle EXCEPT !.victim = o, !.pc = "cancelTx"])
    /\ UNCHANGED <<lockedBy, stockVars, orderVars, benefitVars>>

CancelTx(w) ==
    LET f == request[w]
    IN  /\ At(w, "cancelTx")
        /\ ReturnStock(f.victim)
        /\ orderStatus' = [orderStatus EXCEPT ![f.victim] = "CANCELLED"]
        /\ Goto(w, [f EXCEPT !.pc = "findUsage"])
        /\ UNCHANGED <<lockedBy, hubAssigned, cartFull, benefitVars>>

(* restoreFreeBikeDelivery, three statements of their own after the commit.  *)
FindUsage(w) ==
    LET f == request[w]
    IN  /\ At(w, "findUsage")
        /\ Goto(w, IF f.victim \in usage THEN [f EXCEPT !.pc = "deleteUsage"]
                                         ELSE NextVictim(f))
        /\ UNCHANGED <<lockedBy, stockVars, orderVars, benefitVars>>

(* Mutant: a row that somebody else has deleted is counted again. *)
MutantDeleteUsage(w) ==
    LET f == request[w]
    IN  /\ At(w, "deleteUsage")
        /\ Goto(w, [f EXCEPT !.pc = "restoreCount"])
        /\ usage' = usage \ {f.victim}
        /\ UNCHANGED <<lockedBy, stockVars, orderVars, usedCount>>

\* Deleting a row that is gone throws, and ends the request.
DeleteUsage(w) ==
    LET f == request[w]
    IN  /\ At(w, "deleteUsage")
        /\ Goto(w, IF f.victim \in usage THEN [f EXCEPT !.pc = "restoreCount"] ELSE Idle)
        /\ usage' = usage \ {f.victim}
        /\ UNCHANGED <<lockedBy, stockVars, orderVars, usedCount>>

RestoreCount(w) ==
    LET f == request[w]
        c == CustomerOf[f.victim]
    IN  /\ At(w, "restoreCount")
        /\ usedCount' = [usedCount EXCEPT ![c] = IF @ > 0 THEN @ - 1 ELSE @]
        /\ Goto(w, NextVictim(f))
        /\ UNCHANGED <<lockedBy, stockVars, orderVars, usage>>

-----------------------------------------------------------------------------
(* The payment is confirmed (confirmPaidOrder), the cart filled again.       *)
ConfirmPaidOrder(o) ==
    /\ Unpaid(o)
    /\ orderStatus' = [orderStatus EXCEPT ![o] =
            IF hubAssigned[o] THEN "HUB_ASSIGNED" ELSE "AWAITING_HUB_ALLOCATION"]
    /\ UNCHANGED <<lockedBy, stockVars, hubAssigned, cartFull, benefitVars, request>>

FillCart(c) ==
    /\ ~cartFull[c]
    /\ cartFull' = [cartFull EXCEPT ![c] = TRUE]
    /\ UNCHANGED <<lockedBy, stockVars, orderStatus, hubAssigned, benefitVars, request>>

\* The server dies while the request is between two transactions.
Crash(w) ==
    /\ Crashes
    /\ request[w].pc \notin InTransaction \cup {"idle"}
    /\ Goto(w, Idle)
    /\ UNCHANGED <<lockedBy, stockVars, orderVars, benefitVars>>

-----------------------------------------------------------------------------
(* The statements of a request that is under way.                            *)
Step(w) ==
    \/ Prepare(w) \/ NextOrderNumber(w) \/ Commit(w) \/ Abort(w)
    \/ \E p \in Products : TakeStock(w, p) \/ TakeVariant(w, p)
    \/ \E o \in Orders : ReleaseTx(w, o)
    \/ ReleasesDone(w) \/ CancelTx(w) \/ FindUsage(w) \/ DeleteUsage(w)
    \/ RestoreCount(w)

Next ==
    \/ \E w \in Requests :
          \/ Step(w) \/ GiveUpWaiting(w) \/ Crash(w)
          \/ \E o \in Orders : PlaceOrder(w, o) \/ Release(w, o) \/ Cancel(w, o)
    \/ \E o \in Orders : ConfirmPaidOrder(o)
    \/ \E c \in Customers : FillCart(c)

Spec == Init /\ [][Next]_vars

(* Fairness: the server executes every statement at last, and PostgreSQL     *)
(* hands a lock to one of those that wait for it, to each at last; nothing   *)
(* is expected of the time limit on a wait.                                  *)
FairSpec ==
    /\ Spec
    /\ \A w \in Requests : WF_vars(Step(w)) /\ SF_vars(NextOrderNumber(w))

-----------------------------------------------------------------------------
(* Properties. *)

(* No placement, however many race for the last of a product, takes the hub's *)
(* stock below zero, although availableQty is read without a lock and         *)
(* decremented without a guard (placeOrder).                                  *)
NotOversold == \A p \in Products : availableQty[p] >= 0

\* What the orders in S take of product p together.
Asked(S, p) ==
    LET quantity == [o \in S |-> Quantity(o, p)]
    IN  MapThenSumSet(LAMBDA o : quantity[o], S)

(* No order's share of a variant is lost: while a variant keeps count, the    *)
(* stock it shows is what it began with less every order ever placed,         *)
(* although placeOrder writes it as an absolute number it computed earlier.   *)
VariantsAddUp ==
    \A p \in Tracked :
        stock[p] = VariantStock[p] - Asked(Placed, p)

(* Each placement's share comes off what a variant has left at that moment,    *)
(* never below zero: the number placeOrder computed from its read is still    *)
(* the right one when it commits.                                             *)
VariantWriteIsFresh ==
    [][\A o \in Placed' \ Placed : \A p \in Items(o) :
          KeepsCount(p) => /\ stock'[p] = stock[p] - Quantity(o, p)
                           /\ stock'[p] >= 0]_vars

(* A retried placement never makes a second order: of two that race past the  *)
(* lookup with one key, at most one commits (placeOrder, Order's index).      *)
KeyOrdersOnce ==
    \A o, x \in Placed : SameKey(o, x) => o = x

UsedBy(c) == {o \in usage : CustomerOf[o] = c}

Restoring(c) == {w \in Requests : At(w, "restoreCount") /\ CustomerOf[request[w].victim] = c}

(* A customer's counter of free deliveries never passes the limit and always  *)
(* equals the orders that hold one plus the restores under way: racing        *)
(* cancellations do not restore one delivery twice, and no crash or abort     *)
(* makes it too small (consumeFreeBikeDelivery, restoreFreeBikeDelivery).     *)
FreeDeliveriesAddUp ==
    \A c \in Customers :
        LET due == Cardinality(UsedBy(c)) + Cardinality(Restoring(c))
        IN  /\ usedCount[c] <= totalAllowed
            /\ usedCount[c] >= due
            /\ ~Crashes => usedCount[c] = due

\* The orders that hold stock of the hub.
Holding == {o \in Placed : hubAssigned[o] /\ orderStatus[o] # "CANCELLED"}

(* The hub's reserved stock is exactly what its live orders hold: releasing   *)
(* an order again and again returns its stock once ("Safe to call             *)
(* repeatedly", releaseUnpaidOnlineOrder).                                    *)
ReservedCoversOrders ==
    \A p \in Products : reservedQty[p] = Asked(Holding, p)

(* Why placements may read without locks: the one that holds the row of the   *)
(* order number is the only one inside its transaction (nextOrderNumber).     *)
OneAtATime ==
    \A w \in Requests : request[w].pc \in InTransaction <=> lockedBy = w

(* What a request carries from one statement to the next still holds: stock   *)
(* it has checked has not shrunk, a variant it has read has not changed.      *)
FrameSound(f) ==
    /\ f.pc \in {"prepare", "lock"} \cup InTransaction => f.order \in Orders
    /\ f.pc \in {"findUsage", "deleteUsage", "restoreCount"} => f.victim \in Orders
    /\ f.pc = "cancelTx" => f.victim \in Placed
    /\ f.pc \notin InTransaction => f.taken = {} /\ f.read = {} /\ f.counted = {}
    /\ f.pc = "commit" => Items(f.order) \subseteq f.read
    /\ \A p \in f.taken : availableQty[p] >= Quantity(f.order, p)
    /\ \A p \in f.read :
          /\ p \in f.counted <=> KeepsCount(p)
          /\ f.remaining[p] = stock[p] - Quantity(f.order, p)
    /\ f.counted \subseteq f.read
    /\ \A p \in f.counted : f.remaining[p] >= 0

(* The inductive invariant behind NotOversold, KeyOrdersOnce and              *)
(* VariantWriteIsFresh: every request's view of the tables (placeOrder,       *)
(* releaseUnpaidOnlineOrder, cancel) survives what the others commit.         *)
IInv ==
    /\ TypeOK
    /\ OneAtATime
    /\ \A w \in Requests : FrameSound(request[w])
    /\ NotOversold
    /\ KeyOrdersOnce

(* Waiting for the order number's row never lasts for ever: every placement   *)
(* ends, with an order or without.                                            *)
PlacementsEnd == \A w \in Requests : ~At(w, "idle") ~> At(w, "idle")
=============================================================================
