--------------------------- MODULE LoyaltyLedger ---------------------------
(***************************************************************************)
(* One customer's loyalty account and its ledger: recordEntryInTx and all  *)
(* that calls it (src/modules/loyalty/loyalty-transaction.service.ts,      *)
(* src/admin/loyalty/admin-loyalty.service.ts).                            *)
(*                                                                         *)
(* A booking is a transaction that first locks the account's row, then     *)
(* reads balance, reference and lots, and writes all of them when it       *)
(* commits.  What callers read before (the balance at checkout, an order's *)
(* status) is read without the lock.  A row of the ledger that was         *)
(* credited is a lot: remaining is what of it has not been spent.  Lots    *)
(* lapse a year after they were booked, hence in the order of the ledger.  *)
(*                                                                         *)
(* Left out: the first-order bonus, whose points are 0 (loyalty.constants),*)
(* the expiry job, whose queue is disabled, and prices; one point of the   *)
(* model stands for a point, or for a paisa of discount.                   *)
(***************************************************************************)
EXTENDS Integers, Sequences, FiniteSets, FiniteSetsExt

CONSTANTS
    None,
    Requests,       \* requests that may be running at the same time
    Orders,
    CheckoutPoints, \* points the customer redeems when placing an order
    EarnedPoints,   \* points an order earns when it is delivered
    TapPoints,      \* points a customer may redeem for an order placed before
    WelcomePoints,
    AdminPoints,    \* points of an administrator's adjustment
    MaxEntries,     \* bound on the rows of the ledger
    MaxRedeemable   \* cap of calculateMaxRedeemablePoints for these orders

ASSUME ConstantsAssumption ==
    /\ None \notin Requests \cup Orders
    /\ CheckoutPoints \in [Orders -> Nat]
    /\ EarnedPoints \in [Orders -> Nat \ {0}]
    /\ TapPoints \subseteq Nat \ {0}
    /\ WelcomePoints \in Nat \ {0}
    /\ AdminPoints \subseteq Nat \ {0}
    /\ MaxEntries \in Nat
    /\ MaxRedeemable \in Nat

VARIABLES
    availablePoints,   \* LoyaltyAccount
    currentPoints,
    redeemedPoints,
    ledger,            \* the rows of LoyaltyTransaction, oldest first
    lapsed,            \* how many rows, the oldest, are past expiresAt
    orderStatus,
    pointsUsed,        \* Order.loyaltyPointsUsed
    lockedBy,          \* the transaction that holds the account's row
    request            \* the frame of each request

accountVars == <<availablePoints, currentPoints, redeemedPoints, ledger>>
orderVars == <<orderStatus, pointsUsed>>
vars == <<accountVars, lapsed, orderVars, lockedBy, request>>

-----------------------------------------------------------------------------
Statuses == {"none", "PLACED", "DELIVERED", "CANCELLED"}

\* LOYALTY_REF: what a row is booked for; an administrator's rows may have none.
Ref(kind, o) == <<kind, o>>
NoRef == Ref("none", None)

Refs == ({"redeem", "orderEarned", "refundRestore", "earnReversal"} \X Orders)
            \cup {Ref("welcomeBonus", None), Ref("reward", None), NoRef}

Entry == [type : {"EARN", "REDEEM", "ADJUSTMENT"}, credit : BOOLEAN,
          points : Nat \ {0}, ref : Refs]

Row == [type : {"EARN", "REDEEM", "ADJUSTMENT"}, credit : BOOLEAN,
        points : Nat \ {0}, ref : Refs, opening : Nat, closing : Nat, remaining : Nat]

NoEntry == [type |-> "EARN", credit |-> TRUE, points |-> 1, ref |-> NoRef]

Labels == {"idle", "lock", "write", "redeemBalance", "updateOrder", "refund", "findEarn"}

Frame ==
    [pc      : Labels,
     order   : Orders \cup {None},
     points  : Nat,                 \* points the customer asked to redeem
     entry   : Entry,               \* what it is about to book
     next    : Labels,              \* where it goes on after booking
     opening : Nat,                 \* balance read under the lock
     found   : BOOLEAN]             \* whether the reference was booked before

Idle == [pc |-> "idle", order |-> None, points |-> 0, entry |-> NoEntry,
         next |-> "idle", opening |-> 0, found |-> FALSE]

TypeOK ==
    /\ availablePoints \in Nat
    /\ currentPoints \in Int
    /\ redeemedPoints \in Nat
    /\ ledger \in Seq(Row)
    /\ lapsed \in 0..Len(ledger)
    /\ orderStatus \in [Orders -> Statuses]
    /\ pointsUsed \in [Orders -> Nat]
    /\ lockedBy \in Requests \cup {None}
    /\ request \in [Requests -> Frame]

Init ==
    /\ availablePoints = 0
    /\ currentPoints = 0
    /\ redeemedPoints = 0
    /\ ledger = <<>>
    /\ lapsed = 0
    /\ orderStatus = [o \in Orders |-> "none"]
    /\ pointsUsed = [o \in Orders |-> 0]
    /\ lockedBy = None
    /\ request = [w \in Requests |-> Idle]

-----------------------------------------------------------------------------
At(w, pc) == request[w].pc = pc

Goto(w, frame) == request' = [request EXCEPT ![w] = frame]

Booked == {ledger[i].ref : i \in DOMAIN ledger} \ {NoRef}

\* creditLotWhere: lots that have points left and have not lapsed.
Lots == {i \in DOMAIN ledger : i > lapsed /\ ledger[i].remaining > 0}

Left(lots) == MapThenSumSet(LAMBDA i : ledger[i].remaining, lots)

\* getNonExpiredBalance
NonExpiredBalance == Left(Lots)

\* The request goes on to book an entry, then to next.
Book(f, entry, next) == [f EXCEPT !.pc = "lock", !.entry = entry, !.next = next]

Credit(type, points, ref) ==
    [type |-> type, credit |-> TRUE, points |-> points, ref |-> ref]
Debit(type, points, ref) ==
    [type |-> type, credit |-> FALSE, points |-> points, ref |-> ref]

-----------------------------------------------------------------------------
(* recordEntryInTx *)

(* Mutant: the account is read without FOR UPDATE. *)
MutantAcquire(w, f) ==
    /\ Len(ledger) < MaxEntries
    /\ lockedBy' = w
    /\ Goto(w, [f EXCEPT !.pc = "write", !.opening = availablePoints,
                         !.found = f.entry.ref \in Booked])
    /\ UNCHANGED <<accountVars, lapsed, orderVars>>

\* SELECT ... FOR UPDATE waits for the row; account and reference are read then.
Acquire(w, f) ==
    /\ lockedBy = None
    /\ Len(ledger) < MaxEntries
    /\ lockedBy' = w
    /\ Goto(w, [f EXCEPT !.pc = "write", !.opening = availablePoints,
                         !.found = f.entry.ref \in Booked])
    /\ UNCHANGED <<accountVars, lapsed, orderVars>>

LockAccount(w) == At(w, "lock") /\ Acquire(w, request[w])

Unlock(w) == lockedBy' = IF lockedBy = w THEN None ELSE lockedBy

(* Mutant: the newest lots are spent first. *)
MutantConsumed(points, i) ==
    LET newer == Left({j \in Lots : j > i})
    IN  IF i \in Lots /\ points > newer
        THEN Min({ledger[i].remaining, points - newer}) ELSE 0

\* consumePointsFromLots: oldest first, what lot i gives of the points.
Consumed(points, i) ==
    LET older == Left({j \in Lots : j < i})
    IN  IF i \in Lots /\ points > older
        THEN Min({ledger[i].remaining, points - older}) ELSE 0

\* The balance, and what has not lapsed of it, must suffice.
Affordable(f) == f.entry.credit \/ (f.opening >= f.entry.points
                                    /\ NonExpiredBalance >= f.entry.points)

\* The new row, and the lots after the entry has been paid from them.
BookedRow(f) ==
    [type |-> f.entry.type, credit |-> f.entry.credit, points |-> f.entry.points,
     ref |-> f.entry.ref, opening |-> f.opening,
     closing |-> IF f.entry.credit THEN f.opening + f.entry.points
                                   ELSE f.opening - f.entry.points,
     remaining |-> IF f.entry.credit THEN f.entry.points ELSE 0]

(* Mutant: only redemptions are paid from lots. *)
MutantPaidLots(f) ==
    IF f.entry.type # "REDEEM" THEN ledger
    ELSE [i \in DOMAIN ledger |->
            [ledger[i] EXCEPT !.remaining = @ - Consumed(f.entry.points, i)]]

PaidLots(f) ==
    IF f.entry.credit THEN ledger
    ELSE [i \in DOMAIN ledger |->
            [ledger[i] EXCEPT !.remaining = @ - Consumed(f.entry.points, i)]]

Move(f) ==
    LET points == f.entry.points
    IN  /\ availablePoints' = IF f.entry.credit THEN availablePoints + points
                                                ELSE availablePoints - points
        /\ currentPoints' = CASE f.entry.credit                -> currentPoints + points
                              [] f.entry.type = "ADJUSTMENT"
                                   /\ ~f.entry.credit          -> currentPoints - points
                              [] OTHER                         -> currentPoints
        /\ redeemedPoints' = IF f.entry.type = "REDEEM" THEN redeemedPoints + points
                                                        ELSE redeemedPoints
        /\ ledger' = Append(PaidLots(f), BookedRow(f))

\* A placement's order becomes visible with the entry that pays for it.
PlacedWith(f) ==
    IF f.next = "idle" /\ f.order # None /\ f.entry.type = "REDEEM"
    THEN /\ orderStatus' = [orderStatus EXCEPT ![f.order] = "PLACED"]
         /\ pointsUsed' = [pointsUsed EXCEPT ![f.order] = f.entry.points]
    ELSE UNCHANGED orderVars

\* The entry is booked, found to be booked before, or refused.
WriteEntry(w) ==
    LET f == request[w]
    IN  /\ At(w, "write")
        /\ Unlock(w)
        /\ \/ /\ f.found
              /\ Goto(w, [f EXCEPT !.pc = f.next])
              /\ UNCHANGED <<accountVars, orderVars>>
           \/ /\ ~f.found /\ Affordable(f)
              /\ Move(f)
              /\ PlacedWith(f)
              /\ Goto(w, [f EXCEPT !.pc = f.next])
           \/ /\ ~f.found /\ ~Affordable(f)
              /\ Goto(w, Idle)
              /\ UNCHANGED <<accountVars, orderVars>>
        /\ UNCHANGED lapsed

\* The transaction runs into its time limit, or the server dies in it.
Abort(w) ==
    /\ request[w].pc \in {"lock", "write"}
    /\ Unlock(w)
    /\ Goto(w, Idle)
    /\ UNCHANGED <<accountVars, lapsed, orderVars>>

-----------------------------------------------------------------------------
(* Orders and points. *)

\* The checkout has found the balance sufficient; the order is created in the
\* transaction that books the points.
PlaceOrder(w, o) ==
    LET points == CheckoutPoints[o]
    IN  /\ At(w, "idle")
        /\ orderStatus[o] = "none"
        /\ \A v \in Requests : request[v].order # o
        /\ IF points = 0
           THEN /\ orderStatus' = [orderStatus EXCEPT ![o] = "PLACED"]
                /\ UNCHANGED request
           ELSE /\ Min({NonExpiredBalance, MaxRedeemable}) >= points
                /\ Goto(w, Book([Idle EXCEPT !.order = o, !.points = points],
                                Debit("REDEEM", points, Ref("redeem", o)), "idle"))
                /\ UNCHANGED orderStatus
        /\ UNCHANGED <<accountVars, lapsed, pointsUsed, lockedBy>>

(* Mutant: points redeemed at checkout are not noticed. *)
MutantRedeemForOrder(w, o, points) ==
    /\ At(w, "idle")
    /\ orderStatus[o] # "none"
    /\ Goto(w, [Idle EXCEPT !.pc = "redeemBalance", !.order = o, !.points = points])
    /\ UNCHANGED <<accountVars, lapsed, orderVars, lockedBy>>

\* redeemForOrder reads the order ...
RedeemForOrder(w, o, points) ==
    /\ At(w, "idle")
    /\ orderStatus[o] # "none"
    /\ pointsUsed[o] = 0
    /\ Goto(w, [Idle EXCEPT !.pc = "redeemBalance", !.order = o, !.points = points])
    /\ UNCHANGED <<accountVars, lapsed, orderVars, lockedBy>>

\* ... then the balance, books the redemption ...
RedeemBalance(w) ==
    LET f == request[w]
    IN  /\ At(w, "redeemBalance")
        /\ Goto(w, IF Min({NonExpiredBalance, MaxRedeemable}) < f.points THEN Idle
                   ELSE Book(f, Debit("REDEEM", f.points, Ref("redeem", f.order)),
                             "updateOrder"))
        /\ UNCHANGED <<accountVars, lapsed, orderVars, lockedBy>>

\* ... and writes what it asked for to the order.
UpdateOrder(w) ==
    LET f == request[w]
    IN  /\ At(w, "updateOrder")
        /\ pointsUsed' = [pointsUsed EXCEPT ![f.order] = f.points]
        /\ Goto(w, Idle)
        /\ UNCHANGED <<accountVars, lapsed, orderStatus, lockedBy>>

\* The hub delivers an order.
Deliver(o) ==
    /\ orderStatus[o] = "PLACED"
    /\ orderStatus' = [orderStatus EXCEPT ![o] = "DELIVERED"]
    /\ UNCHANGED <<accountVars, lapsed, pointsUsed, lockedBy, request>>

\* earnForDeliveredOrder, called by the hub and again by the internal endpoint.
EarnForDeliveredOrder(w, o) ==
    /\ At(w, "idle")
    /\ orderStatus[o] = "DELIVERED"
    /\ Goto(w, Book([Idle EXCEPT !.order = o],
                    Credit("EARN", EarnedPoints[o], Ref("orderEarned", o)), "idle"))
    /\ UNCHANGED <<accountVars, lapsed, orderVars, lockedBy>>

\* An order is cancelled, the administrator's way: whatever its status.
Cancel(w, o) ==
    /\ At(w, "idle")
    /\ orderStatus[o] # "none"
    /\ orderStatus' = [orderStatus EXCEPT ![o] = "CANCELLED"]
    /\ Goto(w, [Idle EXCEPT !.pc = "refund", !.order = o])
    /\ UNCHANGED <<accountVars, lapsed, pointsUsed, lockedBy>>

\* refundRedemptionForCancelledOrder gives the order's points back ...
RefundRedemption(w) ==
    LET f == request[w]
        points == pointsUsed[f.order]
    IN  /\ At(w, "refund")
        /\ Goto(w, IF points = 0 THEN [f EXCEPT !.pc = "findEarn"]
                   ELSE Book(f, Credit("ADJUSTMENT", points,
                                       Ref("refundRestore", f.order)), "findEarn"))
        /\ UNCHANGED <<accountVars, lapsed, orderVars, lockedBy>>

\* ... and reverses what it earned.
ReverseEarnedPoints(w) ==
    LET f == request[w]
        earned == {i \in DOMAIN ledger : ledger[i].ref = Ref("orderEarned", f.order)}
    IN  /\ At(w, "findEarn")
        /\ Goto(w, IF earned = {} THEN Idle
                   ELSE Book(f, Debit("ADJUSTMENT",
                                      ledger[CHOOSE i \in earned : TRUE].points,
                                      Ref("earnReversal", f.order)), "idle"))
        /\ UNCHANGED <<accountVars, lapsed, orderVars, lockedBy>>

-----------------------------------------------------------------------------
(* Bookings without an order. *)

\* A request that books without having read anything begins with the lock.
Begin(w, entry) == At(w, "idle") /\ Acquire(w, [Idle EXCEPT !.entry = entry])

CreditWelcomeBonus(w) ==
    Begin(w, Credit("EARN", WelcomePoints, Ref("welcomeBonus", None)))

AdjustPoints(w, points) ==
    \/ Begin(w, Credit("ADJUSTMENT", points, NoRef))
    \/ Begin(w, Debit("ADJUSTMENT", points, NoRef))

RewardPoints(w, points) == Begin(w, Credit("EARN", points, Ref("reward", None)))

\* The administrator's redeemPoints looks at the balance before it books.
RedeemPoints(w, points) ==
    /\ NonExpiredBalance >= points
    /\ Begin(w, Debit("REDEEM", points, NoRef))

\* The oldest row reaches its expiresAt.
Lapse ==
    /\ lapsed < Len(ledger)
    /\ lapsed' = lapsed + 1
    /\ UNCHANGED <<accountVars, orderVars, lockedBy, request>>

\* The server dies while the request is between two transactions.
Crash(w) ==
    /\ request[w].pc \in {"redeemBalance", "updateOrder", "refund", "findEarn"}
    /\ Goto(w, Idle)
    /\ UNCHANGED <<accountVars, lapsed, orderVars, lockedBy>>

-----------------------------------------------------------------------------
Next ==
    \/ \E w \in Requests :
          \/ LockAccount(w) \/ WriteEntry(w) \/ Abort(w) \/ Crash(w)
          \/ RedeemBalance(w) \/ UpdateOrder(w)
          \/ RefundRedemption(w) \/ ReverseEarnedPoints(w)
          \/ CreditWelcomeBonus(w)
          \/ \E n \in AdminPoints :
                AdjustPoints(w, n) \/ RewardPoints(w, n) \/ RedeemPoints(w, n)
          \/ \E o \in Orders :
                \/ PlaceOrder(w, o) \/ EarnForDeliveredOrder(w, o) \/ Cancel(w, o)
                \/ \E n \in TapPoints : RedeemForOrder(w, o, n)
    \/ \E o \in Orders : Deliver(o)
    \/ Lapse

Spec == Init /\ [][Next]_vars

-----------------------------------------------------------------------------
(* Properties. *)

(* The balance a customer is shown, what was earned less what was redeemed,   *)
(* what is left of the lots and the last line of the ledger are one number,   *)
(* whoever books beside whom, and each line opens with the balance the line   *)
(* before it closed: no booking was computed from a stale balance             *)
(* (recordEntryInTx changes three columns and any number of lots, under the   *)
(* lock of the account).                                                      *)
BalanceAgrees ==
    /\ TypeOK
    /\ availablePoints = currentPoints - redeemedPoints
    /\ availablePoints = Left(DOMAIN ledger)
    /\ ledger # <<>> => availablePoints = ledger[Len(ledger)].closing
    /\ \A i \in DOMAIN ledger :
          ledger[i].opening = IF i = 1 THEN 0 ELSE ledger[i - 1].closing

(* A lot is only touched when all older ones that have not lapsed are spent,  *)
(* so that a customer loses as few points as possible                         *)
(* (consumePointsFromLots).                                                   *)
OldestFirst ==
    \A i, j \in DOMAIN ledger :
        i < j /\ i \in Lots /\ ledger[j].credit => ledger[j].remaining = ledger[j].points

PointsFor(kind, o) == {ledger[i].points : i \in {n \in DOMAIN ledger : ledger[n].ref = Ref(kind, o)}}

(* Cancelling returns exactly the points that placing the order took, and     *)
(* takes back exactly those that delivering it gave, although the points are  *)
(* read long before they are booked (refundRedemptionForCancelledOrder).      *)
ReturnsWhatWasTaken ==
    \A o \in Orders :
        /\ CheckoutPoints[o] > 0 => PointsFor("refundRestore", o) \subseteq PointsFor("redeem", o)
        /\ PointsFor("earnReversal", o) \subseteq PointsFor("orderEarned", o)

Promise == INSTANCE AccountBook WITH
    balance <- availablePoints,
    booked  <- [i \in DOMAIN ledger |-> ledger[i].ref]

(* What the account promises (AccountBook): a balance that is never negative, *)
(* changed by one booking at a time, each reference booked once.              *)
KeepsBooks == Promise!Spec
=============================================================================
