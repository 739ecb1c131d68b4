------------------------ MODULE OrderPlacementProofs ------------------------
(***************************************************************************)
(* Proofs about OrderPlacement, for every number of requests, orders,      *)
(* customers and products: the placement that holds the row of the order   *)
(* number is alone in its transaction, so that what it read without locks  *)
(* is still so when it commits, and stock, reservations and free           *)
(* deliveries add up over all the orders that were ever placed.            *)
(***************************************************************************)
EXTENDS OrderPlacement, SumLaws, TLAPS

(* What the frames of the other requests rely on. *)
Undisturbed ==
    /\ \A p \in Products : availableQty'[p] >= availableQty[p]
    /\ UNCHANGED <<stock, inStock>>
    /\ Placed \subseteq Placed'

-----------------------------------------------------------------------------
(* Frames. *)

LEMMA IdleFrame == Idle \in Frame /\ Idle.pc = "idle" /\ FrameSound(Idle)
  BY ConstantsAssumption DEF Frame, Idle, Labels, InTransaction, FrameSound

LEMMA FrameOf ==
    ASSUME IInv, NEW w \in Requests
    PROVE  request[w] \in Frame /\ FrameSound(request[w])
  BY DEF IInv, TypeOK

LEMMA GotoFrame ==
    ASSUME TypeOK, NEW w \in Requests, NEW g \in Frame, Goto(w, g)
    PROVE  /\ request' \in [Requests -> Frame]
           /\ request'[w] = g
           /\ \A v \in Requests \ {w} : request'[v] = request[v]
  BY DEF TypeOK, Goto

LEMMA QuantityNat ==
    ASSUME NEW o \in Orders, NEW p \in Products
    PROVE  Quantity(o, p) \in Nat /\ CustomerOf[o] \in Customers
  BY ConstantsAssumption DEF Quantity

(* The frames of requests that do not move stay sound while stock only comes  *)
(* back and orders only appear.                                               *)
LEMMA FramesStaySound ==
    ASSUME IInv, Undisturbed, NEW v \in Requests, request'[v] = request[v],
           \A p \in Products : availableQty'[p] \in Int
    PROVE  FrameSound(request[v])'
  <1> DEFINE f == request[v]
  <1>1. f \in Frame /\ FrameSound(f)
    BY FrameOf
  <1>2. f.taken \subseteq Products /\ f.taken # {} => f.order \in Orders
    BY <1>1 DEF FrameSound, Frame
  <1>3. ASSUME NEW p \in f.taken PROVE availableQty'[p] >= Quantity(f.order, p)
    <2>1. p \in Products /\ f.order \in Orders
      BY <1>1, <1>2, <1>3 DEF Frame
    <2>2. /\ Quantity(f.order, p) \in Int
          /\ availableQty[p] \in Int /\ availableQty'[p] \in Int
      BY <2>1, QuantityNat DEF IInv, TypeOK
    <2>3. availableQty[p] >= Quantity(f.order, p) /\ availableQty'[p] >= availableQty[p]
      BY <2>1, <1>1, <1>3 DEF FrameSound, Undisturbed
    <2> QED BY <2>2, <2>3
  <1> QED BY <1>1, <1>3 DEF FrameSound, Undisturbed, KeepsCount, Quantity, Items

(* A request outside its transaction has read nothing yet. *)
LEMMA OutsideIsSound ==
    ASSUME IInv, NEW v \in Requests, request'[v] = request[v],
           ~(request[v].pc \in InTransaction), Placed \subseteq Placed'
    PROVE  FrameSound(request[v])'
  BY FrameOf DEF FrameSound, InTransaction, Items

-----------------------------------------------------------------------------
(* Steps. *)

(* A step that only moves a request to a sound frame, outside or inside the    *)
(* transaction as before.                                                     *)
LEMMA QuietStep ==
    ASSUME IInv, NEW w \in Requests, NEW g \in Frame, FrameSound(g), Goto(w, g),
           \/ /\ g.pc \in InTransaction <=> request[w].pc \in InTransaction
              /\ lockedBy' = lockedBy
           \/ /\ g.pc \notin InTransaction
              /\ lockedBy' = IF lockedBy = w THEN None ELSE lockedBy
           \/ lockedBy = None /\ lockedBy' = w /\ g.pc \in InTransaction,
           UNCHANGED <<stockVars, orderVars, benefitVars>>
    PROVE  IInv'
  <1> USE DEF stockVars, orderVars, benefitVars
  <1>1. TypeOK /\ OneAtATime
    BY DEF IInv
  <1>2. TypeOK'
    BY <1>1, GotoFrame DEF TypeOK
  <1>3. Undisturbed
    BY <1>1 DEF Undisturbed, TypeOK, Placed
  <1>4. FrameSound(request[w])'
    BY <1>1, GotoFrame DEF FrameSound, KeepsCount, Quantity, Items, Placed
  <1>5. \A v \in Requests : FrameSound(request[v])'
    BY <1>1, <1>2, <1>3, <1>4, GotoFrame, FramesStaySound DEF TypeOK
  <1>6. OneAtATime'
    BY <1>1, GotoFrame, ConstantsAssumption DEF OneAtATime
  <1>7. (NotOversold /\ KeyOrdersOnce)'
    BY DEF IInv, NotOversold, KeyOrdersOnce, Placed, SameKey
  <1> QED BY <1>2, <1>5, <1>6, <1>7 DEF IInv

LEMMA RollbackStep ==
    ASSUME IInv, NEW w \in Requests, Rollback(w),
           UNCHANGED <<stockVars, orderVars, benefitVars>>
    PROVE  IInv'
  <1>1. Idle.pc \notin InTransaction
    BY IdleFrame DEF InTransaction
  <1> QED BY <1>1, IdleFrame, QuietStep DEF Rollback

(* A step between two statements that are both outside the transaction. *)
LEMMA OutsideStep ==
    ASSUME IInv, NEW w \in Requests, NEW g \in Frame, FrameSound(g), Goto(w, g),
           g.pc \notin InTransaction, request[w].pc \notin InTransaction,
           UNCHANGED <<lockedBy, stockVars, orderVars, benefitVars>>
    PROVE  IInv'
  BY QuietStep

LEMMA PlaceOrderStep ==
    ASSUME IInv, NEW w \in Requests, NEW o \in Orders, PlaceOrder(w, o)
    PROVE  IInv'
  <1> DEFINE g == [Idle EXCEPT !.order = o,
                           !.todo = IF o \in Online THEN {}
                                    ELSE {x \in Placed : /\ CustomerOf[x] = CustomerOf[o]
                                                         /\ Unpaid(x)},
                           !.pc = "release"]
  <1>1. g \in Frame
    BY IdleFrame DEF Frame, Labels, Placed
  <1>2. FrameSound(g) /\ g.pc \notin InTransaction
    BY DEF FrameSound, Idle, InTransaction
  <1>3. Goto(w, g) /\ request[w].pc \notin InTransaction
    BY DEF PlaceOrder, Free, At, InTransaction
  <1> QED BY <1>1, <1>2, <1>3, OutsideStep DEF PlaceOrder

LEMMA PrepareStep ==
    ASSUME IInv, NEW w \in Requests, Prepare(w)
    PROVE  IInv'
  <1> DEFINE f == request[w]
             g == [f EXCEPT
                      !.pc   = "lock",
                      !.free = /\ f.order \in ByBike
                               /\ usedCount[CustomerOf[f.order]] < totalAllowed,
                      !.hub  = \A p \in Items(f.order) :
                                  availableQty[p] >= Quantity(f.order, p)]
  <1>1. f \in Frame /\ FrameSound(f) /\ f.pc = "prepare"
    BY FrameOf DEF Prepare, At
  <1>2. g \in Frame
    BY <1>1 DEF Frame, Labels
  <1>3. FrameSound(g) /\ g.pc \notin InTransaction /\ f.pc \notin InTransaction
    BY <1>1 DEF FrameSound, InTransaction, Frame
  <1>4. Idle.pc \notin InTransaction
    BY IdleFrame DEF InTransaction
  <1>5. Goto(w, g) \/ Goto(w, Idle)
    BY DEF Prepare
  <1> QED BY <1>2, <1>3, <1>4, <1>5, IdleFrame, OutsideStep DEF Prepare

LEMMA NextOrderNumberStep ==
    ASSUME IInv, NEW w \in Requests, NextOrderNumber(w)
    PROVE  IInv'
  <1> DEFINE f == request[w]
             g == [f EXCEPT !.pc = IF f.hub THEN "takeStock" ELSE "takeVariants"]
  <1>1. f \in Frame /\ FrameSound(f) /\ f.pc = "lock"
    BY FrameOf DEF NextOrderNumber, At
  <1>2. g \in Frame /\ g.pc \in InTransaction
    BY <1>1 DEF Frame, Labels, InTransaction
  <1>3. FrameSound(g)
    BY <1>1 DEF FrameSound, InTransaction, Frame
  <1> QED BY <1>2, <1>3, QuietStep DEF NextOrderNumber

LEMMA TakeStockStep ==
    ASSUME IInv, NEW w \in Requests, NEW p \in Products, TakeStock(w, p)
    PROVE  IInv'
  <1> DEFINE f == request[w]
             g == [f EXCEPT !.taken = @ \cup {p},
                            !.pc = IF Items(f.order) \subseteq f.taken \cup {p}
                                   THEN "takeVariants" ELSE "takeStock"]
  <1>1. f \in Frame /\ FrameSound(f) /\ f.pc = "takeStock" /\ f.order \in Orders
    BY FrameOf DEF TakeStock, At, FrameSound, InTransaction
  <1>a. CASE availableQty[p] < Quantity(f.order, p)
    BY <1>a, RollbackStep DEF TakeStock
  <1>b. CASE ~(availableQty[p] < Quantity(f.order, p))
    <2>1. g \in Frame /\ g.pc \in InTransaction /\ f.pc \in InTransaction
      BY <1>1 DEF Frame, Labels, InTransaction
    <2>2. availableQty[p] >= Quantity(f.order, p)
      BY <1>1, <1>b, QuantityNat DEF IInv, TypeOK
    <2>3. FrameSound(g)
      BY <1>1, <2>1, <2>2 DEF FrameSound, InTransaction, Frame
    <2> QED BY <1>b, <2>1, <2>3, QuietStep DEF TakeStock
  <1> QED BY <1>a, <1>b

LEMMA TakeVariantStep ==
    ASSUME IInv, NEW w \in Requests, NEW p \in Products, TakeVariant(w, p)
    PROVE  IInv'
  <1> DEFINE f == request[w]
             g == [f EXCEPT
                       !.read = @ \cup {p},
                       !.counted = IF KeepsCount(p) THEN @ \cup {p} ELSE @,
                       !.remaining = [@ EXCEPT ![p] = stock[p] - Quantity(f.order, p)],
                       !.pc = IF Items(f.order) \subseteq f.read \cup {p}
                              THEN "commit" ELSE "takeVariants"]
  <1>1. /\ f \in Frame /\ FrameSound(f) /\ f.pc = "takeVariants"
        /\ f.order \in Orders /\ p \notin f.read
    BY FrameOf DEF TakeVariant, At, FrameSound, InTransaction
  <1>2. stock[p] \in Int /\ Quantity(f.order, p) \in Int
    BY <1>1, QuantityNat DEF IInv, TypeOK
  <1>a. CASE KeepsCount(p) /\ stock[p] < Quantity(f.order, p)
    BY <1>a, RollbackStep DEF TakeVariant
  <1>b. CASE ~(KeepsCount(p) /\ stock[p] < Quantity(f.order, p))
    <2>0. /\ [f.remaining EXCEPT ![p] = stock[p] - Quantity(f.order, p)]
                 \in [Products -> Int]
          /\ f.read \cup {p} \in SUBSET Products
          /\ (IF KeepsCount(p) THEN f.counted \cup {p} ELSE f.counted) \in SUBSET Products
          /\ {"commit", "takeVariants"} \subseteq InTransaction \cap Labels
      BY <1>1, <1>2 DEF Frame, Labels, InTransaction
    <2>1. g \in Frame /\ g.pc \in InTransaction /\ f.pc \in InTransaction
      <3>1. g.pc \in {"commit", "takeVariants"}
        BY <1>1 DEF Frame
      <3> QED BY <1>1, <2>0, <3>1 DEF Frame
    <2>2. /\ g.order = f.order /\ g.taken = f.taken /\ g.read = f.read \cup {p}
          /\ g.counted = IF KeepsCount(p) THEN f.counted \cup {p} ELSE f.counted
          /\ g.remaining[p] = stock[p] - Quantity(f.order, p)
          /\ \A q \in Products \ {p} : g.remaining[q] = f.remaining[q]
          /\ g.pc = "commit" => Items(f.order) \subseteq g.read
      BY <1>1 DEF Frame
    <2>3. f.counted \subseteq f.read /\ f.read \subseteq Products
      BY <1>1 DEF FrameSound, Frame
    <2>4. KeepsCount(p) => stock[p] - Quantity(f.order, p) >= 0
      BY <1>b, <1>2
    <2>5. \A q \in g.read : /\ q \in g.counted <=> KeepsCount(q)
                            /\ g.remaining[q] = stock[q] - Quantity(g.order, q)
      BY <1>1, <2>2, <2>3 DEF FrameSound
    <2>6. \A q \in g.counted : g.remaining[q] >= 0
      BY <1>1, <2>2, <2>3, <2>4 DEF FrameSound
    <2>7. g.counted \subseteq g.read /\ \A q \in g.taken : availableQty[q] >= Quantity(g.order, q)
      BY <1>1, <2>2, <2>3 DEF FrameSound
    <2>8. FrameSound(g)
      BY <1>1, <2>1, <2>2, <2>5, <2>6, <2>7 DEF FrameSound, InTransaction
    <2> QED BY <1>b, <2>1, <2>8, QuietStep DEF TakeVariant
  <1> QED BY <1>a, <1>b

(* The order is created: the others are outside their transactions, so that    *)
(* nobody holds anything this one takes.                                      *)
LEMMA CommitStep ==
    ASSUME IInv, NEW w \in Requests, Commit(w)
    PROVE  IInv'
  <1> DEFINE f == request[w]
             o == f.order
  <1>1. f \in Frame /\ FrameSound(f) /\ f.pc = "commit" /\ o \in Orders /\ TypeOK
    BY FrameOf DEF Commit, At, FrameSound, InTransaction, IInv
  <1>2. \A p \in Products : Quantity(o, p) \in Nat
    BY <1>1, QuantityNat
  <1>3. Goto(w, Idle) /\ lockedBy' = None /\ Committable(f)
    BY DEF Commit
  <1>4. /\ request' \in [Requests -> Frame]
        /\ request'[w] = Idle
        /\ \A v \in Requests \ {w} : request'[v] = request[v]
    BY <1>1, <1>3, IdleFrame, GotoFrame
  <1>5. \A v \in Requests \ {w} : request[v].pc \notin InTransaction
    <2>1. lockedBy = w
      BY <1>1 DEF IInv, OneAtATime, InTransaction
    <2> QED BY <2>1 DEF IInv, OneAtATime
  <1>6. /\ orderStatus' \in [Orders -> Statuses]
        /\ Placed' = Placed \cup {o}
    <2>1. PICK s \in {"PENDING", "HUB_ASSIGNED", "AWAITING_HUB_ALLOCATION"} :
             orderStatus' = [orderStatus EXCEPT ![o] = s]
      <3>1. CASE o \in Online
        BY <3>1 DEF Commit
      <3>2. CASE o \notin Online /\ f.hub
        BY <3>2 DEF Commit
      <3>3. CASE o \notin Online /\ ~f.hub
        BY <3>3 DEF Commit
      <3> QED BY <3>1, <3>2, <3>3
    <2> QED BY <1>1, <2>1 DEF TypeOK, Statuses, Placed
  <1>7. /\ availableQty' \in [Products -> Int]
        /\ reservedQty' \in [Products -> Nat]
        /\ \A p \in Products : availableQty'[p] >= 0
    <2>1. /\ availableQty' = [p \in Products |-> IF p \in f.taken
                THEN availableQty[p] - Quantity(o, p) ELSE availableQty[p]]
          /\ reservedQty' = [p \in Products |-> IF p \in f.taken
                THEN reservedQty[p] + Quantity(o, p) ELSE reservedQty[p]]
      BY DEF Commit
    <2>2. \A p \in f.taken : availableQty[p] >= Quantity(o, p)
      BY <1>1 DEF FrameSound
    <2>3. \A p \in Products : /\ availableQty[p] \in Int /\ availableQty[p] >= 0
                              /\ reservedQty[p] \in Nat
      BY <1>1 DEF TypeOK, IInv, NotOversold
    <2> QED BY <1>2, <2>1, <2>2, <2>3
  <1>8. stock' \in [Products -> Int] /\ inStock' \in [Products -> BOOLEAN]
    <2>1. WriteVariants(f) /\ f.remaining \in [Products -> Int]
      BY <1>1 DEF Commit, Frame
    <2>2. stock' \in [Products -> Int]
      BY <1>1, <2>1 DEF WriteVariants, TypeOK
    <2>3. inStock' = [p \in Products |-> IF p \in f.counted THEN f.remaining[p] > 0
                                                          ELSE inStock[p]]
      BY <2>1 DEF WriteVariants
    <2>4. ASSUME NEW p \in Products
          PROVE  (IF p \in f.counted THEN f.remaining[p] > 0 ELSE inStock[p]) \in BOOLEAN
      <3>1. inStock[p] \in BOOLEAN
        BY <1>1 DEF TypeOK
      <3>2. (f.remaining[p] > 0) \in BOOLEAN
        OBVIOUS
      <3> QED BY <3>1, <3>2
    <2>5. inStock' \in [Products -> BOOLEAN]
      BY <2>3, <2>4
    <2> QED BY <2>2, <2>5
  <1>9. usedCount' \in [Customers -> Nat] /\ usage' \subseteq Orders
    <2>1. CustomerOf[o] \in Customers
      BY <1>1, ConstantsAssumption
    <2>2. usage' \subseteq Orders
      BY <1>1 DEF Commit, ConsumeFreeBikeDelivery, TypeOK
    <2>3. usedCount' = [usedCount EXCEPT ![CustomerOf[o]] =
                           IF f.free THEN usedCount[CustomerOf[o]] + 1
                                     ELSE usedCount[CustomerOf[o]]]
      BY DEF Commit, ConsumeFreeBikeDelivery
    <2>4. usedCount \in [Customers -> Nat]
      BY <1>1 DEF TypeOK
    <2> QED BY <2>1, <2>2, <2>3, <2>4
  <1>10. /\ hubAssigned' \in [Orders -> BOOLEAN]
         /\ cartFull' \in [Customers -> BOOLEAN]
    <2>1. f.hub \in BOOLEAN /\ CustomerOf[o] \in Customers
      BY <1>1, QuantityNat, ConstantsAssumption DEF Frame
    <2> QED BY <1>1, <2>1 DEF Commit, TypeOK
  <1>11. TypeOK'
    BY <1>3, <1>4, <1>6, <1>7, <1>8, <1>9, <1>10 DEF TypeOK
  <1>12. OneAtATime'
    BY <1>3, <1>4, <1>5, IdleFrame, ConstantsAssumption DEF OneAtATime, InTransaction
  <1>13. \A v \in Requests : FrameSound(request[v])'
    <2> TAKE v \in Requests
    <2>1. CASE v = w
      BY <2>1, <1>4 DEF FrameSound, Idle, InTransaction
    <2>2. CASE v # w
      BY <2>2, <1>4, <1>5, <1>6, OutsideIsSound
    <2> QED BY <2>1, <2>2
  <1>14. KeyOrdersOnce'
    <2>1. \A x \in Placed : ~SameKey(o, x) /\ ~SameKey(x, o)
      BY <1>3 DEF Committable, SameKey
    <2>2. \A x, y : SameKey(x, y)' = SameKey(x, y)
      BY DEF SameKey
    <2> QED BY <1>6, <2>1, <2>2 DEF KeyOrdersOnce, IInv, SameKey
  <1> QED BY <1>7, <1>11, <1>12, <1>13, <1>14 DEF IInv, NotOversold

LEMMA AbortStep ==
    ASSUME IInv, NEW w \in Requests, Abort(w)
    PROVE  IInv'
  BY RollbackStep DEF Abort

-----------------------------------------------------------------------------
(* Giving an order up. *)

(* Stock only comes back, and no more of it than is reserved. *)
LEMMA StockReturns ==
    ASSUME TypeOK, NEW o \in Orders, ReturnStock(o)
    PROVE  /\ availableQty' \in [Products -> Int]
           /\ reservedQty' \in [Products -> Nat]
           /\ \A p \in Products : availableQty'[p] >= availableQty[p]
           /\ UNCHANGED <<stock, inStock>>
  <1>1. \A p \in Products : /\ Return(o)[p] \in Nat
                            /\ reservedQty[p] - Return(o)[p] \in Nat
                            /\ availableQty[p] \in Int
    BY QuantityNat DEF Return, TypeOK
  <1> QED BY <1>1 DEF ReturnStock

(* An order is cancelled and its stock returned; the request goes on outside   *)
(* a transaction.                                                             *)
LEMMA GiveUpStep ==
    ASSUME IInv, NEW w \in Requests, NEW o \in Placed, NEW g \in Frame,
           ReturnStock(o), orderStatus' = [orderStatus EXCEPT ![o] = "CANCELLED"],
           Goto(w, g), g.pc = "findUsage", g.victim = o,
           g.taken = {} /\ g.read = {} /\ g.counted = {},
           request[w].pc \notin InTransaction,
           UNCHANGED <<lockedBy, hubAssigned, cartFull, benefitVars>>
    PROVE  IInv'
  <1> USE DEF benefitVars
  <1>1. TypeOK /\ o \in Orders
    BY DEF IInv, Placed
  <1>2. orderStatus' \in [Orders -> Statuses] /\ Placed' = Placed
    BY <1>1 DEF TypeOK, Statuses, Placed
  <1>3. TypeOK'
    BY <1>1, <1>2, StockReturns, GotoFrame DEF TypeOK
  <1>4. Undisturbed
    BY <1>1, <1>2, StockReturns DEF Undisturbed
  <1>5. \A v \in Requests : FrameSound(request[v])'
    <2> TAKE v \in Requests
    <2>1. CASE v = w
      BY <2>1, <1>1, GotoFrame DEF FrameSound, InTransaction
    <2>2. CASE v # w
      BY <2>2, <1>1, <1>3, <1>4, GotoFrame, FramesStaySound DEF TypeOK
    <2> QED BY <2>1, <2>2
  <1>6. OneAtATime'
    BY <1>1, GotoFrame DEF IInv, OneAtATime, InTransaction
  <1>7. NotOversold'
    <2>1. \A p \in Products : /\ availableQty[p] \in Int /\ availableQty[p] >= 0
                              /\ availableQty'[p] \in Int
                              /\ availableQty'[p] >= availableQty[p]
      BY <1>1, StockReturns DEF IInv, TypeOK, NotOversold
    <2> QED BY <2>1 DEF NotOversold
  <1>8. KeyOrdersOnce'
    BY <1>2 DEF IInv, KeyOrdersOnce, SameKey
  <1> QED BY <1>3, <1>5, <1>6, <1>7, <1>8 DEF IInv

LEMMA ReleaseTxStep ==
    ASSUME IInv, NEW w \in Requests, NEW o \in Orders, ReleaseTx(w, o)
    PROVE  IInv'
  <1> DEFINE f == request[w]
             g == [f EXCEPT !.pc = "findUsage", !.victim = o]
             h == [f EXCEPT !.todo = @ \ {o}]
  <1>1. /\ f \in Frame /\ FrameSound(f) /\ f.pc = "release"
        /\ f.pc \notin InTransaction
    BY FrameOf DEF ReleaseTx, At, InTransaction
  <1>a. CASE Releasable(o)
    <2>1. o \in Placed
      BY <1>a DEF Releasable, Unpaid, Placed
    <2>2. /\ g \in Frame /\ g.pc = "findUsage" /\ g.victim = o
          /\ g.taken = {} /\ g.read = {} /\ g.counted = {}
      BY <1>1 DEF Frame, Labels, FrameSound
    <2> QED BY <1>a, <1>1, <2>1, <2>2, GiveUpStep DEF ReleaseTx
  <1>b. CASE ~Releasable(o)
    <2>1. h \in Frame /\ h.pc = "release" /\ FrameSound(h)
      BY <1>1 DEF Frame, FrameSound, InTransaction
    <2> QED BY <1>b, <1>1, <2>1, OutsideStep DEF ReleaseTx, orderVars
  <1> QED BY <1>a, <1>b

LEMMA CancelTxStep ==
    ASSUME IInv, NEW w \in Requests, CancelTx(w)
    PROVE  IInv'
  <1> DEFINE f == request[w]
             g == [f EXCEPT !.pc = "findUsage"]
  <1>1. /\ f \in Frame /\ f.pc = "cancelTx" /\ f.pc \notin InTransaction
        /\ f.victim \in Placed /\ f.taken = {} /\ f.read = {} /\ f.counted = {}
    BY FrameOf DEF CancelTx, At, InTransaction, FrameSound
  <1>2. /\ g \in Frame /\ g.pc = "findUsage" /\ g.victim = f.victim
        /\ g.taken = {} /\ g.read = {} /\ g.counted = {}
    BY <1>1 DEF Frame, Labels
  <1> QED BY <1>1, <1>2, GiveUpStep DEF CancelTx

(* A request turns to its next statement outside a transaction. *)
LEMMA BetweenStep ==
    ASSUME IInv, NEW w \in Requests,
           \/ ReleasesDone(w) \/ FindUsage(w) \/ Crash(w) \/ GiveUpWaiting(w)
           \/ \E o \in Orders : Release(w, o) \/ Cancel(w, o)
    PROVE  IInv'
  <1> DEFINE f == request[w]
  <1>1. f \in Frame /\ FrameSound(f) /\ Idle.pc \notin InTransaction
    BY FrameOf, IdleFrame DEF InTransaction
  <1>a. CASE ReleasesDone(w)
    <2> DEFINE g == [f EXCEPT !.pc = "prepare"]
    <2>1. f.order # None => g \in Frame /\ FrameSound(g) /\ g.pc \notin InTransaction
      BY <1>a, <1>1 DEF ReleasesDone, At, Frame, Labels, FrameSound, InTransaction
    <2>2. f.pc \notin InTransaction
      BY <1>a DEF ReleasesDone, At, InTransaction
    <2> QED BY <1>a, <1>1, <2>1, <2>2, IdleFrame, OutsideStep DEF ReleasesDone
  <1>b. CASE FindUsage(w)
    <2> DEFINE g == [f EXCEPT !.pc = "deleteUsage"]
    <2>1. f.pc = "findUsage" /\ f.pc \notin InTransaction
      BY <1>b DEF FindUsage, At, InTransaction
    <2>2. g \in Frame /\ FrameSound(g) /\ g.pc \notin InTransaction
      BY <2>1, <1>1 DEF Frame, Labels, FrameSound, InTransaction
    <2>3. NextVictim(f) \in Frame /\ FrameSound(NextVictim(f))
          /\ NextVictim(f).pc \notin InTransaction
      BY <2>1, <1>1 DEF NextVictim, Frame, Labels, FrameSound, InTransaction
    <2> QED BY <1>b, <2>1, <2>2, <2>3, OutsideStep DEF FindUsage
  <1>c. CASE Crash(w)
    BY <1>c, <1>1, IdleFrame, OutsideStep DEF Crash
  <1>d. ASSUME NEW o \in Orders, Release(w, o)
        PROVE  IInv'
    <2> DEFINE g == [Idle EXCEPT !.todo = {o}, !.pc = "release"]
    <2>1. g \in Frame /\ FrameSound(g) /\ g.pc \notin InTransaction
      BY IdleFrame DEF Frame, Labels, FrameSound, InTransaction, Idle
    <2>2. f.pc \notin InTransaction
      BY <1>d DEF Release, Free, At, InTransaction
    <2> QED BY <1>d, <2>1, <2>2, OutsideStep DEF Release
  <1>e. ASSUME NEW o \in Orders, Cancel(w, o)
        PROVE  IInv'
    <2> DEFINE g == [Idle EXCEPT !.victim = o, !.pc = "cancelTx"]
    <2>1. o \in Placed
      BY <1>e DEF Cancel, CANCELLABLE_STATUSES, Placed
    <2>2. g \in Frame /\ FrameSound(g) /\ g.pc \notin InTransaction
      BY <2>1, IdleFrame DEF Frame, Labels, FrameSound, InTransaction, Idle
    <2>3. f.pc \notin InTransaction
      BY <1>e DEF Cancel, Free, At, InTransaction
    <2> QED BY <1>e, <2>2, <2>3, OutsideStep DEF Cancel
  <1>f. CASE GiveUpWaiting(w)
    BY <1>f, <1>1, IdleFrame, OutsideStep DEF GiveUpWaiting, At, InTransaction
  <1> QED BY <1>a, <1>b, <1>c, <1>d, <1>e, <1>f

-----------------------------------------------------------------------------
(* Steps that write tables no frame relies on. *)

(* The benefit tables are written, or a column of an order or a cart that no   *)
(* frame looks at.                                                            *)
LEMMA LooseStep ==
    ASSUME IInv, TypeOK', NEW w \in Requests,
           request'[w] = request[w] \/ FrameSound(request'[w]),
           \A v \in Requests \ {w} : request'[v] = request[v],
           request'[w].pc \in InTransaction <=> request[w].pc \in InTransaction,
           UNCHANGED <<lockedBy, stockVars>>, Placed' = Placed
    PROVE  IInv'
  <1> USE DEF stockVars
  <1>1. TypeOK /\ OneAtATime
    BY DEF IInv
  <1>2. Undisturbed
    BY <1>1 DEF Undisturbed, TypeOK
  <1>3. ASSUME NEW v \in Requests PROVE FrameSound(request[v])'
    <2>1. CASE request'[v] = request[v]
      BY <2>1, <1>2, FramesStaySound DEF TypeOK
    <2>2. CASE FrameSound(request'[v])
      BY <2>2 DEF FrameSound, KeepsCount, Quantity, Items
    <2> QED BY <2>1, <2>2
  <1>4. OneAtATime'
    BY <1>1 DEF OneAtATime
  <1>5. (NotOversold /\ KeyOrdersOnce)'
    BY DEF IInv, NotOversold, KeyOrdersOnce, SameKey
  <1> QED BY <1>3, <1>4, <1>5 DEF IInv

LEMMA RestoreStep ==
    ASSUME IInv, NEW w \in Requests, DeleteUsage(w) \/ RestoreCount(w)
    PROVE  IInv'
  <1> DEFINE f == request[w]
  <1>1. f \in Frame /\ FrameSound(f) /\ TypeOK /\ Idle.pc \notin InTransaction
    BY FrameOf, IdleFrame DEF InTransaction, IInv
  <1>2. f.pc \in {"deleteUsage", "restoreCount"} /\ f.pc \notin InTransaction
    BY DEF DeleteUsage, RestoreCount, At, InTransaction
  <1> DEFINE g == [f EXCEPT !.pc = "restoreCount"]
  <1>3. g \in Frame /\ FrameSound(g) /\ g.pc \notin InTransaction
    BY <1>1, <1>2 DEF Frame, Labels, FrameSound, InTransaction
  <1>4. NextVictim(f) \in Frame /\ FrameSound(NextVictim(f))
        /\ NextVictim(f).pc \notin InTransaction
    BY <1>1, <1>2 DEF NextVictim, Frame, Labels, FrameSound, InTransaction
  <1>5. PICK k \in {g, Idle, NextVictim(f)} : Goto(w, k)
    BY DEF DeleteUsage, RestoreCount
  <1>6. k \in Frame /\ FrameSound(k) /\ k.pc \notin InTransaction
    BY <1>1, <1>3, <1>4, IdleFrame
  <1>7. UNCHANGED <<lockedBy, stockVars, orderVars>>
    BY DEF DeleteUsage, RestoreCount
  <1>8. usedCount' \in [Customers -> Nat] /\ usage' \subseteq Orders
    BY <1>1 DEF DeleteUsage, RestoreCount, TypeOK
  <1>9. TypeOK'
    BY <1>1, <1>5, <1>6, <1>7, <1>8, GotoFrame DEF TypeOK, stockVars, orderVars
  <1>10. Placed' = Placed
    BY <1>7 DEF Placed, orderVars
  <1> QED BY <1>1, <1>2, <1>5, <1>6, <1>7, <1>9, <1>10, GotoFrame, LooseStep

LEMMA OrdersCartsStep ==
    ASSUME IInv, \/ \E o \in Orders : ConfirmPaidOrder(o)
                 \/ \E c \in Customers : FillCart(c)
    PROVE  IInv'
  <1>1. UNCHANGED <<lockedBy, stockVars, benefitVars, hubAssigned, request>> /\ TypeOK
    BY DEF ConfirmPaidOrder, FillCart, IInv
  <1>2. /\ orderStatus' \in [Orders -> Statuses] /\ Placed' = Placed
        /\ cartFull' \in [Customers -> BOOLEAN]
    BY <1>1 DEF ConfirmPaidOrder, FillCart, Unpaid, TypeOK, Statuses, Placed
  <1>3. TypeOK'
    BY <1>1, <1>2 DEF TypeOK, stockVars, benefitVars
  <1>4. CASE Requests = {}
    BY <1>1, <1>2, <1>3, <1>4
       DEF IInv, OneAtATime, NotOversold, KeyOrdersOnce, SameKey, stockVars
  <1>5. CASE Requests # {}
    BY <1>1, <1>2, <1>3, <1>5, LooseStep
  <1> QED BY <1>4, <1>5

-----------------------------------------------------------------------------
LEMMA InitIInv == Init => IInv
  <1> SUFFICES ASSUME Init PROVE IInv
    OBVIOUS
  <1>1. TypeOK
    BY IdleFrame, ConstantsAssumption DEF Init, TypeOK, Statuses
  <1>2. \A w \in Requests : FrameSound(request[w]) /\ request[w].pc = "idle"
    BY IdleFrame DEF Init
  <1>3. OneAtATime
    BY <1>2, ConstantsAssumption DEF Init, OneAtATime, InTransaction
  <1>4. NotOversold /\ KeyOrdersOnce
    BY ConstantsAssumption DEF Init, NotOversold, KeyOrdersOnce, Placed
  <1> QED BY <1>1, <1>2, <1>3, <1>4 DEF IInv

LEMMA NextIInv == IInv /\ [Next]_vars => IInv'
  <1> SUFFICES ASSUME IInv, [Next]_vars PROVE IInv'
    OBVIOUS
  <1>1. ASSUME NEW w \in Requests, Step(w) PROVE IInv'
    BY <1>1, PrepareStep, NextOrderNumberStep, CommitStep, AbortStep, TakeStockStep,
       TakeVariantStep, ReleaseTxStep, BetweenStep, CancelTxStep, RestoreStep DEF Step
  <1>2. ASSUME NEW w \in Requests, NEW o \in Orders,
               PlaceOrder(w, o) \/ Release(w, o) \/ Cancel(w, o)
        PROVE  IInv'
    BY <1>2, PlaceOrderStep, BetweenStep
  <1>3. ASSUME NEW w \in Requests, Crash(w) \/ GiveUpWaiting(w) PROVE IInv'
    BY <1>3, BetweenStep
  <1>4. CASE UNCHANGED vars
    BY <1>4 DEF vars, stockVars, orderVars, benefitVars, IInv, TypeOK, OneAtATime,
       FrameSound, NotOversold, KeyOrdersOnce, KeepsCount, Quantity, Items, Placed, SameKey
  <1> QED BY <1>1, <1>2, <1>3, <1>4, OrdersCartsStep DEF Next

(* The placement that holds the row of the order number is alone inside its    *)
(* transaction, and what every request has read still holds (placeOrder,      *)
(* releaseUnpaidOnlineOrder, cancel): the inductive invariant.                *)
THEOREM Invariance == Spec => []IInv
  BY InitIInv, NextIInv, PTL DEF Spec

(* Every table and every frame keeps its type; in particular nothing that is   *)
(* returned drives reservedQty below zero.                                    *)
THEOREM TypeCorrect == Spec => []TypeOK
  <1>1. IInv => TypeOK
    BY DEF IInv
  <1> QED BY <1>1, Invariance, PTL

(* However many placements race, the hub's stock stays above zero, although    *)
(* placeOrder checks it without a lock and decrements it without a guard.     *)
THEOREM StockIsNotOversold == Spec => []NotOversold
  <1>1. IInv => NotOversold
    BY DEF IInv
  <1> QED BY <1>1, Invariance, PTL

(* One idempotency key of a customer makes at most one order (placeOrder).     *)
THEOREM KeysAreOnce == Spec => []KeyOrdersOnce
  <1>1. IInv => KeyOrdersOnce
    BY DEF IInv
  <1> QED BY <1>1, Invariance, PTL

(* Only a commit creates an order, and it creates one. *)
LEMMA OnlyCommitPlaces ==
    ASSUME IInv, [Next]_vars, NEW o \in Orders, o \in Placed', o \notin Placed
    PROVE  \E w \in Requests : Commit(w) /\ o = request[w].order
  <1>1. orderStatus' # orderStatus /\ orderStatus[o] = "none" /\ orderStatus'[o] # "none"
    BY DEF Placed
  <1>2. TypeOK
    BY DEF IInv
  <1>a. ASSUME NEW w \in Requests, Step(w)
        PROVE  Commit(w) /\ o = request[w].order
    <2>1. CASE Commit(w)
      BY <2>1, <1>1, <1>2 DEF Commit, TypeOK
    <2>2. ASSUME NEW x \in Orders, ReleaseTx(w, x) PROVE FALSE
      BY <2>2, <1>1, <1>2 DEF ReleaseTx, Releasable, Unpaid, TypeOK
    <2>3. CASE CancelTx(w)
      <3>1. request[w].victim \in Placed
        BY <2>3, FrameOf DEF CancelTx, At, FrameSound
      <3> QED BY <2>3, <3>1, <1>1, <1>2 DEF CancelTx, Placed, TypeOK
    <2>4. CASE ~Commit(w) /\ ~CancelTx(w) /\ ~\E x \in Orders : ReleaseTx(w, x)
      BY <1>a, <2>4, <1>1 DEF Step, Prepare, NextOrderNumber, Abort, TakeStock,
         TakeVariant, ReleasesDone, FindUsage, DeleteUsage, RestoreCount, orderVars
    <2> QED BY <2>1, <2>2, <2>3, <2>4
  <1>b. ASSUME NEW w \in Requests, NEW x \in Orders,
               PlaceOrder(w, x) \/ Release(w, x) \/ Cancel(w, x) \/ Crash(w)
               \/ GiveUpWaiting(w)
        PROVE  FALSE
    BY <1>b, <1>1 DEF PlaceOrder, Release, Cancel, Crash, GiveUpWaiting, orderVars
  <1>c. ASSUME NEW x \in Orders, ConfirmPaidOrder(x) PROVE FALSE
    BY <1>c, <1>1, <1>2 DEF ConfirmPaidOrder, Unpaid, TypeOK
  <1>d. ASSUME NEW c \in Customers, FillCart(c) PROVE FALSE
    BY <1>d, <1>1 DEF FillCart
  <1>e. CASE UNCHANGED vars
    BY <1>e, <1>1 DEF vars, orderVars
  <1> QED BY <1>a, <1>b, <1>c, <1>d, <1>e DEF Next

(* A placement takes its share from what the variant has left when it commits, *)
(* although it writes a number it computed when it read it (placeOrder).      *)
THEOREM WritesAreFresh == Spec => VariantWriteIsFresh
  <1> DEFINE Fresh == \A o \in Placed' \ Placed : \A p \in Items(o) :
                         KeepsCount(p) => /\ stock'[p] = stock[p] - Quantity(o, p)
                                          /\ stock'[p] >= 0
  <1>1. IInv /\ [Next]_vars => Fresh
    <2> SUFFICES ASSUME IInv, [Next]_vars, NEW o \in Placed', o \notin Placed,
                        NEW p \in Items(o), KeepsCount(p)
                 PROVE  stock'[p] = stock[p] - Quantity(o, p) /\ stock'[p] >= 0
      OBVIOUS
    <2>1. o \in Orders /\ p \in Products
      BY DEF Placed, Items
    <2>2. PICK w \in Requests : Commit(w) /\ o = request[w].order
      BY <2>1, OnlyCommitPlaces
    <2>3. FrameSound(request[w]) /\ request[w].pc = "commit"
      BY <2>2, FrameOf DEF Commit, At
    <2>4. /\ p \in request[w].counted
          /\ request[w].remaining[p] = stock[p] - Quantity(o, p)
          /\ request[w].remaining[p] >= 0
      BY <2>2, <2>3 DEF FrameSound
    <2> QED BY <2>1, <2>2, <2>4 DEF Commit, WriteVariants
  <1>2. Fresh => [Fresh]_vars
    OBVIOUS
  <1> QED BY <1>1, Invariance, PTL DEF Spec, VariantWriteIsFresh

-----------------------------------------------------------------------------
(* What orders ask for together. *)

(* What a set of orders asks of a product, as the sum of its orders'          *)
(* quantities (the items placeOrder loops over).                              *)
LEMMA AskedIsSum ==
    ASSUME NEW S, NEW p
    PROVE  Asked(S, p) = SumOf([o \in S |-> Quantity(o, p)], S)
  BY DEF Asked, SumOf

(* Orders together ask for a natural number, and for no less than each of     *)
(* them.                                                                      *)
LEMMA AskedNatural ==
    ASSUME NEW S \in SUBSET Orders, IsFiniteSet(S), NEW p \in Products
    PROVE  /\ Asked(S, p) \in Nat
           /\ \A o \in S : Quantity(o, p) <= Asked(S, p)
  <1> DEFINE q == [o \in S |-> Quantity(o, p)]
  <1>1. \A o \in S : q[o] \in Nat /\ q[o] = Quantity(o, p)
    BY QuantityNat
  <1> HIDE DEF q
  <1>2. SumOf(q, S) \in Nat /\ \A o \in S : q[o] <= SumOf(q, S)
    BY <1>1, SumNatural
  <1>3. Asked(S, p) = SumOf(q, S)
    BY AskedIsSum DEF q
  <1> QED BY <1>1, <1>2, <1>3

(* One order more. *)
LEMMA AskedMore ==
    ASSUME NEW S \in SUBSET Orders, IsFiniteSet(S), NEW o \in Orders, o \notin S,
           NEW p \in Products
    PROVE  Asked(S \cup {o}, p) = Asked(S, p) + Quantity(o, p)
  <1> DEFINE T == S \cup {o}
             q == [x \in S |-> Quantity(x, p)]
             r == [x \in T |-> Quantity(x, p)]
  <1>1. /\ \A x \in T : r[x] \in Int /\ r[x] = Quantity(x, p)
        /\ \A x \in S : q[x] = r[x]
    BY QuantityNat
  <1>2. Asked(T, p) = SumOf(r, T) /\ Asked(S, p) = SumOf(q, S)
    BY AskedIsSum
  <1> HIDE DEF q, r
  <1>3. SumOf(q, S) = SumOf(r, S)
    BY <1>1, SumSame
  <1>4. \A x \in S \cup {o} : r[x] \in Int
    BY <1>1
  <1>5. SumOf(r, S \cup {o}) = SumOf(r, S) + r[o]
    BY <1>4, SumAdd
  <1> QED BY <1>1, <1>2, <1>3, <1>5

(* One order less. *)
LEMMA AskedLess ==
    ASSUME NEW S \in SUBSET Orders, IsFiniteSet(S), NEW o \in S, NEW p \in Products
    PROVE  Asked(S \ {o}, p) = Asked(S, p) - Quantity(o, p)
  <1> DEFINE U == S \ {o}
  <1>1. IsFiniteSet(U) /\ o \in Orders /\ o \notin U /\ U \in SUBSET Orders /\ U \cup {o} = S
    BY FS_RemoveElement
  <1> HIDE DEF U
  <1>2. Asked(U \cup {o}, p) = Asked(U, p) + Quantity(o, p)
    BY <1>1, AskedMore
  <1>3. Asked(U, p) \in Nat /\ Quantity(o, p) \in Nat
    BY <1>1, AskedNatural, QuantityNat
  <1>4. Asked(S, p) = Asked(U, p) + Quantity(o, p)
    BY <1>1, <1>2
  <1>5. Asked(U, p) = Asked(S, p) - Quantity(o, p)
    BY <1>3, <1>4
  <1> QED BY <1>5 DEF U

(* Asked says the same of a set tomorrow as of that set today. *)
LEMMA AskedLater ==
    ASSUME NEW p
    PROVE  Asked(Placed, p)' = Asked(Placed', p) /\ Asked(Holding, p)' = Asked(Holding', p)
  BY DEF Asked, Quantity, MapThenSumSet, MapThenFoldSet

-----------------------------------------------------------------------------
(* Frames. *)

(* A request places an order that is not there yet, and takes the hub's stock  *)
(* of all its items or of none.                                               *)
Fits(f) ==
    /\ f.order # None => f.order \in Orders \ Placed
    /\ f.pc = "takeStock" => f.hub
    /\ f.pc \in {"takeVariants", "commit"} =>
          IF f.hub THEN Items(f.order) \subseteq f.taken ELSE f.taken = {}

FramesFit ==
    /\ \A w \in Requests : Fits(request[w])
    /\ \A w, v \in Requests :
          request[w].order = request[v].order /\ request[w].order # None => w = v

(* A request that moves on keeps the frames of all requests fitting, if no    *)
(* other is at work on its order.                                             *)
LEMMA FramesGo ==
    ASSUME TypeOK, FramesFit, NEW w \in Requests, NEW g \in Frame, Goto(w, g), Fits(g),
           \/ /\ Placed' = Placed
              /\ g.order \in {request[w].order, None} \/ PlacedBy(g.order) = {}
           \/ g.order = None /\ Placed' = Placed \cup {request[w].order}
    PROVE  FramesFit'
  <1>1. /\ request'[w] = g
        /\ \A v \in Requests \ {w} : request'[v] = request[v]
    BY GotoFrame
  <1>2. ASSUME NEW v \in Requests PROVE Fits(request[v])'
    <2>1. CASE v = w
      BY <2>1, <1>1 DEF Fits, Items
    <2>2. CASE v # w
      <3>1. request'[v] = request[v] /\ Fits(request[v])
        BY <2>2, <1>1 DEF FramesFit
      <3>2. request[v].order # None => request[v].order # request[w].order
        BY <2>2 DEF FramesFit
      <3> QED BY <3>1, <3>2 DEF Fits, Items
    <2> QED BY <2>1, <2>2
  <1>3. ASSUME NEW v \in Requests, NEW u \in Requests, v # u,
               request'[v].order = request'[u].order, request'[v].order # None
        PROVE  FALSE
    <2>1. PICK x \in Requests \ {w} : /\ request'[x] = request[x]
                                      /\ g.order = request[x].order
                                      /\ g.order # None
      BY <1>1, <1>3 DEF FramesFit
    <2>2. x \in PlacedBy(g.order)
      BY <2>1 DEF PlacedBy
    <2> QED BY <2>1, <2>2 DEF FramesFit
  <1> QED BY <1>2, <1>3 DEF FramesFit

(* Outside the transaction a frame fits as soon as its order does. *)
LEMMA FitsOutside ==
    ASSUME NEW f, Fits(f), NEW g, g.order \in {f.order, None}, g.pc \notin InTransaction
    PROVE  Fits(g)
  BY DEF Fits, InTransaction

LEMMA IdleFits == Fits(Idle) /\ Idle.order = None /\ Idle \in Frame
  BY IdleFrame DEF Fits, Idle

(* Only a commit changes which orders there are, and what variants show. *)
LEMMA CommitOrNothing ==
    ASSUME IInv, [Next]_vars, ~\E w \in Requests : Commit(w)
    PROVE  Placed' = Placed /\ UNCHANGED <<stock, inStock>>
  <1> USE DEF stockVars, orderVars
  <1>1. TypeOK
    BY DEF IInv
  <1>2. ASSUME NEW o \in Placed PROVE o \in Placed'
    <2>1. o \in Orders /\ orderStatus[o] # "none"
      BY DEF Placed
    <2>2. ASSUME NEW w \in Requests, NEW x \in Orders, ReleaseTx(w, x) PROVE o \in Placed'
      BY <2>1, <2>2, <1>1 DEF ReleaseTx, Placed, TypeOK
    <2>3. ASSUME NEW w \in Requests, CancelTx(w) PROVE o \in Placed'
      BY <2>1, <2>3, <1>1 DEF CancelTx, Placed, TypeOK
    <2>4. ASSUME NEW x \in Orders, ConfirmPaidOrder(x) PROVE o \in Placed'
      BY <2>1, <2>4, <1>1 DEF ConfirmPaidOrder, Placed, TypeOK
    <2>5. CASE UNCHANGED orderStatus
      BY <2>1, <2>5 DEF Placed
    <2>6. ASSUME NEW w \in Requests, Step(w) PROVE o \in Placed'
      BY <2>6, <2>2, <2>3, <2>5 DEF Step, Prepare, NextOrderNumber, Abort, TakeStock,
         TakeVariant, ReleasesDone, FindUsage, DeleteUsage, RestoreCount
    <2>7. ASSUME NEW w \in Requests, NEW x \in Orders,
                 PlaceOrder(w, x) \/ Release(w, x) \/ Cancel(w, x)
          PROVE  o \in Placed'
      BY <2>7, <2>5 DEF PlaceOrder, Release, Cancel
    <2>8. ASSUME NEW w \in Requests, Crash(w) \/ GiveUpWaiting(w) PROVE o \in Placed'
      BY <2>8, <2>5 DEF Crash, GiveUpWaiting
    <2>9. CASE UNCHANGED vars \/ \E c \in Customers : FillCart(c)
      BY <2>9, <2>5 DEF FillCart, vars
    <2> QED BY <2>4, <2>6, <2>7, <2>8, <2>9 DEF Next
  <1>3. \A o \in Placed' : o \in Placed
    BY OnlyCommitPlaces DEF Placed
  <1>4. UNCHANGED <<stock, inStock>>
    <2>1. ASSUME NEW w \in Requests, Step(w) PROVE UNCHANGED <<stock, inStock>>
      BY <2>1 DEF Step, Prepare, NextOrderNumber, Abort, TakeStock, TakeVariant, ReleaseTx,
         CancelTx, ReturnStock, ReleasesDone, FindUsage, DeleteUsage, RestoreCount
    <2>2. ASSUME NEW w \in Requests, NEW x \in Orders,
                 PlaceOrder(w, x) \/ Release(w, x) \/ Cancel(w, x)
          PROVE  UNCHANGED <<stock, inStock>>
      BY <2>2 DEF PlaceOrder, Release, Cancel
    <2>3. ASSUME NEW w \in Requests, Crash(w) \/ GiveUpWaiting(w)
          PROVE  UNCHANGED <<stock, inStock>>
      BY <2>3 DEF Crash, GiveUpWaiting
    <2>4. CASE \/ UNCHANGED vars
               \/ \E c \in Customers : FillCart(c)
               \/ \E x \in Orders : ConfirmPaidOrder(x)
      BY <2>4 DEF FillCart, ConfirmPaidOrder, vars
    <2> QED BY <2>1, <2>2, <2>3, <2>4 DEF Next
  <1> QED BY <1>2, <1>3, <1>4

(* A commit adds its order to those that are placed, and no other placement    *)
(* is about the same.                                                         *)
LEMMA CommitPlaces ==
    ASSUME IInv, FramesFit, NEW w \in Requests, Commit(w)
    PROVE  /\ request[w].order \in Orders \ Placed
           /\ Placed' = Placed \cup {request[w].order}
           /\ Goto(w, Idle)
           /\ request[w] \in Frame /\ request[w].pc = "commit"
           /\ FrameSound(request[w]) /\ Fits(request[w])
  <1> DEFINE f == request[w]
             o == f.order
  <1>1. f \in Frame /\ FrameSound(f) /\ f.pc = "commit" /\ o \in Orders /\ Fits(f)
    BY FrameOf DEF Commit, At, FrameSound, InTransaction, FramesFit
  <1>2. o \notin Placed
    BY <1>1, ConstantsAssumption DEF Fits
  <1>3. PICK s \in {"PENDING", "HUB_ASSIGNED", "AWAITING_HUB_ALLOCATION"} :
           orderStatus' = [orderStatus EXCEPT ![o] = s]
    <2>1. CASE o \in Online
      BY <2>1 DEF Commit
    <2>2. CASE o \notin Online /\ f.hub
      BY <2>2 DEF Commit
    <2>3. CASE o \notin Online /\ ~f.hub
      BY <2>3 DEF Commit
    <2> QED BY <2>1, <2>2, <2>3
  <1>4. Placed' = Placed \cup {o}
    BY <1>1, <1>3 DEF IInv, TypeOK, Placed
  <1> QED BY <1>1, <1>2, <1>4 DEF Commit

(* The steps outside the transaction: the request goes on, for the same order  *)
(* or for none any more.                                                      *)
Outside(w) ==
    \/ Prepare(w) \/ Abort(w) \/ ReleasesDone(w) \/ CancelTx(w) \/ FindUsage(w)
    \/ DeleteUsage(w) \/ RestoreCount(w) \/ Crash(w) \/ GiveUpWaiting(w)
    \/ \E o \in Orders : ReleaseTx(w, o) \/ Release(w, o) \/ Cancel(w, o)

(* How a request goes on outside the transaction: only the deletion of a usage  *)
(* row leads to a restore, only a cancellation to the transaction of one.     *)
Onward(w, g) ==
    /\ Goto(w, g)
    /\ g.pc = "restoreCount" => DeleteUsage(w)
    /\ g.pc = "cancelTx" => \E o \in Orders : Cancel(w, o)

LEMMA FrameGoes ==
    ASSUME IInv, NEW w \in Requests, Outside(w)
    PROVE  \E g \in Frame : /\ Onward(w, g)
                            /\ g.order \in {request[w].order, None}
                            /\ g.pc \notin InTransaction
  <1> DEFINE f == request[w]
             Good(g) == /\ g \in Frame /\ g.order \in {f.order, None}
                        /\ g.pc \notin InTransaction
             Calm(g) == Good(g) /\ g.pc \notin {"restoreCount", "cancelTx"}
             Goal == \E g : Onward(w, g) /\ Good(g)
  <1>1. f \in Frame /\ FrameSound(f)
    BY FrameOf
  <1>2. Calm(Idle)
    BY IdleFrame DEF InTransaction, Idle
  <1>3. f.pc \notin InTransaction => Calm(NextVictim(f))
    BY <1>1 DEF NextVictim, Frame, Labels, InTransaction
  <1>4. /\ \A l \in {"prepare", "findUsage", "deleteUsage"} : Calm([f EXCEPT !.pc = l])
        /\ Good([f EXCEPT !.pc = "restoreCount"])
        /\ [f EXCEPT !.pc = "restoreCount"].pc = "restoreCount"
    BY <1>1 DEF Frame, Labels, InTransaction
  <1>6. ASSUME NEW g, Goto(w, g), Calm(g) PROVE Goal
    BY <1>6 DEF Onward
  <1>a. CASE Prepare(w)
    <2> DEFINE g == [f EXCEPT
                      !.pc   = "lock",
                      !.free = /\ f.order \in ByBike
                               /\ usedCount[CustomerOf[f.order]] < totalAllowed,
                      !.hub  = \A p \in Items(f.order) :
                                  availableQty[p] >= Quantity(f.order, p)]
    <2>1. Calm(g)
      <3>1. \A free, hub \in BOOLEAN :
               Calm([f EXCEPT !.pc = "lock", !.free = free, !.hub = hub])
        BY <1>1 DEF Frame, Labels, InTransaction
      <3> HIDE DEF Calm
      <3> QED BY <3>1
    <2>2. Goto(w, g) \/ Goto(w, Idle)
      BY <1>a DEF Prepare
    <2> QED BY <2>1, <2>2, <1>2, <1>6
  <1>b. CASE Abort(w) \/ Crash(w) \/ GiveUpWaiting(w)
    BY <1>b, <1>2, <1>6 DEF Abort, Rollback, Crash, GiveUpWaiting
  <1>c. CASE ReleasesDone(w)
    BY <1>c, <1>2, <1>4, <1>6 DEF ReleasesDone
  <1>d. CASE CancelTx(w)
    BY <1>d, <1>4, <1>6 DEF CancelTx
  <1>e. CASE FindUsage(w)
    <2>1. Calm(NextVictim(f))
      BY <1>e, <1>3 DEF FindUsage, At, InTransaction
    <2> QED BY <1>e, <2>1, <1>4, <1>6 DEF FindUsage
  <1>f. CASE DeleteUsage(w)
    <2> DEFINE g == [f EXCEPT !.pc = "restoreCount"]
    <2>1. Goto(w, g) \/ Goto(w, Idle)
      BY <1>f DEF DeleteUsage
    <2>2. Onward(w, g) \/ Goto(w, Idle)
      BY <1>f, <1>4, <2>1 DEF Onward
    <2> QED BY <2>2, <1>2, <1>4, <1>6
  <1>i. CASE RestoreCount(w)
    <2>1. Calm(NextVictim(f))
      BY <1>i, <1>3 DEF RestoreCount, At, InTransaction
    <2> QED BY <1>i, <2>1, <1>6 DEF RestoreCount
  <1>g. ASSUME NEW o \in Orders, ReleaseTx(w, o) PROVE Goal
    <2> DEFINE g == [f EXCEPT !.pc = "findUsage", !.victim = o]
               h == [f EXCEPT !.todo = @ \ {o}]
    <2>1. f.pc = "release"
      BY <1>g DEF ReleaseTx, At
    <2>2. Calm(g) /\ Calm(h)
      BY <1>1, <2>1 DEF Frame, Labels, InTransaction
    <2>3. Goto(w, g) \/ Goto(w, h)
      BY <1>g DEF ReleaseTx
    <2> QED BY <2>2, <2>3, <1>6
  <1>h. ASSUME NEW o \in Orders, Release(w, o) \/ Cancel(w, o) PROVE Goal
    <2> DEFINE g == [Idle EXCEPT !.todo = {o}, !.pc = "release"]
               h == [Idle EXCEPT !.victim = o, !.pc = "cancelTx"]
    <2>1. Calm(g) /\ Good(h) /\ h.pc = "cancelTx"
      BY IdleFrame DEF Frame, Labels, InTransaction, Idle
    <2>2. Goto(w, g) \/ (Goto(w, h) /\ Cancel(w, o))
      BY <1>h DEF Release, Cancel
    <2>3. Goto(w, g) \/ Onward(w, h)
      BY <2>1, <2>2 DEF Onward
    <2> QED BY <2>1, <2>3, <1>6
  <1>j. Goal
    BY <1>a, <1>b, <1>c, <1>d, <1>e, <1>f, <1>g, <1>h, <1>i DEF Outside
  <1> QED BY <1>j

(* A new placement and the statements of a transaction do not lead to a restore *)
(* either, nor to the transaction of a cancellation.                          *)
Inside(w) ==
    \/ NextOrderNumber(w) \/ Commit(w)
    \/ \E p \in Products : TakeStock(w, p) \/ TakeVariant(w, p)
    \/ \E o \in Orders : PlaceOrder(w, o)

LEMMA InsideGoes ==
    ASSUME IInv, NEW w \in Requests, Inside(w)
    PROVE  \E g : Onward(w, g)
  <1> DEFINE f == request[w]
  <1>1. f \in Frame /\ Idle \in Frame /\ Idle.pc = "idle"
    BY FrameOf, IdleFrame
  <1>2. ASSUME NEW g, Goto(w, g), g.pc \notin {"restoreCount", "cancelTx"}
        PROVE  \E k : Onward(w, k)
    BY <1>2 DEF Onward
  <1>3. CASE NextOrderNumber(w)
    <2> DEFINE g == [f EXCEPT !.pc = IF f.hub THEN "takeStock" ELSE "takeVariants"]
    <2>1. Goto(w, g) /\ g.pc \notin {"restoreCount", "cancelTx"}
      BY <1>1, <1>3 DEF NextOrderNumber, Frame
    <2> QED BY <2>1, <1>2
  <1>4. ASSUME NEW p \in Products, TakeStock(w, p) PROVE \E k : Onward(w, k)
    <2> DEFINE g == [f EXCEPT !.taken = @ \cup {p},
                            !.pc = IF Items(f.order) \subseteq f.taken \cup {p}
                                   THEN "takeVariants" ELSE "takeStock"]
    <2>1. Goto(w, g) \/ Goto(w, Idle)
      BY <1>4 DEF TakeStock, Rollback
    <2>2. g.pc \notin {"restoreCount", "cancelTx"}
      BY <1>1 DEF Frame
    <2> QED BY <2>1, <2>2, <1>1, <1>2
  <1>5. ASSUME NEW p \in Products, TakeVariant(w, p) PROVE \E k : Onward(w, k)
    <2> DEFINE g == [f EXCEPT
                       !.read = @ \cup {p},
                       !.counted = IF KeepsCount(p) THEN @ \cup {p} ELSE @,
                       !.remaining = [@ EXCEPT ![p] = stock[p] - Quantity(f.order, p)],
                       !.pc = IF Items(f.order) \subseteq f.read \cup {p}
                              THEN "commit" ELSE "takeVariants"]
    <2>1. Goto(w, g) \/ Goto(w, Idle)
      BY <1>5 DEF TakeVariant, Rollback
    <2>2. g.pc \notin {"restoreCount", "cancelTx"}
      BY <1>1 DEF Frame
    <2> QED BY <2>1, <2>2, <1>1, <1>2
  <1>6. ASSUME NEW o \in Orders, PlaceOrder(w, o) PROVE \E k : Onward(w, k)
    <2> DEFINE g == [Idle EXCEPT !.order = o,
                           !.todo = IF o \in Online THEN {}
                                    ELSE {x \in Placed : /\ CustomerOf[x] = CustomerOf[o]
                                                         /\ Unpaid(x)},
                           !.pc = "release"]
    <2>1. Goto(w, g)
      BY <1>6 DEF PlaceOrder
    <2>2. g.pc \notin {"restoreCount", "cancelTx"}
      BY <1>1 DEF Frame
    <2> QED BY <2>1, <2>2, <1>2
  <1>7. CASE Commit(w)
    BY <1>7, <1>1, <1>2 DEF Commit
  <1> QED BY <1>3, <1>4, <1>5, <1>6, <1>7 DEF Inside

(* Every step of placeOrder and of the handlers that give orders up keeps the *)
(* frames fitting.                                                            *)
LEMMA FramesNext ==
    ASSUME IInv, FramesFit, [Next]_vars
    PROVE  FramesFit'
  <1>1. TypeOK
    BY DEF IInv
  <1>2. ASSUME NEW w \in Requests, NEW g \in Frame, Goto(w, g), Fits(g),
               g.order \in {request[w].order, None}, ~\E v \in Requests : Commit(v)
        PROVE  FramesFit'
    BY <1>1, <1>2, CommitOrNothing, FramesGo
  <1>3. ASSUME NEW w \in Requests, Goto(w, Idle), ~\E v \in Requests : Commit(v)
        PROVE  FramesFit'
    BY <1>2, <1>3, IdleFits
  <1>4. ASSUME NEW w \in Requests, Commit(w) PROVE FramesFit'
    BY <1>1, <1>4, CommitPlaces, IdleFits, FramesGo
  <1>5. CASE \E w \in Requests : Commit(w)
    BY <1>4, <1>5
  <1>6. CASE ~\E w \in Requests : Commit(w)
    <2>1. ASSUME NEW w \in Requests, NEW g, Goto(w, g), g.order \in {request[w].order, None},
                 g \in Frame, g.pc \notin InTransaction
          PROVE  FramesFit'
      BY <2>1, <1>2, <1>6, FitsOutside DEF FramesFit
    <2>2. ASSUME NEW w \in Requests
          PROVE  request[w] \in Frame /\ FrameSound(request[w]) /\ Fits(request[w])
      BY FrameOf DEF FramesFit
    <2>3. ASSUME NEW w \in Requests, NextOrderNumber(w) PROVE FramesFit'
      <3> DEFINE f == request[w]
                 g == [f EXCEPT !.pc = IF f.hub THEN "takeStock" ELSE "takeVariants"]
      <3>1. /\ f \in Frame /\ f.taken = {} /\ Fits(f) /\ f.pc = "lock"
        BY <2>2, <2>3 DEF NextOrderNumber, At, FrameSound, InTransaction
      <3>2. g \in Frame /\ g.order = f.order /\ Fits(g)
        BY <3>1 DEF Frame, Labels, InTransaction, Fits
      <3> QED BY <2>3, <3>2, <1>2, <1>6 DEF NextOrderNumber
    <2>4. ASSUME NEW w \in Requests, NEW p \in Products, TakeStock(w, p) PROVE FramesFit'
      <3> DEFINE f == request[w]
                 g == [f EXCEPT !.taken = @ \cup {p},
                            !.pc = IF Items(f.order) \subseteq f.taken \cup {p}
                                   THEN "takeVariants" ELSE "takeStock"]
      <3>1. f \in Frame /\ Fits(f) /\ f.pc = "takeStock" /\ f.hub
        BY <2>2, <2>4 DEF TakeStock, At, Fits
      <3>2. g \in Frame /\ g.order = f.order /\ Fits(g)
        BY <3>1 DEF Frame, Labels, InTransaction, Fits
      <3>3. Goto(w, g) \/ Goto(w, Idle)
        BY <2>4 DEF TakeStock, Rollback
      <3> QED BY <3>2, <3>3, <1>2, <1>3, <1>6
    <2>5. ASSUME NEW w \in Requests, NEW p \in Products, TakeVariant(w, p) PROVE FramesFit'
      <3> DEFINE f == request[w]
                 g == [f EXCEPT
                       !.read = @ \cup {p},
                       !.counted = IF KeepsCount(p) THEN @ \cup {p} ELSE @,
                       !.remaining = [@ EXCEPT ![p] = stock[p] - Quantity(f.order, p)],
                       !.pc = IF Items(f.order) \subseteq f.read \cup {p}
                              THEN "commit" ELSE "takeVariants"]
      <3>1. f \in Frame /\ Fits(f) /\ f.pc = "takeVariants" /\ f.order \in Orders
        BY <2>2, <2>5 DEF TakeVariant, At, FrameSound, InTransaction
      <3>2. stock[p] - Quantity(f.order, p) \in Int
        BY <3>1, <1>1, QuantityNat DEF TypeOK
      <3>3. [f.remaining EXCEPT ![p] = stock[p] - Quantity(f.order, p)] \in [Products -> Int]
        BY <3>1, <3>2 DEF Frame
      <3>4. /\ g \in Frame /\ g.order = f.order /\ g.hub = f.hub /\ g.taken = f.taken
            /\ g.pc \in {"commit", "takeVariants"}
        <4>1. {"commit", "takeVariants"} \subseteq Labels
          BY DEF Labels, InTransaction
        <4> QED BY <3>1, <3>3, <4>1 DEF Frame
      <3>5. Fits(g)
        <4> HIDE DEF g
        <4> QED BY <3>1, <3>4 DEF Fits
      <3>6. Goto(w, g) \/ Goto(w, Idle)
        BY <2>5 DEF TakeVariant, Rollback
      <3> QED BY <3>4, <3>5, <3>6, <1>2, <1>3, <1>6
    <2>6. ASSUME NEW w \in Requests, NEW o \in Orders, PlaceOrder(w, o) PROVE FramesFit'
      <3> DEFINE g == [Idle EXCEPT !.order = o,
                           !.todo = IF o \in Online THEN {}
                                    ELSE {x \in Placed : /\ CustomerOf[x] = CustomerOf[o]
                                                         /\ Unpaid(x)},
                           !.pc = "release"]
      <3>1. g \in Frame /\ g.order = o /\ g.pc = "release" /\ PlacedBy(g.order) = {}
        BY <2>6, IdleFrame DEF PlaceOrder, Frame, Labels, Placed
      <3>2. Goto(w, g) /\ o \notin Placed
        BY <2>6 DEF PlaceOrder, Placed
      <3>3. Fits(g)
        BY <3>1, <3>2 DEF Fits
      <3> HIDE DEF g
      <3> QED BY <1>1, <1>6, <3>1, <3>2, <3>3, CommitOrNothing, FramesGo
    <2>7. ASSUME NEW w \in Requests, Outside(w) PROVE FramesFit'
      <3>1. PICK g : Goto(w, g) /\ g.order \in {request[w].order, None} /\ g \in Frame
                     /\ g.pc \notin InTransaction
        BY <2>7, FrameGoes DEF Onward
      <3> QED BY <3>1, <2>1
    <2>8. CASE \/ UNCHANGED vars
               \/ \E c \in Customers : FillCart(c)
               \/ \E x \in Orders : ConfirmPaidOrder(x)
      <3>1. request' = request /\ Placed' = Placed
        BY <2>8, <1>6, CommitOrNothing DEF vars, FillCart, ConfirmPaidOrder
      <3> QED BY <3>1 DEF FramesFit, Fits, Items
    <2> QED BY <1>6, <2>3, <2>4, <2>5, <2>6, <2>7, <2>8 DEF Next, Step, Outside
  <1> QED BY <1>5, <1>6

-----------------------------------------------------------------------------
(* Variants. *)

\* A tracked variant keeps count, and shows what is left of it.
VariantsSound ==
    /\ IsFiniteSet(Placed)
    /\ \A p \in Tracked : KeepsCount(p)
    /\ VariantsAddUp

(* Before the first order, variants show the stock they began with.           *)
LEMMA VariantsInit ==
    ASSUME Init
    PROVE  VariantsSound
  <1>1. Placed = {}
    BY DEF Init, Placed
  <1>2. IsFiniteSet(Placed)
    BY <1>1, FS_EmptySet
  <1>3. ASSUME NEW p \in Tracked
        PROVE  KeepsCount(p) /\ stock[p] = VariantStock[p] - Asked(Placed, p)
    <2>1. p \in Products /\ VariantStock[p] \in Nat /\ stock[p] = VariantStock[p]
      BY <1>3, ConstantsAssumption DEF Init
    <2>2. inStock[p] => VariantStock[p] > 0
      BY <1>3, <2>1, ConstantsAssumption DEF Init
    <2>3. Asked(Placed, p) = 0
      BY <1>1, AskedIsSum, SumEmpty
    <2>4. KeepsCount(p)
      BY <2>1, <2>2 DEF KeepsCount
    <2>5. stock[p] = VariantStock[p] - Asked(Placed, p)
      BY <2>1, <2>3
    <2> QED BY <2>4, <2>5
  <1> QED BY <1>2, <1>3 DEF VariantsSound, VariantsAddUp

(* The stock a commit writes for a variant that keeps count is what is there   *)
(* less what the order takes.                                                 *)
LEMMA CommitCounts ==
    ASSUME IInv, FramesFit, VariantsSound, NEW w \in Requests, Commit(w), NEW p \in Tracked
    PROVE  stock'[p] = stock[p] - Quantity(request[w].order, p) /\ KeepsCount(p)'
  <1> DEFINE f == request[w]
             o == f.order
  <1>1. /\ o \in Orders /\ f \in Frame /\ f.pc = "commit" /\ FrameSound(f)
        /\ p \in Products /\ KeepsCount(p)
    BY CommitPlaces, ConstantsAssumption DEF VariantsSound
  <1>2. stock[p] \in Int /\ inStock[p] \in BOOLEAN /\ Quantity(o, p) \in Nat
    BY <1>1, QuantityNat DEF IInv, TypeOK
  <1>3. /\ stock' = [q \in Products |-> IF q \in f.counted THEN f.remaining[q] ELSE stock[q]]
        /\ inStock' = [q \in Products |-> IF q \in f.counted THEN f.remaining[q] > 0
                                          ELSE inStock[q]]
    BY DEF Commit, WriteVariants
  <1>4. CASE p \in f.counted
    <2>1. p \in f.read /\ f.remaining[p] = stock[p] - Quantity(o, p)
      BY <1>1, <1>4 DEF FrameSound
    <2>2. stock'[p] = f.remaining[p] /\ inStock'[p] = (f.remaining[p] > 0)
      BY <1>1, <1>3, <1>4
    <2> QED BY <1>2, <2>1, <2>2 DEF KeepsCount
  <1>5. CASE p \notin f.counted
    <2>1. p \notin f.read
      BY <1>1, <1>5 DEF FrameSound
    <2>2. p \notin Items(o)
      BY <1>1, <2>1 DEF FrameSound
    <2>3. Quantity(o, p) = 0
      BY <1>1, <1>2, <2>2 DEF Items, Quantity
    <2>4. stock'[p] = stock[p] /\ inStock'[p] = inStock[p]
      BY <1>1, <1>3, <1>5
    <2> QED BY <1>1, <1>2, <2>3, <2>4 DEF KeepsCount
  <1> QED BY <1>4, <1>5

(* Each placement's commit takes its quantities off the variants, and nothing *)
(* else writes them.                                                          *)
LEMMA VariantsNext ==
    ASSUME IInv, FramesFit, VariantsSound, [Next]_vars
    PROVE  VariantsSound'
  <1>0. Placed \subseteq Orders /\ Tracked \subseteq Products
    BY ConstantsAssumption DEF Placed
  <1>1. ASSUME NEW w \in Requests, Commit(w) PROVE VariantsSound'
    <2> DEFINE o == request[w].order
    <2>1. o \in Orders \ Placed /\ Placed' = Placed \cup {o}
      BY <1>1, CommitPlaces
    <2>2. IsFiniteSet(Placed)'
      BY <2>1, FS_AddElement DEF VariantsSound
    <2>3. ASSUME NEW p \in Tracked
          PROVE  KeepsCount(p)' /\ stock'[p] = VariantStock[p] - Asked(Placed, p)'
      <3>1. KeepsCount(p)' /\ stock'[p] = stock[p] - Quantity(o, p)
        BY <1>1, <2>3, CommitCounts
      <3>2. stock[p] = VariantStock[p] - Asked(Placed, p)
        BY <2>3 DEF VariantsSound, VariantsAddUp
      <3>3. Asked(Placed, p)' = Asked(Placed, p) + Quantity(o, p)
        <4>1. IsFiniteSet(Placed)
          BY DEF VariantsSound
        <4>2. Asked(Placed \cup {o}, p) = Asked(Placed, p) + Quantity(o, p)
          BY <1>0, <2>1, <2>3, <4>1, AskedMore
        <4> QED BY <2>1, <4>2, AskedLater
      <3>4. /\ Asked(Placed, p) \in Nat /\ VariantStock[p] \in Nat /\ Quantity(o, p) \in Nat
        BY <1>0, <2>1, <2>3, AskedNatural, QuantityNat, ConstantsAssumption DEF VariantsSound
      <3> QED BY <3>1, <3>2, <3>3, <3>4
    <2> QED BY <2>2, <2>3 DEF VariantsSound, VariantsAddUp
  <1>2. CASE ~\E w \in Requests : Commit(w)
    <2>1. Placed' = Placed /\ UNCHANGED <<stock, inStock>>
      BY <1>2, CommitOrNothing
    <2>2. \A p : Asked(Placed, p)' = Asked(Placed, p)
      BY <2>1, AskedLater
    <2>3. \A p : KeepsCount(p)' = KeepsCount(p)
      BY <2>1 DEF KeepsCount
    <2> QED BY <2>1, <2>2, <2>3 DEF VariantsSound, VariantsAddUp
  <1> QED BY <1>1, <1>2

-----------------------------------------------------------------------------
(* Free deliveries. *)

\* Usage rows belong to placed orders, and the counter fits them.
BenefitSound ==
    /\ IsFiniteSet(Placed)
    /\ usage \subseteq Placed
    /\ \A c \in Customers : IsFiniteSet(Restoring(c))
    /\ FreeDeliveriesAddUp

(* The restores under way change with the one request that moves. *)
LEMMA RestoringGoes ==
    ASSUME TypeOK, NEW w \in Requests, NEW g, Goto(w, g), NEW c \in Customers
    PROVE  /\ ~(g.pc = "restoreCount" /\ CustomerOf[g.victim] = c) =>
                  Restoring(c)' = Restoring(c) \ {w}
           /\ g.pc = "restoreCount" /\ CustomerOf[g.victim] = c =>
                  Restoring(c)' = Restoring(c) \cup {w}
  <1>1. /\ request'[w] = g
        /\ \A v \in Requests \ {w} : request'[v] = request[v]
    BY DEF TypeOK, Goto
  <1>2. \A v \in Requests \ {w} : v \in Restoring(c)' <=> v \in Restoring(c)
    BY <1>1 DEF Restoring, At
  <1>3. w \in Restoring(c)' <=> g.pc = "restoreCount" /\ CustomerOf[g.victim] = c
    BY <1>1 DEF Restoring, At
  <1>4. Restoring(c) \subseteq Requests /\ Restoring(c)' \subseteq Requests
    BY DEF Restoring
  <1> QED BY <1>2, <1>3, <1>4

(* Nothing but restores that are given up: the counter may stay too high, and  *)
(* only because of a crash.                                                   *)
LEMMA BenefitKept ==
    ASSUME IInv, BenefitSound, UNCHANGED benefitVars, Placed' = Placed,
           \A c \in Customers : /\ Restoring(c)' \subseteq Restoring(c)
                                /\ ~Crashes => Restoring(c)' = Restoring(c)
    PROVE  BenefitSound'
  <1>1. ASSUME NEW c \in Customers
        PROVE  /\ IsFiniteSet(Restoring(c)')
               /\ Cardinality(Restoring(c)') \in Nat /\ Cardinality(Restoring(c)) \in Nat
               /\ Cardinality(Restoring(c)') <= Cardinality(Restoring(c))
    BY FS_Subset, FS_CardinalityType DEF BenefitSound
  <1>2. ASSUME NEW c \in Customers
        PROVE  /\ UsedBy(c)' = UsedBy(c) /\ usedCount'[c] = usedCount[c]
               /\ Cardinality(UsedBy(c)) \in Nat /\ usedCount[c] \in Nat
    <2>1. IsFiniteSet(UsedBy(c))
      BY FS_Subset DEF BenefitSound, UsedBy
    <2> QED BY <2>1, FS_CardinalityType DEF benefitVars, UsedBy, IInv, TypeOK
  <1>3. FreeDeliveriesAddUp'
    <2> SUFFICES ASSUME NEW c \in Customers
                 PROVE  LET due == Cardinality(UsedBy(c)') + Cardinality(Restoring(c)')
                        IN  /\ usedCount'[c] <= totalAllowed
                            /\ usedCount'[c] >= due
                            /\ ~Crashes => usedCount'[c] = due
      BY DEF FreeDeliveriesAddUp
    <2>1. LET due == Cardinality(UsedBy(c)) + Cardinality(Restoring(c))
          IN  /\ usedCount[c] <= totalAllowed
              /\ usedCount[c] >= due
              /\ ~Crashes => usedCount[c] = due
      BY DEF BenefitSound, FreeDeliveriesAddUp
    <2>2. ~Crashes => Cardinality(Restoring(c)') = Cardinality(Restoring(c))
      OBVIOUS
    <2> QED BY <1>1, <1>2, <2>1, <2>2
  <1> QED BY <1>1, <1>3 DEF BenefitSound, benefitVars

(* To begin with no free delivery is used.                                    *)
LEMMA BenefitInit ==
    ASSUME Init
    PROVE  BenefitSound
  <1>1. Placed = {} /\ usage = {} /\ \A c \in Customers : usedCount[c] = 0
    BY DEF Init, Placed
  <1>2. \A c : UsedBy(c) = {} /\ Restoring(c) = {}
    BY <1>1 DEF Init, UsedBy, Restoring, At, Idle
  <1>3. IsFiniteSet({}) /\ Cardinality({}) = 0
    BY FS_EmptySet
  <1>4. totalAllowed \in Nat
    BY ConstantsAssumption
  <1>5. ASSUME NEW c \in Customers
        PROVE  /\ IsFiniteSet(Restoring(c))
               /\ LET due == Cardinality(UsedBy(c)) + Cardinality(Restoring(c))
                  IN  /\ usedCount[c] <= totalAllowed
                      /\ usedCount[c] >= due
                      /\ ~Crashes => usedCount[c] = due
    <2>1. /\ Cardinality(UsedBy(c)) = 0 /\ Cardinality(Restoring(c)) = 0
          /\ IsFiniteSet(Restoring(c)) /\ usedCount[c] = 0
      BY <1>1, <1>2, <1>3
    <2> QED BY <2>1, <1>4
  <1> QED BY <1>1, <1>3, <1>5 DEF BenefitSound, FreeDeliveriesAddUp

(* A customer's counter moves by as much as what is due. *)
LEMMA BenefitMoves ==
    ASSUME IInv, BenefitSound, NEW d \in Customers,
           IsFiniteSet(Placed'), usage' \subseteq Placed',
           usedCount' \in [Customers -> Nat],
           \A c \in Customers : IsFiniteSet(Restoring(c)'),
           \A c \in Customers \ {d} : /\ UsedBy(c)' = UsedBy(c)
                                      /\ Restoring(c)' = Restoring(c)
                                      /\ usedCount'[c] = usedCount[c],
           usedCount'[d] <= totalAllowed,
           usedCount'[d] - usedCount[d] =
               Cardinality(UsedBy(d)') - Cardinality(UsedBy(d))
               + Cardinality(Restoring(d)') - Cardinality(Restoring(d))
    PROVE  BenefitSound'
  <1>1. \A c \in Customers : /\ Cardinality(UsedBy(c)) \in Nat
                             /\ Cardinality(UsedBy(c)') \in Nat
                             /\ Cardinality(Restoring(c)) \in Nat
                             /\ Cardinality(Restoring(c)') \in Nat
                             /\ usedCount[c] \in Nat /\ usedCount'[c] \in Nat
    <2> TAKE c \in Customers
    <2>1. /\ UsedBy(c) \subseteq Placed /\ UsedBy(c)' \subseteq Placed'
          /\ IsFiniteSet(Placed) /\ IsFiniteSet(Restoring(c))
      BY DEF BenefitSound, UsedBy
    <2>2. IsFiniteSet(UsedBy(c)) /\ IsFiniteSet(UsedBy(c)')
      BY <2>1, FS_Subset
    <2> QED BY <2>1, <2>2, FS_CardinalityType DEF IInv, TypeOK
  <1>2. ASSUME NEW c \in Customers
        PROVE  /\ usedCount[c] <= totalAllowed
               /\ usedCount[c] >= Cardinality(UsedBy(c)) + Cardinality(Restoring(c))
               /\ ~Crashes =>
                     usedCount[c] = Cardinality(UsedBy(c)) + Cardinality(Restoring(c))
    BY DEF BenefitSound, FreeDeliveriesAddUp
  <1>3. ASSUME NEW c \in Customers
        PROVE  /\ usedCount'[c] <= totalAllowed
               /\ usedCount'[c] >= Cardinality(UsedBy(c)') + Cardinality(Restoring(c)')
               /\ ~Crashes =>
                     usedCount'[c] = Cardinality(UsedBy(c)') + Cardinality(Restoring(c)')
    <2>1. CASE c = d
      <3>1. /\ usedCount'[d] <= totalAllowed
            /\ usedCount'[d] >= Cardinality(UsedBy(d)') + Cardinality(Restoring(d)')
            /\ ~Crashes =>
                  usedCount'[d] = Cardinality(UsedBy(d)') + Cardinality(Restoring(d)')
        BY <1>1, <1>2
      <3> QED BY <2>1, <3>1
    <2>2. CASE c # d
      <3>1. /\ UsedBy(c)' = UsedBy(c) /\ Restoring(c)' = Restoring(c)
            /\ usedCount'[c] = usedCount[c]
        BY <2>2
      <3> QED BY <1>2, <3>1
    <2> QED BY <2>1, <2>2
  <1>4. FreeDeliveriesAddUp'
    BY <1>3 DEF FreeDeliveriesAddUp
  <1> QED BY <1>4 DEF BenefitSound

(* The usage rows of other customers do not move with one order's row. *)
LEMMA UsedByGoes ==
    ASSUME NEW o, NEW c
    PROVE  /\ usage' = usage \cup {o} /\ CustomerOf[o] = c => UsedBy(c)' = UsedBy(c) \cup {o}
           /\ usage' = usage \ {o} /\ CustomerOf[o] = c => UsedBy(c)' = UsedBy(c) \ {o}
           /\ usage' \in {usage \cup {o}, usage \ {o}} /\ CustomerOf[o] # c =>
                  UsedBy(c)' = UsedBy(c)
           /\ usage' = usage => UsedBy(c)' = UsedBy(c)
  BY DEF UsedBy

(* consumeFreeBikeDelivery: a committed order raises the counter and adds its *)
(* row, both or neither.                                                      *)
LEMMA CommitBenefit ==
    ASSUME IInv, FramesFit, BenefitSound, NEW w \in Requests, Commit(w)
    PROVE  BenefitSound'
  <1> SUFFICES ASSUME NEW f, f = request[w], NEW o, o = f.order, NEW d, d = CustomerOf[o]
               PROVE  BenefitSound'
    OBVIOUS
  <1>1. /\ o \in Orders \ Placed /\ Placed' = Placed \cup {o} /\ Goto(w, Idle)
        /\ f.pc = "commit" /\ d \in Customers /\ TypeOK
    BY CommitPlaces, ConstantsAssumption DEF IInv
  <1>2. /\ IsFiniteSet(Placed) /\ usage \subseteq Placed
        /\ \A c \in Customers : IsFiniteSet(Restoring(c))
    BY DEF BenefitSound
  <1>3. IsFiniteSet(Placed')
    BY <1>1, <1>2, FS_AddElement
  <1>4. \A c \in Customers : Restoring(c)' = Restoring(c)
    <2> TAKE c \in Customers
    <2>1. Restoring(c)' = Restoring(c) \ {w}
      BY <1>1, IdleFrame, RestoringGoes
    <2>2. w \notin Restoring(c)
      BY <1>1 DEF Restoring, At
    <2> QED BY <2>1, <2>2
  <1>5. /\ usedCount' = [usedCount EXCEPT ![d] = IF f.free THEN @ + 1 ELSE @]
        /\ usage' = IF f.free THEN usage \cup {o} ELSE usage
        /\ f.free => usedCount[d] < totalAllowed
    BY DEF Commit, ConsumeFreeBikeDelivery, Committable
  <1>6. CASE f.free
    <2>1. usedCount' \in [Customers -> Nat] /\ usedCount'[d] = usedCount[d] + 1
      BY <1>1, <1>5, <1>6 DEF TypeOK
    <2>2. UsedBy(d)' = UsedBy(d) \cup {o} /\ o \notin UsedBy(d) /\ IsFiniteSet(UsedBy(d))
      BY <1>1, <1>2, <1>5, <1>6, FS_Subset, UsedByGoes DEF UsedBy
    <2>3. Cardinality(UsedBy(d)') = Cardinality(UsedBy(d)) + 1
      BY <2>2, FS_AddElement
    <2>4. \A c \in Customers \ {d} : /\ UsedBy(c)' = UsedBy(c)
                                     /\ usedCount'[c] = usedCount[c]
      BY <1>1, <1>5, <1>6, UsedByGoes DEF TypeOK
    <2>5. /\ usedCount[d] \in Nat /\ totalAllowed \in Nat /\ usedCount[d] < totalAllowed
          /\ Cardinality(UsedBy(d)) \in Nat /\ Cardinality(Restoring(d)) \in Nat
      BY <1>1, <1>2, <1>5, <1>6, <2>2, FS_CardinalityType, ConstantsAssumption DEF TypeOK
    <2>6. usage' \subseteq Placed'
      BY <1>1, <1>2, <1>5
    <2>7. /\ usedCount'[d] <= totalAllowed
          /\ usedCount'[d] - usedCount[d] =
                 Cardinality(UsedBy(d)') - Cardinality(UsedBy(d))
                 + Cardinality(Restoring(d)') - Cardinality(Restoring(d))
      <3>1. Cardinality(Restoring(d)') = Cardinality(Restoring(d))
        BY <1>1, <1>4
      <3> QED BY <2>1, <2>3, <2>5, <3>1
    <2> QED BY <1>1, <1>2, <1>3, <1>4, <2>1, <2>4, <2>6, <2>7, BenefitMoves
  <1>7. CASE ~f.free
    <2>1. usedCount' = usedCount /\ usage' = usage
      BY <1>1, <1>5, <1>7 DEF TypeOK
    <2>2. usage' \subseteq Placed' /\ usedCount' \in [Customers -> Nat]
      BY <1>1, <1>2, <2>1 DEF TypeOK
    <2>3. \A c : UsedBy(c)' = UsedBy(c)
      BY <2>1 DEF UsedBy
    <2>4. usedCount[d] \in Nat /\ usedCount[d] <= totalAllowed
      BY <1>1 DEF BenefitSound, FreeDeliveriesAddUp, TypeOK
    <2>5. Cardinality(UsedBy(d)) \in Nat /\ Cardinality(Restoring(d)) \in Nat
      BY <1>1, <1>2, FS_Subset, FS_CardinalityType DEF UsedBy
    <2>6. usedCount'[d] - usedCount[d] =
                 Cardinality(UsedBy(d)') - Cardinality(UsedBy(d))
                 + Cardinality(Restoring(d)') - Cardinality(Restoring(d))
      <3>1. /\ Cardinality(Restoring(d)') = Cardinality(Restoring(d))
            /\ Cardinality(UsedBy(d)') = Cardinality(UsedBy(d))
        BY <1>1, <1>4, <2>3
      <3> QED BY <2>1, <2>4, <2>5, <3>1
    <2> QED BY <1>1, <1>2, <1>3, <1>4, <2>1, <2>2, <2>3, <2>4, <2>6, BenefitMoves
  <1> QED BY <1>6, <1>7

(* A request that moves on without a restore, or from one in a crash. *)
LEMMA BenefitQuiet ==
    ASSUME IInv, BenefitSound, NEW w \in Requests, NEW g, Goto(w, g), g.pc # "restoreCount",
           request[w].pc # "restoreCount" \/ Crashes,
           UNCHANGED benefitVars, Placed' = Placed
    PROVE  BenefitSound'
  <1>1. ASSUME NEW c \in Customers
        PROVE  /\ Restoring(c)' \subseteq Restoring(c)
               /\ ~Crashes => Restoring(c)' = Restoring(c)
    <2>1. Restoring(c)' = Restoring(c) \ {w}
      BY RestoringGoes DEF IInv
    <2>2. ~Crashes => w \notin Restoring(c)
      BY DEF Restoring, At
    <2> QED BY <2>1, <2>2
  <1> QED BY <1>1, BenefitKept

(* restoreFreeBikeDelivery: a usage row that is deleted becomes a restore     *)
(* under way; one that is gone ends the request.                              *)
LEMMA DeleteBenefit ==
    ASSUME IInv, BenefitSound, NEW w \in Requests, DeleteUsage(w), Placed' = Placed
    PROVE  BenefitSound'
  <1> SUFFICES ASSUME NEW f, f = request[w], NEW o, o = f.victim, NEW d, d = CustomerOf[o]
               PROVE  BenefitSound'
    OBVIOUS
  <1>1. f \in Frame /\ f.pc = "deleteUsage" /\ o \in Orders /\ d \in Customers /\ TypeOK
    BY FrameOf, ConstantsAssumption DEF DeleteUsage, At, FrameSound, IInv
  <1>2. /\ IsFiniteSet(Placed) /\ usage \subseteq Placed
        /\ \A c \in Customers : IsFiniteSet(Restoring(c))
    BY DEF BenefitSound
  <1>3. CASE o \notin usage
    <2>1. Goto(w, Idle) /\ UNCHANGED benefitVars /\ Idle.pc # "restoreCount"
      BY <1>3 DEF DeleteUsage, benefitVars, Idle
    <2> QED BY <1>1, <2>1, BenefitQuiet
  <1>4. CASE o \in usage
    <2> DEFINE g == [f EXCEPT !.pc = "restoreCount"]
    <2>1. Goto(w, g) /\ g.pc = "restoreCount" /\ g.victim = o
      BY <1>1, <1>4 DEF DeleteUsage, Frame
    <2> HIDE DEF g
    <2>2. usage' = usage \ {o} /\ usedCount' = usedCount
      BY DEF DeleteUsage
    <2>3. /\ Restoring(d)' = Restoring(d) \cup {w} /\ w \notin Restoring(d)
          /\ \A c \in Customers \ {d} : Restoring(c)' = Restoring(c)
      <3>1. \A c \in Customers : w \notin Restoring(c)
        BY <1>1 DEF Restoring, At
      <3>2. ASSUME NEW c \in Customers, c # d PROVE Restoring(c)' = Restoring(c)
        <4>1. Restoring(c)' = Restoring(c) \ {w}
          BY <1>1, <2>1, <3>2, RestoringGoes
        <4> QED BY <4>1, <3>1
      <3>3. Restoring(d)' = Restoring(d) \cup {w}
        BY <1>1, <2>1, RestoringGoes
      <3> QED BY <1>1, <3>1, <3>2, <3>3
    <2>4. UsedBy(d)' = UsedBy(d) \ {o} /\ o \in UsedBy(d) /\ IsFiniteSet(UsedBy(d))
      BY <1>1, <1>2, <1>4, <2>2, FS_Subset, UsedByGoes DEF UsedBy
    <2>5. \A c \in Customers \ {d} : UsedBy(c)' = UsedBy(c)
      BY <2>2, UsedByGoes
    <2>6. /\ Cardinality(UsedBy(d)') = Cardinality(UsedBy(d)) - 1
          /\ Cardinality(Restoring(d)') = Cardinality(Restoring(d)) + 1
          /\ Cardinality(UsedBy(d)) \in Nat /\ Cardinality(Restoring(d)) \in Nat
      <3>1. IsFiniteSet(Restoring(d)) /\ IsFiniteSet(UsedBy(d))
        BY <1>1, <1>2, <2>4
      <3>2. Cardinality(Restoring(d) \cup {w}) = Cardinality(Restoring(d)) + 1
        BY <2>3, <3>1, FS_AddElement
      <3>3. Cardinality(UsedBy(d) \ {o}) = Cardinality(UsedBy(d)) - 1
        BY <2>4, <3>1, FS_RemoveElement
      <3>4. Cardinality(UsedBy(d)) \in Nat /\ Cardinality(Restoring(d)) \in Nat
        BY <3>1, FS_CardinalityType
      <3> QED BY <2>3, <2>4, <3>2, <3>3, <3>4
    <2>7. \A c \in Customers : IsFiniteSet(Restoring(c)')
      BY <1>1, <1>2, <2>3, FS_AddElement
    <2>8. /\ usedCount'[d] <= totalAllowed
          /\ usedCount'[d] - usedCount[d] =
                 Cardinality(UsedBy(d)') - Cardinality(UsedBy(d))
                 + Cardinality(Restoring(d)') - Cardinality(Restoring(d))
      <3>1. usedCount[d] \in Nat /\ usedCount[d] <= totalAllowed
        BY <1>1 DEF BenefitSound, FreeDeliveriesAddUp, TypeOK
      <3> QED BY <2>2, <2>6, <3>1
    <2>9. /\ IsFiniteSet(Placed') /\ usage' \subseteq Placed'
          /\ usedCount' \in [Customers -> Nat]
      BY <1>1, <1>2, <2>2 DEF TypeOK
    <2> QED BY <1>1, <2>2, <2>3, <2>5, <2>7, <2>8, <2>9, BenefitMoves
  <1> QED BY <1>3, <1>4

(* restoreFreeBikeDelivery: the counter falls with the restore that is done;  *)
(* it was positive.                                                           *)
LEMMA RestoreBenefit ==
    ASSUME IInv, BenefitSound, NEW w \in Requests, RestoreCount(w), Placed' = Placed
    PROVE  BenefitSound'
  <1> SUFFICES ASSUME NEW f, f = request[w], NEW o, o = f.victim, NEW d, d = CustomerOf[o],
                      NEW g, g = NextVictim(f)
               PROVE  BenefitSound'
    OBVIOUS
  <1>1. f \in Frame /\ f.pc = "restoreCount" /\ o \in Orders /\ d \in Customers /\ TypeOK
    BY FrameOf, ConstantsAssumption DEF RestoreCount, At, FrameSound, IInv
  <1>2. /\ IsFiniteSet(Placed) /\ usage \subseteq Placed
        /\ \A c \in Customers : IsFiniteSet(Restoring(c))
    BY DEF BenefitSound
  <1>3. Goto(w, g) /\ g.pc = "release" /\ usage' = usage
    BY <1>1 DEF RestoreCount, NextVictim, Frame
  <1>4. /\ Restoring(d)' = Restoring(d) \ {w} /\ w \in Restoring(d)
        /\ \A c \in Customers \ {d} : Restoring(c)' = Restoring(c)
    <2>1. \A c \in Customers : w \in Restoring(c) <=> c = d
      BY <1>1 DEF Restoring, At
    <2>2. \A c \in Customers : Restoring(c)' = Restoring(c) \ {w}
      BY <1>1, <1>3, RestoringGoes
    <2> QED BY <1>1, <2>1, <2>2
  <1>5. \A c \in Customers : UsedBy(c)' = UsedBy(c)
    BY <1>3, UsedByGoes
  <1>6. /\ Cardinality(Restoring(d)') = Cardinality(Restoring(d)) - 1
        /\ Cardinality(Restoring(d)) \in Nat /\ Cardinality(Restoring(d)') \in Nat
        /\ Cardinality(UsedBy(d)) \in Nat /\ Cardinality(UsedBy(d)') = Cardinality(UsedBy(d))
    <2>1. IsFiniteSet(UsedBy(d))
      BY <1>2, FS_Subset DEF UsedBy
    <2>2. IsFiniteSet(Restoring(d)) /\ IsFiniteSet(Restoring(d)')
      BY <1>1, <1>2, <1>4, FS_RemoveElement
    <2> QED BY <1>1, <1>4, <1>5, <2>1, <2>2, FS_RemoveElement, FS_CardinalityType
  <1>7. /\ usedCount[d] \in Nat /\ usedCount[d] <= totalAllowed
        /\ usedCount[d] >= Cardinality(UsedBy(d)) + Cardinality(Restoring(d))
    BY <1>1 DEF BenefitSound, FreeDeliveriesAddUp, TypeOK
  <1>8. usedCount[d] > 0 /\ totalAllowed \in Nat
    BY <1>6, <1>7, ConstantsAssumption
  <1>9. usedCount' = [usedCount EXCEPT ![d] = usedCount[d] - 1]
    BY <1>1, <1>8 DEF RestoreCount
  <1>10. /\ usedCount' \in [Customers -> Nat] /\ usedCount'[d] = usedCount[d] - 1
         /\ \A c \in Customers \ {d} : usedCount'[c] = usedCount[c]
    BY <1>1, <1>7, <1>8, <1>9 DEF TypeOK
  <1>11. /\ usedCount'[d] <= totalAllowed
         /\ usedCount'[d] - usedCount[d] =
                 Cardinality(UsedBy(d)') - Cardinality(UsedBy(d))
                 + Cardinality(Restoring(d)') - Cardinality(Restoring(d))
    BY <1>6, <1>7, <1>8, <1>10
  <1>12. /\ IsFiniteSet(Placed') /\ usage' \subseteq Placed'
         /\ \A c \in Customers : IsFiniteSet(Restoring(c)')
    BY <1>1, <1>2, <1>3, <1>4, FS_RemoveElement
  <1> QED BY <1>1, <1>4, <1>5, <1>10, <1>11, <1>12, BenefitMoves

(* Every step keeps counter, usage rows and restores under way together.      *)
LEMMA BenefitNext ==
    ASSUME IInv, FramesFit, BenefitSound, [Next]_vars
    PROVE  BenefitSound'
  <1>1. ASSUME NEW w \in Requests, Commit(w) PROVE BenefitSound'
    BY <1>1, CommitBenefit
  <1>2. CASE ~\E w \in Requests : Commit(w)
    <2>1. Placed' = Placed
      BY <1>2, CommitOrNothing
    <2>2. ASSUME NEW w \in Requests
          PROVE  request[w] \in Frame /\ Idle.pc = "idle"
      BY FrameOf, IdleFrame
    <2>3. ASSUME NEW w \in Requests, NEW g, Goto(w, g), g.pc # "restoreCount",
                 request[w].pc # "restoreCount" \/ Crashes, UNCHANGED benefitVars
          PROVE  BenefitSound'
      BY <2>1, <2>3, BenefitQuiet
    <2>4. ASSUME NEW w \in Requests, Outside(w), ~DeleteUsage(w), ~RestoreCount(w)
          PROVE  BenefitSound'
      <3>1. PICK g : Goto(w, g) /\ g.pc # "restoreCount"
        BY <2>4, FrameGoes DEF Onward
      <3>2. request[w].pc # "restoreCount" \/ Crashes
        BY <2>4 DEF Outside, At, Free, Prepare, Abort, GiveUpWaiting, ReleasesDone, CancelTx,
           FindUsage, Crash, ReleaseTx, Release, Cancel, InTransaction
      <3>3. UNCHANGED benefitVars
        BY <2>4 DEF Outside, Prepare, Abort, GiveUpWaiting, ReleasesDone, CancelTx, FindUsage,
           Crash, ReleaseTx, Release, Cancel
      <3> QED BY <3>1, <3>2, <3>3, <2>3
    <2>5. ASSUME NEW w \in Requests, Inside(w), ~Commit(w)
          PROVE  BenefitSound'
      <3>1. /\ request[w].pc \notin {"deleteUsage", "restoreCount"}
            /\ UNCHANGED benefitVars
        BY <2>5 DEF Inside, NextOrderNumber, TakeStock, TakeVariant, PlaceOrder, At, Free
      <3>2. PICK g : Goto(w, g) /\ g.pc # "restoreCount"
        BY <2>5, <3>1, InsideGoes DEF Onward, DeleteUsage, At
      <3> QED BY <3>1, <3>2, <2>3
    <2>7. CASE \/ UNCHANGED vars
               \/ \E c \in Customers : FillCart(c)
               \/ \E x \in Orders : ConfirmPaidOrder(x)
      <3>1. request' = request /\ UNCHANGED benefitVars
        BY <2>7 DEF vars, FillCart, ConfirmPaidOrder
      <3>2. \A c : Restoring(c)' = Restoring(c)
        BY <3>1 DEF Restoring, At
      <3> QED BY <2>1, <3>1, <3>2, BenefitKept
    <2>8. ASSUME NEW w \in Requests, DeleteUsage(w) \/ RestoreCount(w) PROVE BenefitSound'
      BY <2>1, <2>8, DeleteBenefit, RestoreBenefit
    <2> QED BY <1>2, <2>4, <2>5, <2>7, <2>8 DEF Next, Step, Inside, Outside
  <1> QED BY <1>1, <1>2

-----------------------------------------------------------------------------
(* What the hub holds for orders, where nobody cancels on a stale read. *)

\* Nobody is about to cancel, and the reservations are those of live orders.
HoldingSound ==
    /\ IsFiniteSet(Placed)
    /\ \A w \in Requests : ~At(w, "cancelTx")
    /\ ReservedCoversOrders

(* To begin with nothing is reserved.                                         *)
LEMMA HoldingInit ==
    ASSUME Init
    PROVE  HoldingSound
  <1>1. Placed = {} /\ Holding = {}
    BY DEF Init, Placed, Holding
  <1>2. \A p \in Products : Asked(Holding, p) = 0 /\ reservedQty[p] = 0
    BY <1>1, AskedIsSum, SumEmpty DEF Init
  <1>3. \A w \in Requests : ~At(w, "cancelTx")
    BY DEF Init, At, Idle
  <1> QED BY <1>1, <1>2, <1>3, FS_EmptySet DEF HoldingSound, ReservedCoversOrders

(* placeOrder's commit reserves what its order holds: all its items where     *)
(* routing found a hub, nothing otherwise.                                    *)
LEMMA CommitHolds ==
    ASSUME IInv, FramesFit, HoldingSound, NEW w \in Requests, Commit(w)
    PROVE  ReservedCoversOrders'
  <1> SUFFICES ASSUME NEW f, f = request[w], NEW o, o = f.order, NEW p \in Products
               PROVE  reservedQty'[p] = Asked(Holding, p)'
    BY DEF ReservedCoversOrders
  <1>1. /\ f \in Frame /\ f.pc = "commit" /\ o \in Orders \ Placed
        /\ Fits(f) /\ Placed' = Placed \cup {o} /\ TypeOK
    BY CommitPlaces DEF IInv
  <1>2. /\ Holding \in SUBSET Orders /\ IsFiniteSet(Holding) /\ o \notin Holding
    BY <1>1, FS_Subset DEF Holding, Placed, HoldingSound
  <1>3. PICK s \in {"PENDING", "HUB_ASSIGNED", "AWAITING_HUB_ALLOCATION"} :
           orderStatus' = [orderStatus EXCEPT ![o] = s]
    <2>1. CASE o \in Online
      BY <2>1 DEF Commit
    <2>2. CASE o \notin Online /\ f.hub
      BY <2>2 DEF Commit
    <2>3. CASE o \notin Online /\ ~f.hub
      BY <2>3 DEF Commit
    <2> QED BY <2>1, <2>2, <2>3
  <1>4. hubAssigned' = [hubAssigned EXCEPT ![o] = f.hub]
    BY DEF Commit
  <1>5. \A x \in Orders \ {o} : orderStatus'[x] = orderStatus[x] /\ hubAssigned'[x] = hubAssigned[x]
    BY <1>1, <1>3, <1>4 DEF TypeOK
  <1>6. orderStatus'[o] # "CANCELLED" /\ hubAssigned'[o] = f.hub
    BY <1>1, <1>3, <1>4 DEF TypeOK
  <1>7. Holding' = IF f.hub THEN Holding \cup {o} ELSE Holding
    <2>1. Holding \subseteq Placed /\ Holding' \subseteq Placed' /\ Placed \subseteq Orders
      BY DEF Holding, Placed
    <2>2. \A x \in Placed : x # o /\ (x \in Holding' <=> x \in Holding)
      BY <1>1, <1>5, <2>1 DEF Holding
    <2>3. o \in Holding' <=> f.hub
      BY <1>1, <1>6 DEF Holding
    <2> QED BY <1>1, <1>2, <2>1, <2>2, <2>3
  <1>8. Quantity(o, p) \in Nat /\ reservedQty[p] \in Nat /\ reservedQty[p] = Asked(Holding, p)
    BY <1>1, QuantityNat DEF TypeOK, HoldingSound, ReservedCoversOrders
  <1>9. reservedQty'[p] = IF p \in f.taken THEN reservedQty[p] + Quantity(o, p) ELSE reservedQty[p]
    BY DEF Commit
  <1>10. CASE f.hub
    <2>1. p \in f.taken \/ Quantity(o, p) = 0
      BY <1>1, <1>8, <1>10 DEF Fits, Items, Quantity
    <2>2. reservedQty'[p] = reservedQty[p] + Quantity(o, p)
      BY <1>8, <1>9, <2>1
    <2>3. Asked(Holding \cup {o}, p) = Asked(Holding, p) + Quantity(o, p)
      BY <1>1, <1>2, AskedMore
    <2> QED BY <1>7, <1>8, <1>10, <2>2, <2>3, AskedLater
  <1>11. CASE ~f.hub
    <2>1. reservedQty'[p] = reservedQty[p]
      BY <1>1, <1>9, <1>11 DEF Fits
    <2> QED BY <1>7, <1>8, <1>11, <2>1, AskedLater
  <1> QED BY <1>10, <1>11

(* A release gives back exactly what its order held. *)
LEMMA ReleaseHolds ==
    ASSUME IInv, HoldingSound, NEW w \in Requests, NEW o \in Orders, ReleaseTx(w, o)
    PROVE  ReservedCoversOrders'
  <1>1. TypeOK
    BY DEF IInv
  <1>2. Holding \in SUBSET Orders /\ IsFiniteSet(Holding)
    BY FS_Subset DEF Holding, Placed, HoldingSound
  <1>3. CASE ~Releasable(o)
    <2>1. UNCHANGED <<orderStatus, hubAssigned, reservedQty>>
      BY <1>3 DEF ReleaseTx, stockVars
    <2>2. Holding' = Holding
      BY <2>1 DEF Holding, Placed
    <2> QED BY <2>1, <2>2, AskedLater DEF HoldingSound, ReservedCoversOrders
  <1>4. CASE Releasable(o)
    <2>1. /\ orderStatus' = [orderStatus EXCEPT ![o] = "CANCELLED"]
          /\ hubAssigned' = hubAssigned
          /\ reservedQty' = [p \in Products |-> reservedQty[p] - Return(o)[p]]
          /\ orderStatus[o] = "PENDING"
      BY <1>4 DEF ReleaseTx, ReturnStock, Releasable, Unpaid
    <2>2. Holding' = Holding \ {o}
      BY <1>1, <2>1 DEF Holding, Placed, TypeOK
    <2>3. o \in Holding <=> hubAssigned[o]
      BY <2>1 DEF Holding, Placed
    <2> SUFFICES ASSUME NEW p \in Products
                 PROVE  reservedQty'[p] = Asked(Holding, p)'
      BY DEF ReservedCoversOrders
    <2>4. /\ Quantity(o, p) \in Nat /\ reservedQty[p] \in Nat
          /\ reservedQty[p] = Asked(Holding, p)
          /\ reservedQty'[p] = reservedQty[p] - Return(o)[p]
      BY <1>1, <2>1, QuantityNat DEF TypeOK, HoldingSound, ReservedCoversOrders
    <2>5. CASE hubAssigned[o]
      <3>1. Quantity(o, p) <= Asked(Holding, p)
        BY <1>2, <2>3, <2>5, AskedNatural
      <3>2. Return(o)[p] = Quantity(o, p)
        BY <2>4, <2>5, <3>1 DEF Return
      <3>3. Asked(Holding \ {o}, p) = Asked(Holding, p) - Quantity(o, p)
        BY <1>2, <2>3, <2>5, AskedLess
      <3> QED BY <2>2, <2>4, <3>2, <3>3, AskedLater
    <2>6. CASE ~hubAssigned[o]
      <3>1. Return(o)[p] = 0
        BY <2>6 DEF Return
      <3>2. Holding' = Holding
        BY <2>2, <2>3, <2>6
      <3> QED BY <2>4, <3>1, <3>2, AskedLater
    <2> QED BY <2>5, <2>6
  <1> QED BY <1>3, <1>4

(* Without cancel, every step keeps what is reserved equal to what live       *)
(* orders hold.                                                               *)
LEMMA HoldingNext ==
    ASSUME "cancel" \notin Handlers, IInv, FramesFit, HoldingSound, [Next]_vars
    PROVE  HoldingSound'
  <1>1. \A w \in Requests : ~CancelTx(w)
    BY DEF HoldingSound, CancelTx
  <1>2. ReservedCoversOrders'
    <2>1. ASSUME UNCHANGED <<orderStatus, hubAssigned, reservedQty>>
          PROVE  ReservedCoversOrders'
      <3>1. Holding' = Holding
        BY <2>1 DEF Holding, Placed
      <3> QED BY <2>1, <3>1, AskedLater DEF HoldingSound, ReservedCoversOrders
    <2>2. ASSUME NEW w \in Requests, Step(w) PROVE ReservedCoversOrders'
      <3>1. CASE Commit(w) \/ \E o \in Orders : ReleaseTx(w, o)
        BY <3>1, CommitHolds, ReleaseHolds
      <3>2. CASE ~(Commit(w) \/ \E o \in Orders : ReleaseTx(w, o))
        BY <1>1, <2>1, <2>2, <3>2 DEF Step, Prepare, NextOrderNumber, Abort, TakeStock,
           TakeVariant, ReleasesDone, FindUsage, DeleteUsage, RestoreCount, orderVars, stockVars
      <3> QED BY <3>1, <3>2
    <2>3. ASSUME NEW w \in Requests, NEW x \in Orders,
                 PlaceOrder(w, x) \/ Release(w, x) \/ Cancel(w, x) \/ Crash(w) \/ GiveUpWaiting(w)
          PROVE  ReservedCoversOrders'
      BY <2>1, <2>3 DEF PlaceOrder, Release, Cancel, Crash, GiveUpWaiting, orderVars, stockVars
    <2>4. ASSUME NEW o \in Orders, ConfirmPaidOrder(o) PROVE ReservedCoversOrders'
      <3>1. /\ orderStatus[o] = "PENDING" /\ UNCHANGED <<hubAssigned, reservedQty>>
            /\ orderStatus' \in {[orderStatus EXCEPT ![o] = "HUB_ASSIGNED"],
                                  [orderStatus EXCEPT ![o] = "AWAITING_HUB_ALLOCATION"]}
        BY <2>4 DEF ConfirmPaidOrder, Unpaid, stockVars
      <3>2. Holding' = Holding
        BY <3>1 DEF Holding, Placed, IInv, TypeOK
      <3> QED BY <3>1, <3>2, AskedLater DEF HoldingSound, ReservedCoversOrders
    <2>5. CASE UNCHANGED vars \/ \E c \in Customers : FillCart(c)
      BY <2>1, <2>5 DEF vars, FillCart, orderVars, stockVars
    <2>6. ASSUME NEW w \in Requests, Crash(w) \/ GiveUpWaiting(w) PROVE ReservedCoversOrders'
      BY <2>1, <2>6 DEF Crash, GiveUpWaiting, orderVars, stockVars
    <2> QED BY <2>2, <2>3, <2>4, <2>5, <2>6 DEF Next
  <1>3. \A w \in Requests : ~At(w, "cancelTx")'
    <2>1. ASSUME NEW w \in Requests, NEW g, Goto(w, g), g.pc # "cancelTx"
          PROVE  \A v \in Requests : ~At(v, "cancelTx")'
      BY <2>1 DEF IInv, TypeOK, Goto, At, HoldingSound
    <2>2. ASSUME NEW w \in Requests PROVE request[w] \in Frame /\ Idle.pc = "idle"
      BY FrameOf, IdleFrame
    <2>3. ASSUME NEW w \in Requests, Inside(w) \/ Outside(w)
          PROVE  \A v \in Requests : ~At(v, "cancelTx")'
      <3>1. PICK g : Onward(w, g)
        BY <2>3, InsideGoes, FrameGoes
      <3>2. Goto(w, g) /\ g.pc # "cancelTx"
        BY <3>1 DEF Onward, Cancel, Free
      <3> QED BY <3>2, <2>1
    <2>5. CASE \/ UNCHANGED vars
               \/ \E c \in Customers : FillCart(c)
               \/ \E x \in Orders : ConfirmPaidOrder(x)
      BY <2>5 DEF vars, FillCart, ConfirmPaidOrder, At, HoldingSound
    <2> QED BY <2>3, <2>5 DEF Next, Step, Inside, Outside
  <1>4. IsFiniteSet(Placed)'
    <2>1. Placed' = Placed \/ \E o : Placed' = Placed \cup {o}
      BY CommitOrNothing, CommitPlaces
    <2> QED BY <2>1, FS_AddElement DEF HoldingSound
  <1> QED BY <1>2, <1>3, <1>4, Zenon DEF HoldingSound

-----------------------------------------------------------------------------
(* Idle requests fit.                                                         *)
LEMMA FramesInit ==
    ASSUME Init
    PROVE  FramesFit
  <1>1. \A w \in Requests : request[w] = Idle
    BY DEF Init
  <1> QED BY <1>1, IdleFits DEF FramesFit

(* The books of placements are in order: every request's view of the tables,  *)
(* the variants' stock and the free deliveries fit the orders that were       *)
(* placed, whatever placeOrder, releaseUnpaidOnlineOrder, cancel and          *)
(* restoreFreeBikeDelivery do at the same time.                               *)
Books == IInv /\ FramesFit /\ VariantsSound /\ BenefitSound

(* The books stay in order for ever: the inductive invariant of placements.    *)
THEOREM BooksInvariant == Spec => []Books
  <1>1. Init => Books
    BY InitIInv, FramesInit, VariantsInit, BenefitInit DEF Books
  <1>2. Books /\ [Next]_vars => Books'
    BY NextIInv, FramesNext, VariantsNext, BenefitNext DEF Books
  <1> QED BY <1>1, <1>2, PTL DEF Spec

(* placeOrder loses no order's share of a variant, although it writes the      *)
(* stock as an absolute number computed from an earlier read.                 *)
THEOREM VariantsCount == Spec => []VariantsAddUp
  <1>1. Books => VariantsAddUp
    BY DEF Books, VariantsSound
  <1> QED BY <1>1, BooksInvariant, PTL

(* consumeFreeBikeDelivery and restoreFreeBikeDelivery: a customer's counter   *)
(* of free deliveries stays within the limit and never below what is due.     *)
THEOREM FreeDeliveriesCount == Spec => []FreeDeliveriesAddUp
  <1>1. Books => FreeDeliveriesAddUp
    BY DEF Books, BenefitSound
  <1> QED BY <1>1, BooksInvariant, PTL

(* Where orders are given up by releaseUnpaidOnlineOrder alone, the hub's      *)
(* reserved stock is what its live orders hold.  With cancel, which checks    *)
(* the status before its transaction, that is false.                          *)
THEOREM ReservedIsHeld ==
    ASSUME "cancel" \notin Handlers
    PROVE  Spec => []ReservedCoversOrders
  <1>1. Init => HoldingSound
    BY HoldingInit
  <1>2. Books /\ HoldingSound /\ [Next]_vars => HoldingSound'
    BY HoldingNext DEF Books
  <1>3. HoldingSound => ReservedCoversOrders
    BY DEF HoldingSound
  <1> QED BY <1>1, <1>2, <1>3, BooksInvariant, PTL DEF Spec
=============================================================================
