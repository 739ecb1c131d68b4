------------------------------ MODULE CartLines ------------------------------
(***************************************************************************)
(* The cart of one customer, its copy in the memory of each server process *)
(* and the order that empties it (src/modules/cart/cart.service.ts,        *)
(* src/common/cache/cache.service.ts, placeOrder of                        *)
(* src/modules/orders/orders.service.ts).                                  *)
(*                                                                         *)
(* A handler reads a line, writes it in a second statement, drops the copy *)
(* in a third, and answers with the cart out of the copy or the database.  *)
(* How much is in stock is an input.                                       *)
(*                                                                         *)
(* Left out: variants (a product here is a product with its variant),      *)
(* prices and totals, which are computed from one line each.               *)
(***************************************************************************)
EXTENDS Integers, Sequences, FiniteSetsExt

CONSTANTS
    None,
    Requests,      \* requests of the customer that may run at the same time
    Processes,     \* server processes, each with a copy of its own
    Products,
    Stocks,        \* how much of a product there may be
    MinOrder, MaxOrder,   \* of each product
    MaxLines, MaxWrites   \* bounds on the lines ever made and on the writes

(* What the theorems ask of the constants; an instance states it as ASSUME.  *)
ConstantsFit ==
    /\ MinOrder \in [Products -> Nat]
    /\ MaxOrder \in [Products -> Nat]
    /\ Stocks \subseteq Nat
    /\ MaxLines \in Nat
    /\ MaxWrites \in Nat

VARIABLES
    line,          \* cartItem, in the order they were created: product and
                   \* quantity, 0 once it is deleted; and history: how many
                   \* lines there had been when its creator looked
    cache,         \* the copy in each process, or None
    request,       \* the frame of each request
    writes,        \* history: how often the cart has been written
    owed,          \* history: how much of each product the customer has put
                   \* in, and neither taken out nor ordered
    raced          \* history: products written over a change nobody had read

vars == <<line, cache, request, writes, owed, raced>>
ghosts == <<writes, owed, raced>>

-----------------------------------------------------------------------------
Lines == 1..Len(line)
Live == {i \in Lines : line[i].quantity > 0}
Quantity == [i \in Lines |-> line[i].quantity]
Cart == [items |-> Quantity, writes |-> writes]

Idle == [pc |-> "idle", process |-> None, product |-> None, line |-> 0, quantity |-> 0,
         seen |-> 0, looked |-> 0, wrote |-> 0, straddled |-> FALSE, cart |-> None]

TypeOK ==
    /\ \A i \in Lines : line[i].product \in Products /\ line[i].quantity \in Nat
    /\ writes \in 0..MaxWrites
    /\ \A r \in Requests :
          request[r].pc \in {"idle", "find", "add", "update", "remove", "order", "drop",
                             "leave", "get", "keep", "answer"}
    /\ \A p \in Processes : cache[p] # None => cache[p].writes <= writes

Init ==
    /\ line = <<>>
    /\ cache = [p \in Processes |-> None]
    /\ request = [r \in Requests |-> Idle]
    /\ writes = 0
    /\ owed = [x \in Products |-> 0]
    /\ raced = {}

Goto(r, frame) == request' = [request EXCEPT ![r] = frame]
At(r, pc) == request[r].pc = pc

-----------------------------------------------------------------------------
(* Looking for a line. *)

\* assertQuantityAllowed
QuantityAllowed(x, n, stock) == n >= MinOrder[x] /\ n <= MaxOrder[x] /\ n <= stock

\* addItem with the stock it has read.
AddItem(r, p, x, stock) ==
    /\ At(r, "idle")
    /\ \E n \in 1..MaxOrder[x] :
          Goto(r, [Idle EXCEPT !.pc = "find", !.process = p, !.product = x,
                               !.quantity = n, !.seen = stock])
    /\ UNCHANGED <<line, cache, ghosts>>

\* Without a unique index findFirst may find any line of the product.
FindCartLine(r) ==
    LET q == request[r]
        same == {i \in Live : line[i].product = q.product}
    IN
    /\ At(r, "find")
    /\ \E i \in (IF same = {} THEN {0} ELSE same) :
          LET old == IF i = 0 THEN 0 ELSE line[i].quantity IN
          Goto(r, IF QuantityAllowed(q.product, old + q.quantity, q.seen)
                  THEN [q EXCEPT !.pc = "add", !.line = i, !.seen = old, !.looked = Len(line)]
                  ELSE Idle)
    /\ UNCHANGED <<line, cache, ghosts>>

UpdateItemRead(r, p, i, stock) ==
    /\ At(r, "idle")
    /\ \E n \in 1..MaxOrder[line[i].product] :
          /\ QuantityAllowed(line[i].product, n, stock)
          /\ Goto(r, [Idle EXCEPT !.pc = "update", !.process = p, !.line = i, !.quantity = n])
    /\ UNCHANGED <<line, cache, ghosts>>

RemoveItemRead(r, p, i) ==
    /\ At(r, "idle")
    /\ Goto(r, [Idle EXCEPT !.pc = "remove", !.process = p, !.line = i])
    /\ UNCHANGED <<line, cache, ghosts>>

-----------------------------------------------------------------------------
(* Writing it. *)

\* The cart becomes new, and request r goes on at pc.
Write(r, pc, new) ==
    /\ writes < MaxWrites
    /\ line' = new
    /\ writes' = writes + 1
    /\ Goto(r, [request[r] EXCEPT !.pc = pc, !.wrote = writes + 1])
    /\ UNCHANGED cache

\* The line is gone: the statement throws, and the copy is not dropped.
Gone(r) ==
    /\ Goto(r, Idle)
    /\ UNCHANGED <<line, cache, ghosts>>

CreateLine(r) ==
    LET q == request[r] IN
    /\ At(r, "add") /\ q.line = 0
    /\ Len(line) < MaxLines
    /\ Write(r, "drop", Append(line, [product |-> q.product, quantity |-> q.quantity,
                                      looked |-> q.looked]))
    /\ owed' = [owed EXCEPT ![q.product] = @ + q.quantity]
    /\ UNCHANGED raced

\* The sum with the quantity that was read, as an absolute number.
AddToLine(r) ==
    LET q == request[r] IN
    /\ At(r, "add") /\ q.line # 0
    /\ IF q.line \notin Live THEN Gone(r)
       ELSE /\ Write(r, "drop", [line EXCEPT ![q.line].quantity = q.seen + q.quantity])
            /\ owed' = [owed EXCEPT ![q.product] = @ + q.quantity]
            /\ raced' = IF line[q.line].quantity = q.seen THEN raced
                        ELSE raced \cup {q.product}

SetLine(r, pc, n) ==
    LET i == request[r].line IN
    /\ At(r, pc)
    /\ IF i \notin Live THEN Gone(r)
       ELSE /\ Write(r, "drop", [line EXCEPT ![i].quantity = n])
            /\ owed' = [owed EXCEPT ![line[i].product] = @ + n - line[i].quantity]
            /\ UNCHANGED raced

UpdateItem(r) == SetLine(r, "update", request[r].quantity)
RemoveItem(r) == SetLine(r, "remove", 0)

Emptied == [i \in Lines |-> [line[i] EXCEPT !.quantity = 0]]

ClearCart(r, p) ==
    /\ At(r, "idle")
    /\ writes < MaxWrites
    /\ line' = Emptied
    /\ writes' = writes + 1
    /\ owed' = [x \in Products |-> 0]
    /\ Goto(r, [Idle EXCEPT !.pc = "drop", !.process = p, !.wrote = writes + 1])
    /\ UNCHANGED <<cache, raced>>

-----------------------------------------------------------------------------
(* Ordering. *)

\* getCartForCheckout goes past the copy. Each line is compared with the stock.
PrepareCheckout(r, p, stock) ==
    /\ At(r, "idle")
    /\ Live # {}
    /\ \A i \in Live : line[i].quantity <= stock
    /\ Goto(r, [Idle EXCEPT !.pc = "order", !.process = p, !.cart = Cart])
    /\ UNCHANGED <<line, cache, ghosts>>

\* Whatever happens in between (OrderPlacement), the order may fail.
OrderFails(r) == At(r, "order") /\ Gone(r)

\* The order has the lines that were read; those there are now are deleted.
PlaceOrder(r) ==
    LET read == request[r].cart.items
        was == [i \in Lines |-> IF i \in DOMAIN read THEN read[i] ELSE 0]
        Of(x) == {i \in Lines : line[i].product = x}
    IN
    /\ At(r, "order")
    /\ Write(r, "leave", Emptied)
    /\ owed' = [x \in Products |-> owed[x] - MapThenSumSet(LAMBDA i : was[i], Of(x))]
    /\ raced' = raced \cup {line[i].product : i \in {j \in Lines : line[j].quantity # was[j]}}

-----------------------------------------------------------------------------
(* The copy. *)

(* Mutant: nothing is dropped.                                               *)
MutantDropped(p) == cache

Dropped(p) == [cache EXCEPT ![p] = None]

\* Another request of this process has the cart of before this write in hand.
Straddles(r) ==
    \E other \in Requests \ {r} :
        /\ At(other, "keep")
        /\ request[other].process = request[r].process
        /\ request[other].cart.writes < request[r].wrote

InvalidateCart(r) ==
    LET q == request[r] IN
    /\ q.pc \in {"drop", "leave"}
    /\ cache' = Dropped(q.process)
    /\ Goto(r, IF q.pc = "leave" THEN Idle
               ELSE [q EXCEPT !.pc = "get", !.straddled = Straddles(r)])
    /\ UNCHANGED <<line, ghosts>>

GetCart(r, p) ==
    /\ At(r, "idle")
    /\ Goto(r, [Idle EXCEPT !.pc = "get", !.process = p])
    /\ UNCHANGED <<line, cache, ghosts>>

\* The copy is the answer, or the cart is read and becomes the copy.
LookUp(r) ==
    LET q == request[r]
        copy == cache[q.process]
    IN
    /\ At(r, "get")
    /\ Goto(r, IF copy # None THEN [q EXCEPT !.pc = "answer", !.cart = copy]
               ELSE [q EXCEPT !.pc = "keep", !.cart = Cart])
    /\ UNCHANGED <<line, cache, ghosts>>

Keep(r) ==
    /\ At(r, "keep")
    /\ cache' = [cache EXCEPT ![request[r].process] = request[r].cart]
    /\ Goto(r, [request[r] EXCEPT !.pc = "answer"])
    /\ UNCHANGED <<line, ghosts>>

Answer(r) == At(r, "answer") /\ Gone(r)

\* Its time is over, or another entry needs the place.
Evict(p) ==
    /\ cache' = Dropped(p)
    /\ UNCHANGED <<line, request, ghosts>>

\* A statement fails, or the request is given up.
Fail(r) == request[r].pc \notin {"idle", "answer"} /\ Gone(r)

Next ==
    \/ \E r \in Requests, p \in Processes :
          \/ \E stock \in Stocks :
                \/ PrepareCheckout(r, p, stock)
                \/ \E x \in Products : AddItem(r, p, x, stock)
                \/ \E i \in Live : UpdateItemRead(r, p, i, stock)
          \/ \E i \in Live : RemoveItemRead(r, p, i)
          \/ ClearCart(r, p) \/ GetCart(r, p)
    \/ \E r \in Requests :
          \/ FindCartLine(r) \/ CreateLine(r) \/ AddToLine(r) \/ UpdateItem(r)
          \/ RemoveItem(r) \/ PlaceOrder(r) \/ OrderFails(r) \/ InvalidateCart(r)
          \/ LookUp(r) \/ Keep(r) \/ Answer(r) \/ Fail(r)
    \/ \E p \in Processes : Evict(p)

-----------------------------------------------------------------------------
(* A product has a second line only if its creator looked before the first   *)
(* was written (addItem: no unique index stops the second).                  *)
OneLineEach ==
    \A i, j \in Live :
        i < j /\ line[i].product = line[j].product => line[j].looked < i

(* What the customer has put in is in the cart, taken out or ordered, unless *)
(* a sum was written over a change that had not been read, or an order       *)
(* deleted what was put in while it was being placed.                        *)
NothingIsLost ==
    \A x \in Products \ raced :
        owed[x] = MapThenSumSet(LAMBDA i : Quantity[i], {i \in Lines : line[i].product = x})

(* The answer to a write shows it, or a later cart, unless a request of the  *)
(* same process had read the cart before and kept it afterwards (getCart).   *)
ReadsOwnWrite ==
    \A r \in Requests :
        LET q == request[r] IN
        q.pc = "answer" => q.cart.writes >= q.wrote \/ q.straddled

CartHolds ==
    /\ TypeOK
    /\ OneLineEach
    /\ NothingIsLost
    /\ ReadsOwnWrite
=============================================================================
