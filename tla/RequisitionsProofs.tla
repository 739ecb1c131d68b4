------------------------- MODULE RequisitionsProofs -------------------------
(***************************************************************************)
(* Proofs about Requisitions, for every number of requests, requisitions   *)
(* and quantities.  StockIsLedgered is inductive by itself.  The other two *)
(* need Orderly: what a request has read is still so unless something was  *)
(* written since, and a requisition no stale write has hit says in its     *)
(* line what the ledger says.                                              *)
(*                                                                         *)
(* And about HubInventory, the other part of the same run.                 *)
(***************************************************************************)
EXTENDS MC_Requisitions, SumLaws

(* The statuses after the material has left. *)
Sent == {"IN_TRANSIT", "RECEIVED", "COMPLETED"}

(* The statuses in which a handler that was not overtaken finds its           *)
(* requisition.                                                               *)
Wanted(op) ==
    CASE op = "update"               -> {"DRAFT", "PENDING_APPROVAL"}
      [] op = "submit"               -> {"DRAFT"}
      [] op = "approve"              -> {"PENDING_APPROVAL"}
      [] op = "reject"               -> {"PENDING_APPROVAL", "APPROVED"}
      [] op = "allocate"             -> {"APPROVED"}
      [] op \in {"assign", "dispatch"} -> {"ALLOCATED"}
      [] OTHER                       -> {}

(* What a request has read and what has not been written since; an update     *)
(* carries a new line.                                                        *)
Fresh(f) ==
    /\ f # Idle /\ ~f.stale => f.read = item[f.id] /\ status[f.id] \in Wanted(f.op)
    /\ f.op = "update" => f.qty # None

(* The line of a requisition no stale write has hit, and its ledger. *)
Settled(r) ==
    /\ ledger[r].RECEIVE = Coalesce(item[r].received, 0)
    /\ status[r] \in Sent => /\ ledger[r].DISPATCH = Quantity(item[r])
                             /\ ledger[r].RECEIVE <= ledger[r].DISPATCH
    /\ status[r] = "COMPLETED" => ledger[r].RECEIVE = ledger[r].DISPATCH
    /\ status[r] \notin Sent => ledger[r].DISPATCH = 0 /\ item[r].received = None
    /\ status[r] \notin Sent \cup {"ALLOCATED"} => item[r].allocated = None

Orderly ==
    /\ StockIsLedgered
    /\ \A w \in Requests : Fresh(request[w])
    /\ \A r \in Requisition \ overtaken : Settled(r)
    /\ AllocatedIsReserved

-----------------------------------------------------------------------------
(* The sums, over any rows. *)

Column(rows, type) == [r \in Requisition |-> rows[r][type]]

WaitsFor(st, it, r) == IF st[r] = "ALLOCATED" THEN Coalesce(it[r].allocated, 0) ELSE 0

Waiting(st, it) == SumOf([r \in Requisition |-> WaitsFor(st, it, r)], Requisition)

(* What the ledger holds of one type is a sum in the sense of SumLaws ...     *)
LEMMA BookedNow == ASSUME NEW type PROVE Booked(type) = SumOf(Column(ledger, type), Requisition)
  BY DEF Booked, Sum, Column, SumOf

(* ... in the next state as well. *)
LEMMA BookedNext == ASSUME NEW type PROVE Booked(type)' = SumOf(Column(ledger', type), Requisition)
  BY DEF Booked, Sum, Column, SumOf, MapThenSumSet, MapThenFoldSet

(* So is what the ALLOCATED requisitions wait for ...                         *)
LEMMA AllocatedNow ==
    AllocatedIsReserved <=> (overtaken \cup unreserved = {} => Waiting(status, item) = reservedQty)
  BY DEF AllocatedIsReserved, Sum, Waiting, WaitsFor, SumOf

(* ... in the next state as well. *)
LEMMA AllocatedNext ==
    AllocatedIsReserved' <=> (overtaken' \cup unreserved' = {} => Waiting(status', item') = reservedQty')
  BY DEF AllocatedIsReserved, Sum, Waiting, WaitsFor, SumOf, Coalesce, MapThenSumSet, MapThenFoldSet

(* Coalesce of the columns of a line is a quantity. *)
LEMMA QuantityType ==
    ASSUME NEW i \in Item
    PROVE  /\ Quantity(i) \in Qty /\ Coalesce(i.received, 0) \in Qty /\ Coalesce(i.allocated, 0) \in Qty
           /\ Remaining(i) \in Nat
           /\ Remaining(i) > 0 => Remaining(i) = Quantity(i) - Coalesce(i.received, 0)
           /\ Qty \subseteq Nat /\ None \notin Qty /\ 0 \in Qty
<1>1. Qty \subseteq Nat /\ None \notin Qty /\ 0 \in Qty
  BY RequisitionsAssumption DEF Qty
<1>2. Quantity(i) \in Qty /\ Coalesce(i.received, 0) \in Qty /\ Coalesce(i.allocated, 0) \in Qty
  BY <1>1 DEF Item, Nullable, Quantity, Coalesce
<1>3. Quantity(i) \in Nat /\ Coalesce(i.received, 0) \in Nat
  BY <1>1, <1>2
<1>4. /\ Remaining(i) \in Nat
      /\ Remaining(i) > 0 => Remaining(i) = Quantity(i) - Coalesce(i.received, 0)
  BY <1>3 DEF Remaining
<1> QED BY <1>1, <1>2, <1>4

(* The sums of the ledger are integers. *)
LEMMA TypedSums == TypeOK => \A t \in LedgerTypes : Booked(t) \in Int
<1> SUFFICES ASSUME TypeOK, NEW t \in LedgerTypes
             PROVE  Booked(t) \in Int
  OBVIOUS
<1>1. \A x \in Requisition : Column(ledger, t)[x] \in Int
  BY DEF TypeOK, Column
<1>2. IsFiniteSet(Requisition)
  BY RequisitionsAssumption
<1> QED BY <1>1, <1>2, SumRemove, BookedNow

(* An entry of the ledger adds its quantity to the sum of its type, and to no *)
(* other (recordLedger in allocate, dispatch and receive).                    *)
LEMMA BookSums ==
    ASSUME TypeOK, NEW r \in Requisition, NEW type \in LedgerTypes, NEW q \in Nat,
           Book(r, type, q)
    PROVE  /\ ledger' \in [Requisition -> [LedgerTypes -> Nat]]
           /\ Booked(type)' = Booked(type) + q /\ Booked(type) \in Nat
           /\ \A t \in LedgerTypes \ {type} : Booked(t)' = Booked(t) /\ Booked(t) \in Nat
           /\ \A x \in Requisition \ {r} : ledger'[x] = ledger[x]
           /\ ledger'[r][type] = ledger[r][type] + q
           /\ \A t \in LedgerTypes \ {type} : ledger'[r][t] = ledger[r][t]
<1>1. /\ ledger \in [Requisition -> [LedgerTypes -> Nat]]
      /\ ledger' = [ledger EXCEPT ![r][type] = @ + q]
      /\ IsFiniteSet(Requisition)
  BY RequisitionsAssumption DEF TypeOK, Book
<1>2. /\ ledger' \in [Requisition -> [LedgerTypes -> Nat]]
      /\ ledger'[r][type] = ledger[r][type] + q
      /\ \A t \in LedgerTypes \ {type} : ledger'[r][t] = ledger[r][t]
      /\ \A x \in Requisition \ {r} : ledger'[x] = ledger[x]
  BY <1>1
<1>3. ASSUME NEW t \in LedgerTypes
      PROVE  /\ Booked(t) \in Nat
             /\ Booked(t)' = Booked(t) + ledger'[r][t] - ledger[r][t]
  <2> DEFINE f == Column(ledger, t)
             g == Column(ledger', t)
  <2>1. /\ \A x \in Requisition : f[x] \in Nat /\ f[x] \in Int /\ g[x] \in Int
        /\ \A x \in Requisition \ {r} : g[x] = f[x]
        /\ f[r] = ledger[r][t] /\ g[r] = ledger'[r][t]
    BY <1>1, <1>2 DEF Column
  <2> HIDE DEF f, g
  <2>2. SumOf(g, Requisition) = SumOf(f, Requisition) + g[r] - f[r]
    BY <1>1, <2>1, SumChange
  <2>3. SumOf(f, Requisition) \in Nat
    BY <1>1, <2>1, SumNatural
  <2> QED BY <2>1, <2>2, <2>3, BookedNow, BookedNext DEF f, g
<1>4. \A t \in LedgerTypes : ledger[r][t] \in Nat /\ ledger'[r][t] \in Nat
  BY <1>1, <1>2
<1>5. Booked(type)' = Booked(type) + q
  BY <1>2, <1>3, <1>4
<1>6. \A t \in LedgerTypes \ {type} : Booked(t)' = Booked(t)
  BY <1>2, <1>3, <1>4
<1> QED BY <1>2, <1>3, <1>5, <1>6

(* One requisition that is written changes what is waited for by what it      *)
(* waits for itself.                                                          *)
LEMMA WaitingStep ==
    ASSUME TypeOK, TypeOK', NEW r \in Requisition,
           \A x \in Requisition \ {r} : item'[x] = item[x] /\ status'[x] = status[x]
    PROVE  /\ Waiting(status, item) \in Int
           /\ Waiting(status', item') =
                Waiting(status, item) + WaitsFor(status', item', r) - WaitsFor(status, item, r)
<1> DEFINE f == [x \in Requisition |-> WaitsFor(status, item, x)]
           g == [x \in Requisition |-> WaitsFor(status', item', x)]
<1>1. \A x \in Requisition : f[x] \in Int /\ g[x] \in Int
  <2> TAKE x \in Requisition
  <2>1. item[x] \in Item /\ item'[x] \in Item
    BY DEF TypeOK
  <2>2. Coalesce(item[x].allocated, 0) \in Int /\ Coalesce(item'[x].allocated, 0) \in Int
    BY <2>1, QuantityType
  <2> QED BY <2>2 DEF WaitsFor
<1>2. \A x \in Requisition \ {r} : g[x] = f[x]
  BY DEF WaitsFor
<1>3. f[r] = WaitsFor(status, item, r) /\ g[r] = WaitsFor(status', item', r)
  OBVIOUS
<1> HIDE DEF f, g
<1>4. IsFiniteSet(Requisition)
  BY RequisitionsAssumption
<1>5. SumOf(g, Requisition) = SumOf(f, Requisition) + g[r] - f[r]
  BY <1>1, <1>2, <1>4, SumChange
<1>6. SumOf(f, Requisition) \in Int
  BY <1>1, <1>4, SumRemove
<1> QED BY <1>3, <1>5, <1>6 DEF Waiting, f, g

-----------------------------------------------------------------------------
(* Frames. *)

(* What the invariant says of a request that has read something.              *)
LEMMA FrameOf ==
    ASSUME Orderly, NEW w \in Requests, request[w].op # "none"
    PROVE  /\ TypeOK /\ request[w] \in Frame /\ request[w] # Idle
           /\ request[w].id \in Requisition /\ request[w].read \in Item
           /\ item[request[w].id] \in Item
           /\ request[w].op = "update" => request[w].qty # None
           /\ ~request[w].stale => /\ request[w].read = item[request[w].id]
                                   /\ status[request[w].id] \in Wanted(request[w].op)
<1>1. TypeOK /\ Fresh(request[w]) /\ request[w] # Idle
  BY DEF Orderly, StockIsLedgered, Idle
<1> QED BY <1>1 DEF TypeOK, Fresh

(* A request that ends leaves the others as they were, or stale.              *)
LEMMA EndFrames ==
    ASSUME TypeOK, NEW w \in Requests \cup {None}, NEW r \in Requisition, NEW written \in BOOLEAN,
           End(w, r, written)
    PROVE  /\ request' \in [Requests -> Frame]
           /\ \A v \in Requests : request'[v] # Idle =>
                /\ v # w /\ request[v] # Idle
                /\ request'[v].id = request[v].id /\ request'[v].read = request[v].read
                /\ request'[v].op = request[v].op /\ request'[v].qty = request[v].qty
                /\ request'[v].id \in Requisition
                /\ request'[v].read \in Item
                /\ ~request'[v].stale => ~request[v].stale
<1>1. Idle \in Frame /\ Idle.id = None /\ None \notin Requisition
  BY RequisitionsAssumption DEF Idle, Frame, Operations, Nullable
<1>2. ASSUME NEW v \in Requests
      PROVE  [request[v] EXCEPT !.stale = TRUE] \in Frame
  BY DEF TypeOK, Frame
<1>3. request' \in [Requests -> Frame]
  BY <1>1, <1>2 DEF End, TypeOK
<1>4. ASSUME NEW v \in Requests, request'[v] # Idle
      PROVE  /\ v # w /\ request[v] # Idle
             /\ request'[v].id = request[v].id /\ request'[v].read = request[v].read
             /\ request'[v].op = request[v].op /\ request'[v].qty = request[v].qty
             /\ request'[v].id \in Requisition
             /\ request'[v].read \in Item
             /\ ~request'[v].stale => ~request[v].stale
  <2>1. v # w
    BY <1>4 DEF End
  <2>2. request'[v] = IF written /\ request[v].id = r THEN [request[v] EXCEPT !.stale = TRUE]
                      ELSE request[v]
    BY <2>1 DEF End
  <2>3. request[v] # Idle
    BY <1>1, <1>4, <2>2
  <2>4. request[v] \in Frame /\ request[v].id \in Requisition /\ request[v].read \in Item
    BY <2>3 DEF TypeOK
  <2> QED BY <2>1, <2>2, <2>3, <2>4 DEF Frame
<1> QED BY <1>3, <1>4

(* A write keeps what the other requests have read fresh, or marks it stale.  *)
LEMMA WriteFresh ==
    ASSUME TypeOK, \A v \in Requests : Fresh(request[v]),
           NEW w \in Requests \cup {None}, NEW r \in Requisition, End(w, r, TRUE),
           \A x \in Requisition \ {r} : item'[x] = item[x] /\ status'[x] = status[x]
    PROVE  \A v \in Requests : Fresh(request[v])'
<1>a. ASSUME NEW v \in Requests, request'[v].op = "update"
      PROVE  request'[v].qty # None
  <2>1. request'[v] # Idle /\ TRUE \in BOOLEAN
    BY <1>a DEF Idle
  <2>2. request'[v].op = request[v].op /\ request'[v].qty = request[v].qty
    BY <2>1, EndFrames
  <2>3. Fresh(request[v])
    OBVIOUS
  <2> QED BY <1>a, <2>2, <2>3 DEF Fresh
<1> SUFFICES ASSUME NEW v \in Requests, request'[v] # Idle, ~request'[v].stale
             PROVE  /\ request'[v].read = item'[request'[v].id]
                    /\ status'[request'[v].id] \in Wanted(request'[v].op)
  BY <1>a DEF Fresh, Wanted, Idle
<1>0. TRUE \in BOOLEAN
  OBVIOUS
<1>1. /\ request[v] # Idle /\ ~request[v].stale /\ request[v].id \in Requisition /\ v # w
      /\ request'[v].id = request[v].id /\ request'[v].read = request[v].read
      /\ request'[v].op = request[v].op
  BY <1>0, EndFrames
<1>3. request[v].id # r
  <2> SUFFICES ASSUME request[v].id = r
               PROVE  FALSE
    OBVIOUS
  <2>1. request'[v] = [request[v] EXCEPT !.stale = TRUE]
    BY <1>1 DEF End
  <2>2. request[v] \in Frame
    BY DEF TypeOK
  <2> QED BY <2>1, <2>2 DEF Frame
<1>2. Fresh(request[v])
  OBVIOUS
<1> QED BY <1>1, <1>2, <1>3 DEF Fresh

(* A requisition that is not written stays settled. *)
LEMMA StaysSettled ==
    ASSUME NEW x, Settled(x), item'[x] = item[x], status'[x] = status[x], ledger'[x] = ledger[x]
    PROVE  Settled(x)'
  BY DEF Settled, Quantity, Coalesce, Sent

(* A step that leaves requisitions and stock alone.                           *)
LEMMA QuietStep ==
    ASSUME Orderly, UNCHANGED <<reqVars, stockVars, unreserved>>, TypeOK',
           \A w \in Requests : Fresh(request[w])'
    PROVE  Orderly'
<1>1. item' = item /\ status' = status /\ ledger' = ledger /\ overtaken' = overtaken
      /\ unreserved' = unreserved /\ reservedQty' = reservedQty /\ hubQty' = hubQty
      /\ availableQty' = availableQty
  BY DEF reqVars, stockVars
<1>2. \A t : Booked(t)' = Booked(t)
  BY <1>1, BookedNow, BookedNext
<1>3. StockIsLedgered'
  BY <1>1, <1>2 DEF Orderly, StockIsLedgered
<1>4. \A r \in Requisition \ overtaken' : Settled(r)'
  BY <1>1, StaysSettled DEF Orderly
<1>5. AllocatedIsReserved'
  BY <1>1, AllocatedNow, AllocatedNext DEF Orderly
<1> QED BY <1>3, <1>4, <1>5 DEF Orderly

(* A handler that writes one requisition.                                     *)
LEMMA WriteStep ==
    ASSUME Orderly, TypeOK', StockIsLedgered',
           NEW r \in Requisition, NEW w \in Requests \cup {None}, End(w, r, TRUE),
           \A x \in Requisition \ {r} :
              item'[x] = item[x] /\ status'[x] = status[x] /\ ledger'[x] = ledger[x],
           overtaken \subseteq overtaken', unreserved \subseteq unreserved',
           r \notin overtaken' => Settled(r)',
           overtaken' \cup unreserved' = {} =>
              reservedQty' = reservedQty + WaitsFor(status', item', r) - WaitsFor(status, item, r)
    PROVE  Orderly'
<1>1. TypeOK
  BY DEF Orderly, StockIsLedgered
<1>2. \A v \in Requests : Fresh(request[v])'
  BY <1>1, WriteFresh DEF Orderly
<1>3. ASSUME NEW x \in Requisition \ overtaken'
      PROVE  Settled(x)'
  <2>1. CASE x = r
    BY <2>1, <1>3
  <2>2. CASE x # r
    BY <2>2, <1>3, StaysSettled DEF Orderly
  <2> QED BY <2>1, <2>2
<1>4. AllocatedIsReserved'
  <2> SUFFICES ASSUME overtaken' \cup unreserved' = {}
               PROVE  Waiting(status', item') = reservedQty'
    BY AllocatedNext
  <2>1. Waiting(status, item) = reservedQty
    BY AllocatedNow DEF Orderly
  <2>2. Waiting(status', item') =
          Waiting(status, item) + WaitsFor(status', item', r) - WaitsFor(status, item, r)
    BY <1>1, WaitingStep
  <2> QED BY <2>1, <2>2
<1> QED BY <1>2, <1>3, <1>4 DEF Orderly

(* Stock that no handler touches still is what the ledger says.               *)
LEMMA SameStock ==
    ASSUME Orderly, TypeOK', UNCHANGED stockVars
    PROVE  StockIsLedgered' /\ \A x \in Requisition : ledger'[x] = ledger[x]
<1>1. ledger' = ledger /\ reservedQty' = reservedQty /\ hubQty' = hubQty
      /\ availableQty' = availableQty
  BY DEF stockVars
<1>2. \A t : Booked(t)' = Booked(t)
  BY <1>1, BookedNow, BookedNext
<1> QED BY <1>1, <1>2 DEF Orderly, StockIsLedgered

-----------------------------------------------------------------------------
(* The steps of Next. *)

(* Requests that do not move are typed as before; so is what EndFrames says.  *)
LEMMA FramesTyped ==
    ASSUME TypeOK, NEW w \in Requests \cup {None}, NEW r \in Requisition, NEW written \in BOOLEAN,
           End(w, r, written)
    PROVE  /\ request' \in [Requests -> Frame]
           /\ \A v \in Requests : request'[v] # Idle =>
                request'[v].id \in Requisition /\ request'[v].read \in Item
  BY EndFrames

(* A handler reads a requisition in a status it accepts. *)
LEMMA ReadStep ==
    ASSUME Orderly, NEW w \in Requests, NEW r \in Requisition, NEW op \in Operations,
           NEW qty \in Nullable, NEW transport \in BOOLEAN,
           Read(w, r, op, qty, transport), status[r] \in Wanted(op),
           op = "update" => qty # None
    PROVE  Orderly'
<1> DEFINE f == [op |-> op, id |-> r, read |-> item[r], qty |-> qty,
                 assigned |-> transport, stale |-> FALSE]
<1>1. TypeOK /\ UNCHANGED <<reqVars, stockVars, unreserved>>
  BY DEF Orderly, StockIsLedgered, Read
<1>2. item[r] \in Item /\ f \in Frame /\ f.id = r /\ f.read = item[r]
      /\ f.op = op /\ f.qty = qty
  BY <1>1 DEF TypeOK, Frame
<1>3. request' = [request EXCEPT ![w] = f]
  BY DEF Read
<1> HIDE DEF f
<1>4. /\ request' \in [Requests -> Frame] /\ request'[w] = f
      /\ \A v \in Requests \ {w} : request'[v] = request[v]
  BY <1>1, <1>2, <1>3 DEF TypeOK
<1>5. TypeOK'
  BY <1>1, <1>2, <1>4 DEF TypeOK, reqVars, stockVars
<1>6. ASSUME NEW v \in Requests
      PROVE  Fresh(request[v])'
  <2>1. item' = item /\ status' = status
    BY <1>1 DEF reqVars
  <2>2. CASE v = w
    BY <1>2, <1>4, <2>1, <2>2 DEF Fresh, Wanted, Idle
  <2>3. CASE v # w
    BY <1>4, <2>1, <2>3 DEF Orderly, Fresh, Wanted, Idle
  <2> QED BY <2>2, <2>3
<1> QED BY <1>1, <1>5, <1>6, QuietStep

(* The reads of update, submit, approve, reject, allocate, assignLogistics    *)
(* and dispatch, each with the status it asks for.                            *)
LEMMA ArrivalStep ==
    ASSUME Orderly, NEW w \in Requests, NEW r \in Requisition, Arrival(w, r)
    PROVE  Orderly'
<1>1. /\ None \in Nullable /\ Asked \subseteq Nullable /\ Approvals \subseteq Nullable
      /\ Allocations \subseteq Nullable /\ Transport \subseteq BOOLEAN
      /\ {TRUE, FALSE} \subseteq BOOLEAN /\ None \notin Asked
      /\ {"update", "submit", "approve", "reject", "allocate", "assign", "dispatch"} \subseteq Operations
  <2>1. Qty \subseteq Int /\ None \notin Int /\ Asked \subseteq Qty /\ Allocations \subseteq Qty \cup {None}
    BY RequisitionsAssumption DEF Qty
  <2> QED BY <2>1, RequisitionsAssumption DEF Nullable, Qty, Operations
<1>2. ASSUME NEW q \in Asked, UpdateRead(w, r, q) PROVE Orderly'
  BY <1>1, <1>2, ReadStep DEF UpdateRead, Wanted
<1>3. CASE SubmitRead(w, r)
  BY <1>1, <1>3, ReadStep DEF SubmitRead, Wanted
<1>4. ASSUME NEW q \in Approvals, ApproveRead(w, r, q) PROVE Orderly'
  BY <1>1, <1>4, ReadStep DEF ApproveRead, Wanted
<1>5. CASE RejectRead(w, r)
  BY <1>1, <1>5, ReadStep DEF RejectRead, Wanted
<1>6. ASSUME NEW q \in Allocations, NEW t \in Transport, AllocateRead(w, r, q, t) PROVE Orderly'
  BY <1>1, <1>6, ReadStep DEF AllocateRead, Wanted
<1>7. CASE AssignRead(w, r)
  BY <1>1, <1>7, ReadStep DEF AssignRead, Wanted
<1>8. ASSUME NEW t \in Transport, DispatchRead(w, r, t) PROVE Orderly'
  BY <1>1, <1>8, ReadStep DEF DispatchRead, Wanted
<1> QED BY <1>2, <1>3, <1>4, <1>5, <1>6, <1>7, <1>8 DEF Arrival

(* A handler that throws writes nothing. *)
LEMMA RefuseStep ==
    ASSUME Orderly, NEW w \in Requests, request[w].op # "none", Refuse(w)
    PROVE  Orderly'
<1>1. /\ TypeOK /\ request[w].id \in Requisition /\ End(w, request[w].id, FALSE)
      /\ UNCHANGED <<reqVars, stockVars, unreserved>>
      /\ FALSE \in BOOLEAN
  BY FrameOf DEF Refuse
<1>2. TypeOK'
  BY <1>1, FramesTyped DEF TypeOK, reqVars, stockVars
<1>3. ASSUME NEW v \in Requests
      PROVE  Fresh(request[v])'
  <2>1. /\ request'[v] # Idle => request'[v].op = request[v].op /\ request'[v].qty = request[v].qty
        /\ request'[v] # Idle /\ ~request'[v].stale =>
             /\ request[v] # Idle /\ ~request[v].stale
             /\ request'[v].id = request[v].id /\ request'[v].read = request[v].read
    BY <1>1, EndFrames
  <2>2. item' = item /\ status' = status /\ Fresh(request[v])
    BY <1>1 DEF reqVars, Orderly
  <2> QED BY <2>1, <2>2 DEF Fresh, Wanted, Idle
<1> QED BY <1>1, <1>2, <1>3, QuietStep

(* What a handler that writes may rely on.                                    *)
LEMMA Written ==
    ASSUME Orderly, NEW w \in Requests, request[w].op # "none", Write(w)
    PROVE  LET f == request[w] IN
           /\ End(w, f.id, TRUE)
           /\ request' \in [Requests -> Frame]
           /\ \A v \in Requests : request'[v] # Idle =>
                request'[v].id \in Requisition /\ request'[v].read \in Item
           /\ overtaken \subseteq overtaken' /\ overtaken' \subseteq Requisition
           /\ f.id \notin overtaken' =>
                /\ f.read = item[f.id] /\ status[f.id] \in Wanted(f.op)
                /\ Settled(f.id)
<1>1. End(w, request[w].id, TRUE) /\ TRUE \in BOOLEAN
  BY DEF Write
<1>2. TypeOK /\ request[w] \in Frame /\ request[w].id \in Requisition
  BY FrameOf
<1>3. overtaken' = IF request[w].stale THEN overtaken \cup {request[w].id} ELSE overtaken
  BY DEF Write
<1>4. overtaken \subseteq overtaken' /\ overtaken' \subseteq Requisition
  BY <1>2, <1>3 DEF TypeOK
<1>5. request[w].id \notin overtaken' => ~request[w].stale /\ request[w].id \notin overtaken
  BY <1>3, <1>2 DEF Frame
<1>6. request[w].id \notin overtaken' => Settled(request[w].id)
  BY <1>2, <1>5 DEF Orderly
<1> QED BY <1>1, <1>2, <1>4, <1>5, <1>6, FramesTyped, FrameOf

(* create: a line nobody has read, for which nothing was booked.              *)
LEMMA CreateStep ==
    ASSUME Orderly, NEW r \in Requisition, NEW q \in Asked, NEW submit \in BOOLEAN,
           Create(r, q, submit)
    PROVE  Orderly'
<1>1. TypeOK /\ status[r] = "none"
  BY DEF Orderly, StockIsLedgered, Create
<1>2. /\ status' = [status EXCEPT ![r] = IF submit THEN "PENDING_APPROVAL" ELSE "DRAFT"]
      /\ item' = [item EXCEPT ![r] = NewItem(0, q)]
      /\ UNCHANGED <<assigned, overtaken, stockVars, unreserved, request>>
  BY DEF Create
<1>3. NewItem(0, q) \in Item /\ NewItem(0, q).allocated = None /\ NewItem(0, q).received = None
  BY RequisitionsAssumption DEF NewItem, Item, Nullable, Qty
<1>4. /\ item' \in [Requisition -> Item] /\ status' \in [Requisition -> Statuses]
      /\ item'[r] = NewItem(0, q) /\ status'[r] \in {"PENDING_APPROVAL", "DRAFT"}
      /\ \A x \in Requisition \ {r} : item'[x] = item[x] /\ status'[x] = status[x]
  BY <1>1, <1>2, <1>3 DEF TypeOK, Statuses
<1>5. TypeOK'
  BY <1>1, <1>2, <1>4 DEF TypeOK, stockVars
<1>6. StockIsLedgered' /\ ledger' = ledger /\ reservedQty' = reservedQty
  BY <1>2, <1>5, SameStock DEF stockVars
<1>7. ASSUME NEW v \in Requests
      PROVE  Fresh(request[v])'
  <2> SUFFICES ASSUME request[v] # Idle, ~request[v].stale
               PROVE  /\ request[v].read = item'[request[v].id]
                      /\ status'[request[v].id] \in Wanted(request[v].op)
    BY <1>2 DEF Fresh, Wanted, Idle, Orderly
  <2>1. Fresh(request[v]) /\ request[v].id \in Requisition
    BY <1>1 DEF Orderly, TypeOK
  <2>2. request[v].id # r
    BY <1>1, <2>1 DEF Fresh, Wanted
  <2> QED BY <1>4, <2>1, <2>2 DEF Fresh
<1>8. ASSUME NEW x \in Requisition \ overtaken'
      PROVE  Settled(x)'
  <2>1. Settled(x)
    BY <1>2 DEF Orderly
  <2>2. CASE x = r
    BY <1>1, <1>3, <1>4, <1>6, <2>1, <2>2 DEF Settled, Sent, Coalesce
  <2>3. CASE x # r
    BY <1>4, <1>6, <2>1, <2>3, StaysSettled
  <2> QED BY <2>2, <2>3
<1>9. AllocatedIsReserved'
  <2>1. WaitsFor(status, item, r) = 0 /\ WaitsFor(status', item', r) = 0
    BY <1>1, <1>4 DEF WaitsFor
  <2>2. Waiting(status', item') = Waiting(status, item)
    BY <1>1, <1>4, <1>5, <2>1, WaitingStep
  <2> QED BY <1>2, <1>6, <2>2, AllocatedNow, AllocatedNext DEF Orderly
<1> QED BY <1>6, <1>7, <1>8, <1>9 DEF Orderly

(* A handler that moves no stock, before the material has left: what it       *)
(* leaves in the requisition waits for as much as before.                     *)
LEMMA PaperStep ==
    ASSUME Orderly, NEW w \in Requests, request[w].op # "none", Write(w),
           UNCHANGED <<stockVars, unreserved>>, assigned' \subseteq Requisition,
           NEW r, r = request[w].id, NEW st \in Statuses, NEW i \in Item,
           status' = [status EXCEPT ![r] = st], item' = [item EXCEPT ![r] = i],
           r \notin overtaken' =>
              /\ status[r] \notin Sent /\ st \notin Sent /\ i.received = None
              /\ st # "ALLOCATED" => i.allocated = None
              /\ WaitsFor(status, item, r) = IF st = "ALLOCATED" THEN Coalesce(i.allocated, 0) ELSE 0
    PROVE  Orderly'
<1>1. TypeOK /\ r \in Requisition
  BY FrameOf
<1>2. /\ item' \in [Requisition -> Item] /\ item'[r] = i
      /\ status' \in [Requisition -> Statuses] /\ status'[r] = st
      /\ \A x \in Requisition \ {r} : item'[x] = item[x] /\ status'[x] = status[x]
  BY <1>1 DEF TypeOK
<1>3. TypeOK'
  BY <1>1, <1>2, Written DEF TypeOK, stockVars
<1>4. StockIsLedgered' /\ ledger' = ledger /\ reservedQty' = reservedQty /\ reservedQty \in Nat
  BY <1>1, <1>3, SameStock DEF stockVars, TypeOK
<1>5. r \notin overtaken' => Settled(r)'
  <2>1. r \notin overtaken' => Settled(r)
    BY Written
  <2> QED BY <1>2, <1>4, <2>1 DEF Settled, Coalesce, Sent
<1>6. overtaken' \cup unreserved' = {} =>
        reservedQty' = reservedQty + WaitsFor(status', item', r) - WaitsFor(status, item, r)
  <2> SUFFICES ASSUME overtaken' \cup unreserved' = {}
               PROVE  reservedQty' = reservedQty + WaitsFor(status', item', r) - WaitsFor(status, item, r)
    OBVIOUS
  <2>1. WaitsFor(status', item', r) = WaitsFor(status, item, r)
    BY <1>2 DEF WaitsFor
  <2>2. WaitsFor(status, item, r) \in Int
    <3>1. item[r] \in Item
      BY <1>1 DEF TypeOK
    <3>2. Coalesce(item[r].allocated, 0) \in Int
      BY <3>1, QuantityType
    <3> QED BY <3>2 DEF WaitsFor
  <2> QED BY <1>4, <2>1, <2>2
<1>7. End(w, r, TRUE) /\ overtaken \subseteq overtaken' /\ unreserved' = unreserved
  BY Written
<1>8. \A x \in Requisition \ {r} :
        item'[x] = item[x] /\ status'[x] = status[x] /\ ledger'[x] = ledger[x]
  BY <1>2, <1>4
<1> QED BY <1>1, <1>3, <1>4, <1>5, <1>6, <1>7, <1>8, WriteStep

(* update replaces the line of a requisition nothing was allocated for.       *)
LEMMA UpdateStep ==
    ASSUME Orderly, NEW w \in Requests, Update(w)
    PROVE  Orderly'
<1> SUFFICES ASSUME NEW f, f = request[w], NEW r, r = f.id
             PROVE  Orderly'
  OBVIOUS
<1> DEFINE i == NewItem(item[r].edition + 1, f.qty)
<1>1. /\ TypeOK /\ f \in Frame /\ r \in Requisition /\ f.op = "update" /\ item[r] \in Item
      /\ Write(w) /\ f.qty # None
  BY FrameOf DEF Update, At
<1>2. /\ item[r].edition < MaxEdition
      /\ item' = [item EXCEPT ![r] = i]
      /\ UNCHANGED <<status, assigned, stockVars, unreserved>>
  BY DEF Update
<1>3. i \in Item /\ i.allocated = None /\ i.received = None
  <2>1. f.qty \in Qty
    BY <1>1 DEF Frame, Nullable
  <2>2. item[r].edition \in 0..MaxEdition
    BY <1>1 DEF Item
  <2>3. item[r].edition + 1 \in 0..MaxEdition
    BY <1>2, <2>2, RequisitionsAssumption
  <2> QED BY <2>1, <2>3 DEF NewItem, Item, Nullable
<1> HIDE DEF i
<1>4. status[r] \in Statuses /\ status' = [status EXCEPT ![r] = status[r]] /\ assigned' \subseteq Requisition
  BY <1>1, <1>2 DEF TypeOK
<1>5. r \notin overtaken' => status[r] \in {"DRAFT", "PENDING_APPROVAL"}
  BY <1>1, Written DEF Wanted
<1> QED BY <1>1, <1>2, <1>3, <1>4, <1>5, PaperStep DEF Sent, WaitsFor

(* submit, reject: the status alone, of a requisition that waits for nothing. *)
LEMMA StatusStep ==
    ASSUME Orderly, NEW w \in Requests, Submit(w) \/ Reject(w)
    PROVE  Orderly'
<1> SUFFICES ASSUME NEW f, f = request[w], NEW r, r = f.id
             PROVE  Orderly'
  OBVIOUS
<1>1. PICK st \in {"PENDING_APPROVAL", "REJECTED"} : SetStatus(w, st)
  BY DEF Submit, Reject
<1>2. /\ TypeOK /\ r \in Requisition /\ f.op \in {"submit", "reject"} /\ item[r] \in Item /\ Write(w)
  BY <1>1, FrameOf DEF Submit, Reject, At, SetStatus
<1>3. /\ status' = [status EXCEPT ![r] = st] /\ item' = [item EXCEPT ![r] = item[r]]
      /\ UNCHANGED <<stockVars, unreserved>> /\ assigned' \subseteq Requisition
  BY <1>1, <1>2 DEF SetStatus, TypeOK
<1>4. r \notin overtaken' => /\ status[r] \in {"DRAFT", "PENDING_APPROVAL", "APPROVED"}
                             /\ Settled(r)
  BY <1>2, Written DEF Wanted
<1>5. r \notin overtaken' => item[r].allocated = None /\ item[r].received = None
  BY <1>4 DEF Settled, Sent
<1> QED BY <1>2, <1>3, <1>4, <1>5, PaperStep DEF Sent, WaitsFor, Statuses

(* approve: a quantity for the line, and the status. *)
LEMMA ApproveStep ==
    ASSUME Orderly, NEW w \in Requests, Approve(w)
    PROVE  Orderly'
<1> SUFFICES ASSUME NEW f, f = request[w], NEW r, r = f.id
             PROVE  Orderly'
  OBVIOUS
<1>1. /\ TypeOK /\ f \in Frame /\ r \in Requisition /\ f.op = "approve" /\ item[r] \in Item
  BY FrameOf DEF Approve, At
<1>2. CASE Refuse(w)
  BY <1>1, <1>2, RefuseStep
<1>3. CASE /\ item' = IF f.qty = None THEN item ELSE [item EXCEPT ![r].approved = f.qty]
           /\ status' = [status EXCEPT ![r] = "APPROVED"]
           /\ Write(w)
           /\ UNCHANGED <<assigned, stockVars, unreserved>>
  <2> DEFINE i == IF f.qty = None THEN item[r] ELSE [item[r] EXCEPT !.approved = f.qty]
  <2>1. f.qty \in Nullable
    BY <1>1 DEF Frame
  <2>2. /\ i \in Item /\ i.allocated = item[r].allocated /\ i.received = item[r].received
        /\ item' = [item EXCEPT ![r] = i]
    BY <1>1, <1>3, <2>1 DEF Item, TypeOK
  <2> HIDE DEF i
  <2>3. r \notin overtaken' => status[r] = "PENDING_APPROVAL" /\ Settled(r)
    BY <1>1, <1>3, Written DEF Wanted
  <2>4. r \notin overtaken' => i.allocated = None /\ i.received = None
    BY <2>2, <2>3 DEF Settled, Sent
  <2>5. assigned' \subseteq Requisition /\ "APPROVED" \in Statuses
    BY <1>1, <1>3 DEF TypeOK, Statuses
  <2>6. r \notin overtaken' => /\ status[r] \notin Sent /\ "APPROVED" \notin Sent
                               /\ WaitsFor(status, item, r) = 0
    BY <2>3 DEF Sent, WaitsFor
  <2>7. status' = [status EXCEPT ![r] = "APPROVED"] /\ Write(w) /\ UNCHANGED <<stockVars, unreserved>>
    BY <1>3
  <2> QED BY <1>1, <2>2, <2>4, <2>5, <2>6, <2>7, PaperStep
<1> QED BY <1>2, <1>3 DEF Approve

(* assignLogistics: vehicle and driver only. *)
LEMMA AssignStep ==
    ASSUME Orderly, NEW w \in Requests, AssignLogistics(w)
    PROVE  Orderly'
<1> SUFFICES ASSUME NEW f, f = request[w], NEW r, r = f.id
             PROVE  Orderly'
  OBVIOUS
<1>1. /\ TypeOK /\ r \in Requisition /\ f.op = "assign" /\ item[r] \in Item /\ Write(w)
      /\ status[r] \in Statuses
  BY FrameOf DEF AssignLogistics, At, TypeOK
<1>2. /\ status' = [status EXCEPT ![r] = status[r]] /\ item' = [item EXCEPT ![r] = item[r]]
      /\ UNCHANGED <<stockVars, unreserved>> /\ assigned' \subseteq Requisition
  BY <1>1 DEF AssignLogistics, TypeOK
<1>3. r \notin overtaken' => status[r] = "ALLOCATED" /\ Settled(r)
  BY <1>1, Written DEF Wanted
<1>4. r \notin overtaken' => item[r].received = None
  BY <1>3 DEF Settled, Sent
<1> QED BY <1>1, <1>2, <1>3, <1>4, PaperStep DEF Sent, WaitsFor

(* allocate: what the request names of the line is set aside in the           *)
(* warehouse, in the line and in the ledger.                                  *)
LEMMA AllocateStep ==
    ASSUME Orderly, NEW w \in Requests, Allocate(w)
    PROVE  Orderly'
<1> SUFFICES ASSUME NEW f, f = request[w], NEW r, r = f.id
             PROVE  Orderly'
  OBVIOUS
<1>1. /\ TypeOK /\ f \in Frame /\ r \in Requisition /\ f.op = "allocate" /\ item[r] \in Item
      /\ StockIsLedgered
  BY FrameOf DEF Allocate, At, Orderly
<1>2. CASE Refuse(w)
  BY <1>1, <1>2, RefuseStep
<1>3. SUFFICES ASSUME ~Refuse(w)
               PROVE  Orderly'
  BY <1>2
<1>4. /\ f.qty = None \/ Enough(f.qty)
      /\ status' = [status EXCEPT ![r] = "ALLOCATED"]
      /\ assigned' = IF f.assigned THEN assigned \cup {r} ELSE assigned
      /\ Write(w)
      /\ UNCHANGED unreserved
  BY <1>3 DEF Allocate
<1>5. assigned' \subseteq Requisition /\ "ALLOCATED" \in Statuses
  BY <1>1, <1>4 DEF TypeOK, Statuses
<1>6. r \notin overtaken' => status[r] = "APPROVED" /\ Settled(r)
  BY <1>1, <1>4, Written DEF Wanted
<1>7. r \notin overtaken' => item[r].allocated = None /\ item[r].received = None
                             /\ WaitsFor(status, item, r) = 0
  BY <1>6 DEF Settled, Sent, WaitsFor
<1>8. CASE f.qty = None
  <2>1. item' = [item EXCEPT ![r] = item[r]] /\ UNCHANGED <<stockVars, unreserved>>
    BY <1>1, <1>3, <1>4, <1>8 DEF Allocate, TypeOK
  <2>2. r \notin overtaken' => Coalesce(item[r].allocated, 0) = 0 /\ status[r] \notin Sent /\ "ALLOCATED" \notin Sent
    BY <1>6, <1>7 DEF Coalesce, Sent
  <2> QED BY <1>1, <1>4, <1>5, <1>7, <2>1, <2>2, PaperStep
<1>9. CASE f.qty # None
  <2> DEFINE i == [item[r] EXCEPT !.allocated = f.qty]
  <2>1. f.qty \in Nat /\ f.qty \in Qty
    BY <1>1, <1>9 DEF Frame, Nullable, Qty
  <2>2. /\ availableQty' = availableQty - f.qty /\ availableQty >= f.qty
        /\ reservedQty' = reservedQty + f.qty
        /\ item' = [item EXCEPT ![r] = i]
        /\ Book(r, "ALLOCATE", f.qty)
        /\ hubQty' = hubQty
    BY <1>3, <1>4, <1>9, <1>1 DEF Allocate, Enough, TypeOK
  <2>3. i \in Item /\ i.allocated = f.qty /\ i.received = item[r].received
    BY <1>1, <2>1 DEF Item, Nullable
  <2> HIDE DEF i
  <2>4. /\ item' \in [Requisition -> Item] /\ item'[r] = i
        /\ status' \in [Requisition -> Statuses] /\ status'[r] = "ALLOCATED"
        /\ \A x \in Requisition \ {r} : item'[x] = item[x] /\ status'[x] = status[x]
    BY <1>1, <1>4, <1>5, <2>2, <2>3 DEF TypeOK
  <2>5. availableQty' \in Nat /\ reservedQty' \in Nat /\ reservedQty \in Nat /\ availableQty \in Nat
    BY <1>1, <2>1, <2>2 DEF TypeOK
  <2>6. "ALLOCATE" \in LedgerTypes /\ "DISPATCH" \in LedgerTypes /\ "RECEIVE" \in LedgerTypes
    BY DEF LedgerTypes
  <2>7. /\ ledger' \in [Requisition -> [LedgerTypes -> Nat]]
        /\ Booked("ALLOCATE")' = Booked("ALLOCATE") + f.qty /\ Booked("ALLOCATE") \in Nat
        /\ \A t \in {"DISPATCH", "RECEIVE"} : /\ Booked(t)' = Booked(t) /\ Booked(t) \in Nat
                                              /\ ledger'[r][t] = ledger[r][t]
        /\ \A x \in Requisition \ {r} : ledger'[x] = ledger[x]
    BY <1>1, <2>1, <2>2, <2>6, BookSums
  <2>8. TypeOK'
    BY <1>1, <1>4, <1>5, <2>2, <2>4, <2>5, <2>7, Written DEF TypeOK
  <2>9. StockIsLedgered'
    BY <1>1, <2>1, <2>2, <2>5, <2>7, <2>8, RequisitionsAssumption DEF StockIsLedgered
  <2>10. r \notin overtaken' => Settled(r)'
    BY <1>6, <1>7, <2>3, <2>4, <2>7 DEF Settled, Sent, Coalesce
  <2>11. overtaken' \cup unreserved' = {} =>
           reservedQty' = reservedQty + WaitsFor(status', item', r) - WaitsFor(status, item, r)
    <3>1. WaitsFor(status', item', r) = f.qty
      BY <1>9, <2>3, <2>4 DEF WaitsFor, Coalesce
    <3>2. reservedQty' = reservedQty + f.qty - 0
      BY <2>1, <2>2, <2>5
    <3> QED BY <1>7, <3>1, <3>2
  <2>12. End(w, r, TRUE) /\ overtaken \subseteq overtaken' /\ unreserved' = unreserved
    BY <1>1, <1>4, Written
  <2>13. \A x \in Requisition \ {r} :
           item'[x] = item[x] /\ status'[x] = status[x] /\ ledger'[x] = ledger[x]
    BY <2>4, <2>7
  <2> QED BY <1>1, <2>8, <2>9, <2>10, <2>11, <2>12, <2>13, WriteStep
<1> QED BY <1>8, <1>9

(* dispatch: what the line, as it was read, says leaves the warehouse.        *)
LEMMA DispatchStep ==
    ASSUME Orderly, NEW w \in Requests, Dispatch(w)
    PROVE  Orderly'
<1> SUFFICES ASSUME NEW f, f = request[w], NEW r, r = f.id, NEW q, q = Quantity(f.read)
             PROVE  Orderly'
  OBVIOUS
<1>1. /\ TypeOK /\ f \in Frame /\ r \in Requisition /\ f.op = "dispatch" /\ item[r] \in Item
      /\ StockIsLedgered /\ f.read \in Item
  BY FrameOf DEF Dispatch, At, Orderly
<1>2. CASE Refuse(w)
  BY <1>1, <1>2, RefuseStep
<1>3. SUFFICES ASSUME ~Refuse(w)
               PROVE  Orderly'
  BY <1>2
<1>4. /\ q > 0 => reservedQty >= q
      /\ IF q = 0 THEN UNCHANGED stockVars
         ELSE Take(q) /\ Book(r, "DISPATCH", q) /\ UNCHANGED hubQty
      /\ status' = [status EXCEPT ![r] = "IN_TRANSIT"]
      /\ assigned' = assigned \cup {r}
      /\ unreserved' = IF q > 0 /\ f.read.allocated = None THEN unreserved \cup {r} ELSE unreserved
      /\ Write(w)
      /\ item' = item
  <2>1. q \in Nat /\ reservedQty \in Nat
    BY <1>1, QuantityType DEF TypeOK
  <2> QED BY <1>3, <2>1 DEF Dispatch
<1>5. /\ assigned' \subseteq Requisition /\ unreserved' \subseteq Requisition
      /\ unreserved \subseteq unreserved' /\ "IN_TRANSIT" \in Statuses
  BY <1>1, <1>4 DEF TypeOK, Statuses
<1>6. r \notin overtaken' => status[r] = "ALLOCATED" /\ Settled(r) /\ f.read = item[r]
  BY <1>1, <1>4, Written DEF Wanted
<1>7. q \in Nat /\ q \in Qty
  BY <1>1, QuantityType
<1>8. /\ status' \in [Requisition -> Statuses] /\ status'[r] = "IN_TRANSIT"
      /\ \A x \in Requisition \ {r} : status'[x] = status[x]
  BY <1>1, <1>4, <1>5 DEF TypeOK
<1>9. reservedQty \in Nat /\ availableQty \in Nat /\ hubQty \in Nat
  BY <1>1 DEF TypeOK
<1>10. /\ ledger' \in [Requisition -> [LedgerTypes -> Nat]]
       /\ Booked("DISPATCH")' = Booked("DISPATCH") + q /\ Booked("DISPATCH") \in Int
       /\ \A t \in {"ALLOCATE", "RECEIVE"} : Booked(t)' = Booked(t) /\ Booked(t) \in Int
       /\ ledger'[r].RECEIVE = ledger[r].RECEIVE
       /\ ledger'[r].DISPATCH = ledger[r].DISPATCH + q
       /\ \A x \in Requisition \ {r} : ledger'[x] = ledger[x]
       /\ reservedQty' = reservedQty - q /\ reservedQty' \in Nat
       /\ availableQty' = availableQty /\ hubQty' = hubQty
  <2>1. "ALLOCATE" \in LedgerTypes /\ "DISPATCH" \in LedgerTypes /\ "RECEIVE" \in LedgerTypes
    BY DEF LedgerTypes
  <2>2. CASE q = 0
    <3>1. ledger' = ledger /\ reservedQty' = reservedQty /\ availableQty' = availableQty /\ hubQty' = hubQty
      BY <1>4, <2>2 DEF stockVars
    <3>2. \A t : Booked(t)' = Booked(t)
      BY <3>1, BookedNow, BookedNext
    <3>3. \A t \in LedgerTypes : Booked(t) \in Int
      BY <1>1, TypedSums
    <3>4. ledger[r].DISPATCH \in Nat
      BY <1>1, <2>1 DEF TypeOK
    <3> QED BY <1>1, <1>9, <2>1, <2>2, <3>1, <3>2, <3>3, <3>4 DEF TypeOK
  <2>3. CASE q # 0
    <3>1. Book(r, "DISPATCH", q) /\ reservedQty' = reservedQty - q /\ availableQty' = availableQty
          /\ hubQty' = hubQty /\ reservedQty >= q
      BY <1>4, <1>7, <2>3 DEF Take
    <3>2. /\ ledger' \in [Requisition -> [LedgerTypes -> Nat]]
          /\ Booked("DISPATCH")' = Booked("DISPATCH") + q /\ Booked("DISPATCH") \in Int
          /\ \A t \in LedgerTypes \ {"DISPATCH"} : Booked(t)' = Booked(t) /\ Booked(t) \in Int
          /\ \A x \in Requisition \ {r} : ledger'[x] = ledger[x]
          /\ ledger'[r]["DISPATCH"] = ledger[r]["DISPATCH"] + q
          /\ \A t \in LedgerTypes \ {"DISPATCH"} : ledger'[r][t] = ledger[r][t]
      BY <1>1, <1>7, <2>1, <3>1, BookSums
    <3> QED BY <1>7, <1>9, <2>1, <3>1, <3>2
  <2> QED BY <2>2, <2>3
<1>11. TypeOK'
  BY <1>1, <1>4, <1>5, <1>8, <1>9, <1>10, Written DEF TypeOK
<1>12. StockIsLedgered'
  BY <1>1, <1>7, <1>9, <1>10, <1>11 DEF StockIsLedgered
<1>13. r \notin overtaken' => Settled(r)'
  <2>1. Coalesce(item[r].received, 0) \in Nat
    BY <1>1, QuantityType
  <2>2. Quantity(item[r])' = Quantity(item[r]')
    BY DEF Quantity, Coalesce
  <2>3. r \notin overtaken' => /\ ledger'[r].RECEIVE = 0 /\ ledger'[r].DISPATCH = q
                               /\ q = Quantity(item'[r]) /\ Coalesce(item'[r].received, 0) = 0
    BY <1>4, <1>6, <1>7, <1>10 DEF Settled, Sent, Coalesce
  <2> QED BY <1>7, <1>8, <2>3 DEF Settled, Sent, Coalesce, Quantity
<1>14. overtaken' \cup unreserved' = {} =>
         reservedQty' = reservedQty + WaitsFor(status', item', r) - WaitsFor(status, item, r)
  <2> SUFFICES ASSUME overtaken' = {}, unreserved' = {}
               PROVE  reservedQty' = reservedQty + WaitsFor(status', item', r) - WaitsFor(status, item, r)
    OBVIOUS
  <2>1. WaitsFor(status', item', r) = 0
    BY <1>8 DEF WaitsFor
  <2>2. WaitsFor(status, item, r) = Coalesce(item[r].allocated, 0) /\ f.read = item[r]
    BY <1>6 DEF WaitsFor
  <2>3. q = 0 \/ item[r].allocated # None
    BY <1>4, <1>7, <2>2
  <2>4. Coalesce(item[r].allocated, 0) = q
    BY <2>2, <2>3 DEF Quantity, Coalesce
  <2> QED BY <1>7, <1>9, <1>10, <2>1, <2>2, <2>4
<1>15. End(w, r, TRUE) /\ overtaken \subseteq overtaken'
  BY <1>1, <1>4, Written
<1>16. \A x \in Requisition \ {r} :
         item'[x] = item[x] /\ status'[x] = status[x] /\ ledger'[x] = ledger[x]
  BY <1>4, <1>8, <1>10
<1> QED BY <1>1, <1>5, <1>11, <1>12, <1>13, <1>14, <1>15, <1>16, WriteStep

(* receive: what the hub books in is what remains, or part of it.             *)
LEMMA ReceiveStep ==
    ASSUME Orderly, NEW r \in Requisition, NEW q \in Qty, Receive(r, q)
    PROVE  Orderly'
<1> DEFINE i == item[r]
           got == Coalesce(i.received, 0) + q
           st == IF Quantity(i) > got THEN "RECEIVED" ELSE "COMPLETED"
<1>1. TypeOK /\ StockIsLedgered /\ i \in Item /\ ledger[r] \in [LedgerTypes -> Nat]
  BY DEF Orderly, StockIsLedgered, TypeOK
<1>2. /\ Quantity(i) \in Qty /\ Coalesce(i.received, 0) \in Nat /\ q \in Nat /\ Quantity(i) \in Nat
      /\ Quantity(i) <= MaxQty /\ MaxQty \in Nat
      /\ got <= Quantity(i) /\ got \in Qty /\ got # None /\ got \in Nat
  <2>1. Quantity(i) \in Qty /\ Coalesce(i.received, 0) \in Qty /\ Qty \subseteq Nat
        /\ Remaining(i) \in Nat /\ None \notin Qty
        /\ (Remaining(i) > 0 => Remaining(i) = Quantity(i) - Coalesce(i.received, 0))
    BY <1>1, QuantityType
  <2>2. Remaining(i) > 0 /\ q <= Remaining(i)
    BY DEF Receive
  <2>3. \A a, b \in Nat : a <= b /\ b \in Qty => a \in Qty
    BY RequisitionsAssumption DEF Qty
  <2>4. got \in Nat /\ got <= Quantity(i)
    <3>1. \A a, b, c, d \in Nat : d > 0 /\ d = a - b /\ c <= d => b + c \in Nat /\ b + c <= a
      OBVIOUS
    <3>2. Remaining(i) = Quantity(i) - Coalesce(i.received, 0) /\ q \in Nat
      BY <2>1, <2>2
    <3>3. Quantity(i) \in Nat /\ Coalesce(i.received, 0) \in Nat
      BY <2>1
    <3> HIDE DEF i
    <3> QED BY <2>1, <2>2, <3>1, <3>2, <3>3
  <2>5. got \in Qty
    BY <2>1, <2>3, <2>4
  <2> QED BY <2>1, <2>4, <2>5, RequisitionsAssumption DEF Qty
<1>3. /\ status[r] \in {"IN_TRANSIT", "RECEIVED"}
      /\ item' = [item EXCEPT ![r] = [i EXCEPT !.received = got]]
      /\ hubQty' = hubQty + q
      /\ Book(r, "RECEIVE", q)
      /\ status' = [status EXCEPT ![r] = st]
      /\ End(None, r, TRUE)
      /\ UNCHANGED <<assigned, overtaken, availableQty, reservedQty, unreserved>>
  BY <1>1 DEF Receive, TypeOK
<1>4. /\ [i EXCEPT !.received = got] \in Item /\ st \in {"RECEIVED", "COMPLETED"}
      /\ st = "COMPLETED" => got = Quantity(i)
      /\ [i EXCEPT !.received = got].received = got
      /\ Quantity([i EXCEPT !.received = got]) = Quantity(i)
  <2> HIDE DEF got, i
  <2> QED BY <1>1, <1>2 DEF Item, Nullable, Quantity
<1>5. /\ item' \in [Requisition -> Item] /\ item'[r].received = got
      /\ Quantity(item'[r]) = Quantity(i)
      /\ status' \in [Requisition -> Statuses] /\ status'[r] = st
      /\ \A x \in Requisition \ {r} : item'[x] = item[x] /\ status'[x] = status[x]
  <2> HIDE DEF got, i, st
  <2> QED BY <1>1, <1>3, <1>4 DEF TypeOK, Statuses
<1>6. "ALLOCATE" \in LedgerTypes /\ "DISPATCH" \in LedgerTypes /\ "RECEIVE" \in LedgerTypes
  BY DEF LedgerTypes
<1>7. /\ ledger' \in [Requisition -> [LedgerTypes -> Nat]]
      /\ Booked("RECEIVE")' = Booked("RECEIVE") + q /\ Booked("RECEIVE") \in Nat
      /\ \A t \in {"ALLOCATE", "DISPATCH"} : Booked(t)' = Booked(t) /\ Booked(t) \in Nat
      /\ ledger'[r].DISPATCH = ledger[r].DISPATCH
      /\ ledger'[r].RECEIVE = ledger[r].RECEIVE + q
      /\ \A x \in Requisition \ {r} : ledger'[x] = ledger[x]
  BY <1>1, <1>2, <1>3, <1>6, BookSums
<1>8. TRUE \in BOOLEAN /\ hubQty' \in Nat
  BY <1>1, <1>2, <1>3 DEF TypeOK
<1> HIDE DEF got, i, st
<1>9. TypeOK'
  BY <1>1, <1>3, <1>5, <1>7, <1>8, FramesTyped DEF TypeOK
<1>10. StockIsLedgered'
  BY <1>1, <1>2, <1>3, <1>7, <1>9 DEF StockIsLedgered
<1>11. r \notin overtaken' => Settled(r)'
  <2> SUFFICES ASSUME r \notin overtaken'
               PROVE  Settled(r)'
    OBVIOUS
  <2>1. Settled(r) /\ status[r] \in Sent
    BY <1>3 DEF Orderly, Sent
  <2>2. ledger'[r].RECEIVE = got /\ ledger'[r].DISPATCH = Quantity(item'[r])
    BY <1>5, <1>7, <2>1 DEF Settled, got, i
  <2>3. Coalesce(item'[r].received, 0) = got
    BY <1>2, <1>5 DEF Coalesce
  <2> QED BY <1>2, <1>4, <1>5, <2>2, <2>3 DEF Settled, Sent, Coalesce, Quantity
<1>12. overtaken' \cup unreserved' = {} =>
         reservedQty' = reservedQty + WaitsFor(status', item', r) - WaitsFor(status, item, r)
  <2>1. WaitsFor(status', item', r) = 0 /\ WaitsFor(status, item, r) = 0
    BY <1>3, <1>4, <1>5 DEF WaitsFor
  <2> QED BY <1>1, <1>3, <2>1 DEF TypeOK
<1>13. \A x \in Requisition \ {r} :
         item'[x] = item[x] /\ status'[x] = status[x] /\ ledger'[x] = ledger[x]
  BY <1>5, <1>7
<1> QED BY <1>3, <1>9, <1>10, <1>11, <1>12, <1>13, WriteStep

(* At the start nothing has been asked for and nothing booked. *)
LEMMA InitOrderly == Init => Orderly
<1> SUFFICES ASSUME Init
             PROVE  Orderly
  OBVIOUS
<1>1. NewItem(0, 0) \in Item /\ NewItem(0, 0).allocated = None /\ NewItem(0, 0).received = None
  BY RequisitionsAssumption DEF NewItem, Item, Nullable, Qty
<1>2. Idle \in Frame
  BY DEF Idle, Frame, Operations, Nullable
<1>3. TypeOK
  BY <1>1, <1>2, RequisitionsAssumption DEF Init, TypeOK, Statuses
<1>4. \A t \in LedgerTypes : Booked(t) = 0
  <2> TAKE t \in LedgerTypes
  <2>1. \A x \in Requisition : Column(ledger, t)[x] = 0
    BY DEF Init, Column
  <2> QED BY <2>1, BookedNow, SumZero, RequisitionsAssumption
<1>5. StockIsLedgered
  BY <1>3, <1>4, RequisitionsAssumption DEF Init, StockIsLedgered, LedgerTypes
<1>6. \A w \in Requests : Fresh(request[w])
  BY DEF Init, Fresh, Idle
<1>7. \A r \in Requisition : Settled(r)
  BY <1>1 DEF Init, Settled, Sent, Coalesce, LedgerTypes
<1>8. AllocatedIsReserved
  <2> DEFINE f == [r \in Requisition |-> WaitsFor(status, item, r)]
  <2>1. \A r \in Requisition : f[r] = 0
    BY DEF Init, WaitsFor
  <2> HIDE DEF f
  <2>2. SumOf(f, Requisition) = 0
    BY <2>1, SumZero, RequisitionsAssumption
  <2> QED BY <2>2, AllocatedNow DEF Init, Waiting, f
<1> QED BY <1>5, <1>6, <1>7, <1>8 DEF Orderly

(* Every step keeps Orderly. *)
LEMMA NextOrderly == Orderly /\ [Next]_vars => Orderly'
<1> SUFFICES ASSUME Orderly, [Next]_vars
             PROVE  Orderly'
  OBVIOUS
<1>1. CASE UNCHANGED vars
  <2>1. TypeOK' /\ \A w \in Requests : Fresh(request[w])'
    BY <1>1 DEF vars, reqVars, stockVars, Orderly, StockIsLedgered, TypeOK, Fresh
  <2> QED BY <1>1, <2>1, QuietStep DEF vars
<1>2. ASSUME NEW w \in Requests, Commit(w)
      PROVE  Orderly'
  BY <1>2, UpdateStep, StatusStep, ApproveStep, AllocateStep, AssignStep, DispatchStep DEF Commit
<1> QED BY <1>1, <1>2, ArrivalStep, CreateStep, ReceiveStep DEF Next

(* Orderly is an invariant of the requisitions, however their handlers        *)
(* interleave.                                                                *)
THEOREM OrderlyInvariant == Spec => []Orderly
  BY InitOrderly, NextOrderly, PTL DEF Spec

(* The columns of the stock say what the ledger says, for every number of     *)
(* requisitions, requests and quantities: allocate, dispatch and receive      *)
(* write rows and ledger together, and no interleaving takes them apart.      *)
THEOREM StockLedgered == Spec => []StockIsLedgered
<1>1. Orderly => StockIsLedgered
  BY DEF Orderly
<1> QED BY <1>1, OrderlyInvariant, PTL

(* Unless a stale write or a dispatch without allocation happened, what is    *)
(* reserved in the warehouse is what the ALLOCATED requisitions wait for.     *)
THEOREM ReservedForAllocated == Spec => []AllocatedIsReserved
<1>1. Orderly => AllocatedIsReserved
  BY DEF Orderly
<1> QED BY <1>1, OrderlyInvariant, PTL

(* A hub receives no more of a requisition than was dispatched for it, in     *)
(* however many receipts, and all of it when it is COMPLETED (receive).       *)
THEOREM NoMoreThanDispatched == Spec => []ReceivedWasDispatched
<1>1. Orderly => ReceivedWasDispatched
  <2> SUFFICES ASSUME Orderly, NEW r \in Requisition \ overtaken
               PROVE  /\ ledger[r].RECEIVE <= ledger[r].DISPATCH
                      /\ status[r] = "COMPLETED" => ledger[r].RECEIVE = ledger[r].DISPATCH
    BY DEF ReceivedWasDispatched
  <2>1. Settled(r)
    BY DEF Orderly
  <2>2. status[r] \notin Sent => ledger[r].RECEIVE = 0 /\ ledger[r].DISPATCH = 0
    BY <2>1 DEF Settled, Coalesce
  <2> QED BY <2>1, <2>2 DEF Settled
<1> QED BY <1>1, OrderlyInvariant, PTL

-----------------------------------------------------------------------------
(* The stock of a product at the hubs (HubInventory), for any set of hubs,    *)
(* any number of requests and any quantities: the stock of all hubs is what   *)
(* was reported, and no hub owes any, but for what writes over a changed row  *)
(* have done.  The invariant says what the frame of a request that is not     *)
(* stale still knows of its row.                                              *)

(* What InventoryAssumption says, in the operators of this module.            *)
LEMMA InventoryFits ==
    /\ IsFiniteSet(Hubs) /\ Warehouse \in Hubs
    /\ Amounts \subseteq Nat /\ Start \in Nat
    /\ None \notin Int /\ None \notin Hubs /\ None \notin Requests
  BY InventoryAssumption DEF Inventory!ConstantsFit, Inventory!IsFiniteSet, IsFiniteSet

StockFrame ==
    [op       : {"none", "adjust", "transfer", "adjustInventory", "place"},
     hub      : Hubs \cup {None},
     to       : Hubs \cup {None},
     qty      : Int,
     sum      : Int,
     reserved : Amounts \cup {None},
     stale    : BOOLEAN]

StockTypeOK ==
    /\ hubAvailable \in [Hubs -> Int]
    /\ hubReserved \in [Hubs -> Int]
    /\ hubRequest \in [Requests -> StockFrame]
    /\ inFlow \in Int \cup {None}
    /\ raced \subseteq Hubs

(* What request f knows of the rows: the number to be written was computed    *)
(* from the row as it is, or the stock to be taken is there, unless the row   *)
(* has been written since it was read.                                        *)
KnowsRow(f, available) ==
    /\ f.op # "none" => f.hub \in Hubs
    /\ f.op \in {"adjust", "adjustInventory"} =>
          /\ f.sum >= 0
          /\ ~f.stale => f.sum = available[f.hub] + f.qty
    /\ f.op \in {"transfer", "place"} =>
          /\ f.qty >= 0
          /\ ~f.stale => available[f.hub] >= f.qty
    /\ f.op = "transfer" => f.to \in Hubs \ {f.hub}

StockSound ==
    /\ StockTypeOK
    /\ \A w \in Requests : KnowsRow(hubRequest[w], hubAvailable)
    /\ Inventory!StockHolds

-----------------------------------------------------------------------------
(* The stock of all hubs, as a sum over any two columns. *)

HubTotal(available, reserved) == SumOf([h \in Hubs |-> available[h] + reserved[h]], Hubs)

LEMMA StockNow == Inventory!Stock = HubTotal(hubAvailable, hubReserved)
  BY DEF Inventory!Stock, Inventory!Units, HubTotal, SumOf, Inventory!MapThenSumSet,
         Inventory!MapThenFoldSet, MapThenSumSet, MapThenFoldSet

LEMMA StockNext == Inventory!Stock' = HubTotal(hubAvailable', hubReserved')
  BY DEF Inventory!Stock, Inventory!Units, HubTotal, SumOf, Inventory!MapThenSumSet,
         Inventory!MapThenFoldSet, MapThenSumSet, MapThenFoldSet

(* Writing the row of one hub changes the total by as much.                   *)
LEMMA OneRow ==
    ASSUME NEW h \in Hubs,
           NEW a, NEW r, NEW b, NEW s,
           \A x \in Hubs : a[x] \in Int /\ r[x] \in Int /\ b[x] \in Int /\ s[x] \in Int,
           \A x \in Hubs \ {h} : b[x] = a[x] /\ s[x] = r[x]
    PROVE  /\ HubTotal(a, r) \in Int
           /\ HubTotal(b, s) = HubTotal(a, r) + (b[h] + s[h]) - (a[h] + r[h])
<1> DEFINE f == [x \in Hubs |-> a[x] + r[x]]
           g == [x \in Hubs |-> b[x] + s[x]]
<1>1. \A x \in Hubs : f[x] \in Int /\ g[x] \in Int
  OBVIOUS
<1>2. \A x \in Hubs \ {h} : g[x] = f[x]
  OBVIOUS
<1>3. f[h] = a[h] + r[h] /\ g[h] = b[h] + s[h]
  OBVIOUS
<1>4. IsFiniteSet(Hubs)
  BY InventoryFits
<1> HIDE DEF f, g
<1>5. SumOf(g, Hubs) = SumOf(f, Hubs) + g[h] - f[h]
  BY <1>1, <1>2, <1>4, SumChange
<1>6. SumOf(f, Hubs) \in Int
  BY <1>1, <1>4, SumRemove
<1>7. f[h] \in Int /\ g[h] \in Int
  BY <1>1
<1> QED BY <1>3, <1>5, <1>6, <1>7 DEF HubTotal, f, g

(* What is moved from one row to another leaves the total as it is.           *)
LEMMA TwoRows ==
    ASSUME NEW h \in Hubs, NEW to \in Hubs \ {h}, NEW q \in Int,
           NEW a, NEW r, NEW b,
           \A x \in Hubs : a[x] \in Int /\ r[x] \in Int /\ b[x] \in Int,
           b[h] = a[h] - q, b[to] = a[to] + q,
           \A x \in Hubs \ {h, to} : b[x] = a[x]
    PROVE  HubTotal(b, r) = HubTotal(a, r)
<1> DEFINE c == [x \in Hubs |-> IF x = h THEN b[h] ELSE a[x]]
<1>1. /\ \A x \in Hubs : c[x] \in Int
      /\ \A x \in Hubs \ {h} : c[x] = a[x]
      /\ \A x \in Hubs \ {to} : b[x] = c[x]
      /\ c[h] = b[h] /\ c[to] = a[to]
  OBVIOUS
<1> HIDE DEF c
<1>2. HubTotal(a, r) \in Int /\ HubTotal(c, r) = HubTotal(a, r) + (c[h] + r[h]) - (a[h] + r[h])
  BY <1>1, OneRow
<1>3. HubTotal(b, r) = HubTotal(c, r) + (b[to] + r[to]) - (c[to] + r[to])
  BY <1>1, OneRow
<1>4. /\ a[h] \in Int /\ r[h] \in Int /\ a[to] \in Int /\ r[to] \in Int
  OBVIOUS
<1> QED BY <1>1, <1>2, <1>3, <1>4

-----------------------------------------------------------------------------
(* Frames. *)

LEMMA IdleFits == Inventory!Idle \in StockFrame /\ Inventory!Idle.op = "none"
  BY DEF Inventory!Idle, StockFrame

(* A request that reads becomes the one it is told to, and others stay.       *)
LEMMA StockReadStep ==
    ASSUME StockSound, NEW w \in Requests, NEW f \in StockFrame, KnowsRow(f, hubAvailable),
           Inventory!Read(w, f)
    PROVE  StockSound'
<1>1. /\ hubRequest' \in [Requests -> StockFrame]
      /\ UNCHANGED <<hubAvailable, hubReserved, inFlow, raced>>
  BY DEF StockSound, StockTypeOK, Inventory!Read
<1>2. \A v \in Requests : KnowsRow(hubRequest'[v], hubAvailable)
  BY DEF StockSound, StockTypeOK, Inventory!Read
<1>3. Inventory!Stock' = Inventory!Stock
  BY <1>1, StockNow, StockNext
<1> QED BY <1>1, <1>2, <1>3 DEF StockSound, StockTypeOK, Inventory!StockHolds,
           Inventory!StockAddsUp, Inventory!NotOverdrawn

(* When rows have been written, whoever had read them knows nothing of them   *)
(* any more, and all others know what they knew.                              *)
LEMMA WrittenFrames ==
    ASSUME StockSound, NEW w \in Requests \cup {None}, NEW hubs \in SUBSET Hubs,
           Inventory!Written(w, hubs), \A h \in Hubs \ hubs : hubAvailable'[h] = hubAvailable[h]
    PROVE  /\ hubRequest' \in [Requests -> StockFrame]
           /\ \A v \in Requests : KnowsRow(hubRequest'[v], hubAvailable')
<1> SUFFICES ASSUME NEW v \in Requests
             PROVE  hubRequest'[v] \in StockFrame /\ KnowsRow(hubRequest'[v], hubAvailable')
  BY DEF Inventory!Written
<1>1. hubRequest[v] \in StockFrame /\ KnowsRow(hubRequest[v], hubAvailable)
  BY DEF StockSound, StockTypeOK
<1>2. CASE hubRequest'[v] = Inventory!Idle
  BY <1>2, IdleFits DEF KnowsRow
<1>3. CASE hubRequest'[v] = [hubRequest[v] EXCEPT !.stale = TRUE]
  BY <1>1, <1>3 DEF StockFrame, KnowsRow
<1>4. CASE hubRequest'[v] = hubRequest[v] /\ hubRequest[v].hub \notin hubs
  BY <1>1, <1>4 DEF KnowsRow
<1> QED BY <1>2, <1>3, <1>4 DEF Inventory!Written

(* The row of hub h becomes a and r. *)
WritesRow(h, a, r) ==
    /\ hubAvailable' = [hubAvailable EXCEPT ![h] = a]
    /\ hubReserved' = [hubReserved EXCEPT ![h] = r]

(* A step that writes the row of hub h: what it reports is what it adds, and  *)
(* it leaves stock or an excuse.                                              *)
LEMMA RowStep ==
    ASSUME StockSound, NEW w \in Requests \cup {None}, NEW h \in Hubs,
           NEW a \in Int, NEW r \in Int,
           WritesRow(h, a, r), Inventory!Written(w, {h}),
           \/ inFlow' = None
           \/ /\ inFlow # None
              /\ inFlow' = inFlow + (a + r) - (hubAvailable[h] + hubReserved[h]),
           raced \subseteq raced', raced' \subseteq Hubs,
           h \in raced' \/ a >= 0
    PROVE  StockSound'
<1>1. hubAvailable \in [Hubs -> Int] /\ hubReserved \in [Hubs -> Int] /\ inFlow \in Int \cup {None}
  BY DEF StockSound, StockTypeOK
<1>2. /\ hubAvailable' \in [Hubs -> Int] /\ hubAvailable'[h] = a
      /\ hubReserved' \in [Hubs -> Int] /\ hubReserved'[h] = r
      /\ \A x \in Hubs \ {h} : hubAvailable'[x] = hubAvailable[x] /\ hubReserved'[x] = hubReserved[x]
  BY <1>1 DEF WritesRow
<1>3. /\ hubRequest' \in [Requests -> StockFrame]
      /\ \A v \in Requests : KnowsRow(hubRequest'[v], hubAvailable')
  <2>1. {h} \in SUBSET Hubs
    OBVIOUS
  <2> QED BY <1>2, <2>1, WrittenFrames
<1>4. /\ HubTotal(hubAvailable, hubReserved) \in Int
      /\ HubTotal(hubAvailable', hubReserved') =
           HubTotal(hubAvailable, hubReserved) + (a + r) - (hubAvailable[h] + hubReserved[h])
  <2>1. \A x \in Hubs : /\ hubAvailable[x] \in Int /\ hubReserved[x] \in Int
                        /\ hubAvailable'[x] \in Int /\ hubReserved'[x] \in Int
    BY <1>1, <1>2
  <2>3. \A x \in Hubs \ {h} : /\ hubAvailable'[x] = hubAvailable[x]
                              /\ hubReserved'[x] = hubReserved[x]
    BY <1>2
  <2>2. /\ HubTotal(hubAvailable, hubReserved) \in Int
        /\ HubTotal(hubAvailable', hubReserved') =
             HubTotal(hubAvailable, hubReserved) + (hubAvailable'[h] + hubReserved'[h])
                                              - (hubAvailable[h] + hubReserved[h])
    BY <2>1, <2>3, OneRow
  <2> QED BY <1>2, <2>2
<1>5. inFlow' \in Int \cup {None} /\ Inventory!StockAddsUp'
  <2>1. CASE inFlow' = None
    BY <2>1 DEF Inventory!StockAddsUp
  <2>2. CASE inFlow # None /\ inFlow' = inFlow + (a + r) - (hubAvailable[h] + hubReserved[h])
    <3>1. inFlow = HubTotal(hubAvailable, hubReserved) /\ inFlow \in Int
      BY <1>1, <2>2, StockNow DEF StockSound, Inventory!StockHolds, Inventory!StockAddsUp
    <3>2. inFlow' = HubTotal(hubAvailable', hubReserved')
      BY <2>2, <3>1, <1>4
    <3>3. hubAvailable[h] \in Int /\ hubReserved[h] \in Int
      BY <1>1
    <3>4. inFlow' \in Int
      BY <2>2, <3>1, <3>3
    <3> QED BY <3>2, <3>4, StockNext DEF Inventory!StockAddsUp
  <2> QED BY <2>1, <2>2
<1>6. Inventory!NotOverdrawn'
  <2> SUFFICES ASSUME NEW x \in Hubs, x \notin raced'
               PROVE  hubAvailable'[x] >= 0
    BY DEF Inventory!NotOverdrawn
  <2>1. CASE x = h
    BY <2>1, <1>2
  <2>2. CASE x # h
    <3>1. hubAvailable[x] >= 0
      BY DEF StockSound, Inventory!StockHolds, Inventory!NotOverdrawn
    <3> QED BY <1>2, <2>2, <3>1
  <2> QED BY <2>1, <2>2
<1> QED BY <1>2, <1>3, <1>5, <1>6 DEF StockSound, StockTypeOK, Inventory!StockHolds

-----------------------------------------------------------------------------
(* The reads. *)

LEMMA AdjustReadStep ==
    ASSUME StockSound, NEW w \in Requests, NEW h \in Hubs, NEW n \in Int,
           Inventory!AdjustRead(w, h, n)
    PROVE  StockSound'
<1> SUFFICES ASSUME NEW m, m = hubAvailable[h] + n
             PROVE  StockSound'
  OBVIOUS
<1> DEFINE f == [Inventory!Idle EXCEPT !.op = "adjust", !.hub = h, !.qty = n, !.sum = m]
<1>1. hubAvailable[h] \in Int /\ m \in Int
  BY DEF StockSound, StockTypeOK
<1>2. f \in StockFrame
  <2>1. Inventory!Idle \in StockFrame
    BY IdleFits
  <2> QED BY <1>1, <2>1 DEF StockFrame
<1>3. KnowsRow(f, hubAvailable)
  BY <1>1, IdleFits DEF StockFrame, KnowsRow, Inventory!AdjustRead
<1> HIDE DEF f
<1>4. Inventory!Read(w, f)
  BY DEF Inventory!AdjustRead, f
<1> QED BY <1>2, <1>3, <1>4, StockReadStep

LEMMA TransferReadStep ==
    ASSUME StockSound, NEW w \in Requests, NEW h \in Hubs, NEW to \in Hubs,
           NEW q \in Amounts, Inventory!TransferRead(w, h, to, q)
    PROVE  StockSound'
<1> DEFINE f == [Inventory!Idle EXCEPT !.op = "transfer", !.hub = h, !.to = to, !.qty = q]
<1>1. hubAvailable[h] \in Int /\ q \in Nat /\ q \in Int
  BY InventoryFits DEF StockSound, StockTypeOK
<1>2. f \in StockFrame
  <2>1. Inventory!Idle \in StockFrame
    BY IdleFits
  <2> QED BY <1>1, <2>1 DEF StockFrame
<1>3. KnowsRow(f, hubAvailable)
  BY <1>1, IdleFits DEF StockFrame, KnowsRow, Inventory!TransferRead
<1> HIDE DEF f
<1>4. Inventory!Read(w, f)
  BY DEF Inventory!TransferRead, f
<1> QED BY <1>2, <1>3, <1>4, StockReadStep

LEMMA TakeStockReadStep ==
    ASSUME StockSound, NEW w \in Requests, NEW h \in Hubs, NEW q \in Amounts,
           Inventory!TakeStockRead(w, h, q)
    PROVE  StockSound'
<1> DEFINE f == [Inventory!Idle EXCEPT !.op = "place", !.hub = h, !.qty = q]
<1>1. hubAvailable[h] \in Int /\ q \in Nat /\ q \in Int
  BY InventoryFits DEF StockSound, StockTypeOK
<1>2. f \in StockFrame
  <2>1. Inventory!Idle \in StockFrame
    BY IdleFits
  <2> QED BY <1>1, <2>1 DEF StockFrame
<1>3. KnowsRow(f, hubAvailable)
  BY <1>1, IdleFits DEF StockFrame, KnowsRow, Inventory!TakeStockRead
<1> HIDE DEF f
<1>4. Inventory!Read(w, f)
  BY DEF Inventory!TakeStockRead, f
<1> QED BY <1>2, <1>3, <1>4, StockReadStep

LEMMA AdjustInventoryReadStep ==
    ASSUME StockSound, NEW w \in Requests, NEW q \in Amounts,
           NEW r \in Amounts \cup {None}, Inventory!AdjustInventoryRead(w, q, r)
    PROVE  StockSound'
<1> SUFFICES ASSUME NEW n, n = q - hubAvailable[Warehouse]
             PROVE  StockSound'
  OBVIOUS
<1> DEFINE f == [Inventory!Idle EXCEPT !.op = "adjustInventory", !.hub = Warehouse,
                             !.qty = n, !.sum = q, !.reserved = r]
<1>1. Warehouse \in Hubs /\ hubAvailable[Warehouse] \in Int /\ q \in Nat /\ q \in Int /\ n \in Int
  BY InventoryFits DEF StockSound, StockTypeOK
<1>2. f \in StockFrame
  <2>1. Inventory!Idle \in StockFrame
    BY IdleFits
  <2> QED BY <1>1, <2>1 DEF StockFrame
<1>3. KnowsRow(f, hubAvailable)
  BY <1>1, IdleFits DEF StockFrame, KnowsRow
<1> HIDE DEF f
<1>4. Inventory!Read(w, f)
  BY DEF Inventory!AdjustInventoryRead, f
<1> QED BY <1>2, <1>3, <1>4, StockReadStep

-----------------------------------------------------------------------------
(* The writes. *)

(* What the invariant says of a request and of the rows it is about.          *)
LEMMA StockFrameOf ==
    ASSUME StockSound, NEW w \in Requests, hubRequest[w].op # "none"
    PROVE  /\ hubRequest[w] \in StockFrame /\ KnowsRow(hubRequest[w], hubAvailable)
           /\ hubRequest[w].hub \in Hubs
           /\ hubAvailable[hubRequest[w].hub] \in Int /\ hubReserved[hubRequest[w].hub] \in Int
           /\ hubAvailable \in [Hubs -> Int] /\ hubReserved \in [Hubs -> Int]
           /\ inFlow \in Int \cup {None} /\ raced \subseteq Hubs
  BY DEF StockSound, StockTypeOK, KnowsRow

LEMMA AdjustStep ==
    ASSUME StockSound, NEW w \in Requests, Inventory!Adjust(w)
    PROVE  StockSound'
<1> SUFFICES ASSUME NEW f, f = hubRequest[w], NEW h, h = f.hub
             PROVE  StockSound'
  OBVIOUS
<1>1. f.op = "adjust" /\ hubRequest[w].op # "none"
  BY DEF Inventory!Adjust, Inventory!At
<1>2. /\ f \in StockFrame /\ KnowsRow(f, hubAvailable) /\ h \in Hubs
      /\ hubAvailable[h] \in Int /\ hubReserved[h] \in Int /\ f.sum \in Int /\ f.qty \in Int
      /\ inFlow \in Int \cup {None} /\ raced \subseteq Hubs
      /\ hubReserved \in [Hubs -> Int]
  BY <1>1, StockFrameOf DEF StockFrame
<1>3. f.sum >= 0 /\ (~f.stale => f.sum = hubAvailable[h] + f.qty)
  BY <1>1, <1>2 DEF KnowsRow
<1>4. /\ WritesRow(h, f.sum, hubReserved[h])
      /\ Inventory!Written(w, {h}) /\ raced' = raced
  BY <1>2 DEF Inventory!Adjust, WritesRow
<1>5. \/ inFlow' = None
      \/ /\ inFlow # None
         /\ inFlow' = inFlow + (f.sum + hubReserved[h]) - (hubAvailable[h] + hubReserved[h])
  <2>1. Inventory!ReportRead(f, f.qty)
    BY DEF Inventory!Adjust
  <2> QED BY <2>1, <1>2, <1>3 DEF Inventory!ReportRead, Inventory!Report
<1> QED BY <1>2, <1>3, <1>4, <1>5, RowStep

LEMMA AdjustInventoryStep ==
    ASSUME StockSound, NEW w \in Requests, Inventory!AdjustInventory(w)
    PROVE  StockSound'
<1> SUFFICES ASSUME NEW f, f = hubRequest[w], NEW h, h = f.hub
             PROVE  StockSound'
  OBVIOUS
<1>1. f.op = "adjustInventory" /\ hubRequest[w].op # "none"
  BY DEF Inventory!AdjustInventory, Inventory!At
<1>2. /\ f \in StockFrame /\ KnowsRow(f, hubAvailable) /\ h \in Hubs
      /\ hubAvailable[h] \in Int /\ hubReserved[h] \in Int /\ f.sum \in Int /\ f.qty \in Int
      /\ inFlow \in Int \cup {None} /\ raced \subseteq Hubs
  BY <1>1, StockFrameOf DEF StockFrame
<1>3. f.sum >= 0 /\ (~f.stale => f.sum = hubAvailable[h] + f.qty)
  BY <1>1, <1>2 DEF KnowsRow
<1>4. PICK r \in Int : r = IF f.reserved = None THEN hubReserved[h] ELSE f.reserved
  <2>1. f.reserved \in Amounts \cup {None}
    BY <1>2 DEF StockFrame
  <2>2. \A x \in Amounts : x \in Int
    BY InventoryFits
  <2>3. f.reserved # None => f.reserved \in Int
    BY <2>1, <2>2, Zenon
  <2> QED BY <1>2, <2>3
<1>5. /\ WritesRow(h, f.sum, r)
      /\ Inventory!Written(w, {h}) /\ raced' = raced
  BY <1>4 DEF Inventory!AdjustInventory, WritesRow
<1>6. \/ inFlow' = None
      \/ /\ inFlow # None
         /\ inFlow' = inFlow + (f.sum + r) - (hubAvailable[h] + hubReserved[h])
  <2>1. Inventory!ReportRead(f, f.qty + (r - hubReserved[h]))
    BY <1>4 DEF Inventory!AdjustInventory
  <2> QED BY <2>1, <1>2, <1>3, <1>4 DEF Inventory!ReportRead, Inventory!Report
<1> QED BY <1>2, <1>3, <1>4, <1>5, <1>6, RowStep

LEMMA TakeStockStep ==
    ASSUME StockSound, NEW w \in Requests, Inventory!TakeStock(w)
    PROVE  StockSound'
<1> SUFFICES ASSUME NEW f, f = hubRequest[w], NEW h, h = f.hub
             PROVE  StockSound'
  OBVIOUS
<1>1. f.op = "place" /\ hubRequest[w].op # "none"
  BY DEF Inventory!TakeStock, Inventory!At
<1>2. /\ f \in StockFrame /\ KnowsRow(f, hubAvailable) /\ h \in Hubs
      /\ hubAvailable[h] \in Int /\ hubReserved[h] \in Int /\ f.qty \in Int
      /\ hubAvailable \in [Hubs -> Int] /\ hubReserved \in [Hubs -> Int]
      /\ inFlow \in Int \cup {None} /\ raced \subseteq Hubs
  BY <1>1, StockFrameOf DEF StockFrame
<1>3. ~f.stale => hubAvailable[h] >= f.qty
  BY <1>1, <1>2 DEF KnowsRow
<1>4. /\ WritesRow(h, hubAvailable[h] - f.qty, hubReserved[h] + f.qty)
      /\ Inventory!Written(w, {h}) /\ inFlow' = inFlow
  BY <1>2 DEF Inventory!TakeStock, WritesRow
<1>5. raced \subseteq raced' /\ raced' \subseteq Hubs /\ (f.stale => h \in raced')
  BY <1>2 DEF Inventory!TakeStock, Inventory!Takes
<1>6. \/ inFlow' = None
      \/ /\ inFlow # None
         /\ inFlow' = inFlow + ((hubAvailable[h] - f.qty) + (hubReserved[h] + f.qty))
                             - (hubAvailable[h] + hubReserved[h])
  BY <1>2, <1>4
<1>7. h \in raced' \/ hubAvailable[h] - f.qty >= 0
  BY <1>2, <1>3, <1>5 DEF StockFrame
<1>8. hubAvailable[h] - f.qty \in Int /\ hubReserved[h] + f.qty \in Int
  BY <1>2
<1> QED BY <1>2, <1>4, <1>5, <1>6, <1>7, <1>8, RowStep

(* A transfer writes two rows; what leaves one arrives in the other.          *)
LEMMA TransferStep ==
    ASSUME StockSound, NEW w \in Requests, Inventory!Transfer(w)
    PROVE  StockSound'
<1> SUFFICES ASSUME NEW f, f = hubRequest[w], NEW h, h = f.hub, NEW to, to = f.to
             PROVE  StockSound'
  OBVIOUS
<1>1. f.op = "transfer" /\ hubRequest[w].op # "none"
  BY DEF Inventory!Transfer, Inventory!At
<1>2. /\ f \in StockFrame /\ KnowsRow(f, hubAvailable) /\ h \in Hubs
      /\ hubAvailable[h] \in Int /\ f.qty \in Int
      /\ hubAvailable \in [Hubs -> Int] /\ hubReserved \in [Hubs -> Int]
      /\ inFlow \in Int \cup {None} /\ raced \subseteq Hubs
  BY <1>1, StockFrameOf DEF StockFrame
<1>3. (~f.stale => hubAvailable[h] >= f.qty) /\ to \in Hubs \ {h} /\ f.qty >= 0
  BY <1>1, <1>2 DEF KnowsRow
<1>4. /\ hubAvailable' = [hubAvailable EXCEPT ![h] = @ - f.qty, ![to] = @ + f.qty]
      /\ Inventory!Written(w, {h, to}) /\ hubReserved' = hubReserved /\ inFlow' = inFlow
  BY DEF Inventory!Transfer
<1>5. raced \subseteq raced' /\ raced' \subseteq Hubs /\ (f.stale => h \in raced')
  BY <1>2 DEF Inventory!Transfer, Inventory!Takes
<1>6. /\ hubAvailable' \in [Hubs -> Int]
      /\ hubAvailable'[h] = hubAvailable[h] - f.qty
      /\ hubAvailable'[to] = hubAvailable[to] + f.qty /\ hubAvailable[to] \in Int
      /\ \A x \in Hubs \ {h, to} : hubAvailable'[x] = hubAvailable[x]
  BY <1>2, <1>3, <1>4
<1>7. /\ hubRequest' \in [Requests -> StockFrame]
      /\ \A v \in Requests : KnowsRow(hubRequest'[v], hubAvailable')
  <2>1. {h, to} \in SUBSET Hubs
    BY <1>2, <1>3
  <2> QED BY <1>4, <1>6, <2>1, WrittenFrames
<1>8. HubTotal(hubAvailable', hubReserved') = HubTotal(hubAvailable, hubReserved)
  <2>1. \A x \in Hubs : /\ hubAvailable[x] \in Int /\ hubReserved[x] \in Int
                        /\ hubAvailable'[x] \in Int
    BY <1>2, <1>6
  <2>2. h \in Hubs /\ to \in Hubs \ {h} /\ f.qty \in Int
    BY <1>2, <1>3
  <2>3. HubTotal(hubAvailable', hubReserved) = HubTotal(hubAvailable, hubReserved)
    BY <1>6, <2>1, <2>2, TwoRows
  <2> QED BY <1>4, <2>3
<1>9. Inventory!StockAddsUp'
  BY <1>4, <1>8, StockNow, StockNext DEF StockSound, Inventory!StockHolds, Inventory!StockAddsUp
<1>10. Inventory!NotOverdrawn'
  <2> SUFFICES ASSUME NEW x \in Hubs, x \notin raced'
               PROVE  hubAvailable'[x] >= 0
    BY DEF Inventory!NotOverdrawn
  <2>1. hubAvailable[x] >= 0
    BY <1>5 DEF StockSound, Inventory!StockHolds, Inventory!NotOverdrawn
  <2>2. CASE x = h
    BY <2>2, <1>2, <1>3, <1>5, <1>6 DEF StockFrame
  <2>3. CASE x = to
    BY <2>1, <2>3, <1>2, <1>3, <1>6
  <2>4. CASE x \notin {h, to}
    BY <2>1, <2>4, <1>6
  <2> QED BY <2>2, <2>3, <2>4
<1> QED BY <1>2, <1>4, <1>5, <1>6, <1>7, <1>9, <1>10 DEF StockSound, StockTypeOK,
           Inventory!StockHolds

(* The screens that write what they are told report the difference.           *)
LEMMA SetStockStep ==
    ASSUME StockSound, NEW h \in Hubs, NEW q \in Amounts,
           NEW r \in Amounts \cup {None}, Inventory!SetStock(h, q, r)
    PROVE  StockSound'
<1>1. /\ q \in Nat /\ hubAvailable[h] \in Int /\ hubReserved[h] \in Int
      /\ inFlow \in Int \cup {None} /\ raced \subseteq Hubs
  BY InventoryFits DEF StockSound, StockTypeOK
<1>2. PICK n \in Int : n = IF r = None THEN hubReserved[h] ELSE r
  BY <1>1, InventoryFits
<1>3. /\ WritesRow(h, q, n)
      /\ Inventory!Written(None, {h}) /\ raced' = raced
  BY <1>2 DEF Inventory!SetStock, WritesRow
<1>4. \/ inFlow' = None
      \/ /\ inFlow # None
         /\ inFlow' = inFlow + (q + n) - (hubAvailable[h] + hubReserved[h])
  <2>1. Inventory!Report(q - hubAvailable[h] + n - hubReserved[h])
    BY <1>2 DEF Inventory!SetStock
  <2> QED BY <2>1, <1>1, <1>2 DEF Inventory!Report
<1>5. q \in Int /\ q >= 0 /\ raced \subseteq raced' /\ raced' \subseteq Hubs
  BY <1>1, <1>3
<1>6. n \in Int /\ None \in Requests \cup {None}
  OBVIOUS
<1> QED BY <1>3, <1>4, <1>5, <1>6, RowStep

(* Deliveries from outside, returns and deliveries to customers. *)
LEMMA FlowStep ==
    ASSUME StockSound, NEW h \in Hubs, NEW q \in Amounts,
           \/ Inventory!Receive(h, q) \/ Inventory!ReturnStock(h, q)
           \/ Inventory!ConsumeReservedStock(h, q)
    PROVE  StockSound'
<1> SUFFICES ASSUME NEW a, a = hubAvailable[h], NEW r, r = hubReserved[h] PROVE StockSound'
  OBVIOUS
<1>1. /\ q \in Nat /\ a \in Int /\ r \in Int
      /\ hubAvailable \in [Hubs -> Int] /\ hubReserved \in [Hubs -> Int]
      /\ inFlow \in Int \cup {None} /\ raced \subseteq Hubs
      /\ h \in raced \/ a >= 0
  BY InventoryFits DEF StockSound, StockTypeOK, Inventory!StockHolds, Inventory!NotOverdrawn
<1>2. Inventory!Written(None, {h}) /\ raced' = raced
  BY DEF Inventory!Receive, Inventory!ReturnStock, Inventory!ConsumeReservedStock
<1>a. CASE Inventory!Receive(h, q)
  <2>1. /\ WritesRow(h, a + q, r)
        /\ Inventory!Report(q)
    BY <1>a, <1>1 DEF Inventory!Receive, WritesRow
  <2>2. \/ inFlow' = None
        \/ inFlow # None /\ inFlow' = inFlow + ((a + q) + r) - (a + r)
    BY <1>1, <2>1 DEF Inventory!Report
  <2>3. a + q \in Int /\ (h \in raced' \/ a + q >= 0)
    BY <1>1, <1>2
  <2> QED BY <1>1, <1>2, <2>1, <2>2, <2>3, RowStep
<1>b. CASE Inventory!ReturnStock(h, q)
  <2>1. /\ WritesRow(h, a + q, r - q)
        /\ inFlow' = inFlow
    BY <1>b, <1>1 DEF Inventory!ReturnStock, WritesRow
  <2>2. \/ inFlow' = None
        \/ inFlow # None /\ inFlow' = inFlow + ((a + q) + (r - q)) - (a + r)
    BY <1>1, <2>1
  <2>3. a + q \in Int /\ r - q \in Int /\ (h \in raced' \/ a + q >= 0)
    BY <1>1, <1>2
  <2> QED BY <1>1, <1>2, <2>1, <2>2, <2>3, RowStep
<1>c. CASE Inventory!ConsumeReservedStock(h, q)
  <2>1. /\ WritesRow(h, a, r - q)
        /\ Inventory!Report(-q)
    BY <1>c, <1>1 DEF Inventory!ConsumeReservedStock, WritesRow
  <2>2. \/ inFlow' = None
        \/ inFlow # None /\ inFlow' = inFlow + (a + (r - q)) - (a + r)
    BY <1>1, <2>1 DEF Inventory!Report
  <2>3. r - q \in Int /\ (h \in raced' \/ a >= 0)
    BY <1>1, <1>2
  <2> QED BY <1>1, <1>2, <2>1, <2>2, <2>3, RowStep
<1> QED BY <1>a, <1>b, <1>c

-----------------------------------------------------------------------------
LEMMA InitStock ==
    ASSUME Inventory!Init
    PROVE  StockSound
<1> DEFINE units == [h \in Hubs |-> hubAvailable[h] + hubReserved[h]]
<1>1. IsFiniteSet(Hubs) /\ Cardinality(Hubs) \in Nat /\ Start \in Int /\ Start >= 0
  BY FS_CardinalityType, InventoryFits
<1>2. \A h \in Hubs : units[h] = Start
  BY <1>1 DEF Inventory!Init
<1>3. SumOf(units, Hubs) = Start * Cardinality(Hubs)
  <2> HIDE DEF units
  <2> QED BY <1>1, <1>2, SumConstant
<1>4. Inventory!Stock = inFlow
  <2>1. inFlow = Start * Cardinality(Hubs)
    BY DEF Inventory!Init, Inventory!Cardinality, Inventory!IsFiniteSet, Cardinality, IsFiniteSet
  <2> QED BY <1>3, <2>1, StockNow DEF HubTotal
<1>5. StockTypeOK
  BY <1>1, IdleFits DEF Inventory!Init, StockTypeOK
<1>6. \A w \in Requests : KnowsRow(hubRequest[w], hubAvailable)
  BY IdleFits DEF Inventory!Init, KnowsRow
<1>7. Inventory!NotOverdrawn
  BY <1>1 DEF Inventory!Init, Inventory!NotOverdrawn
<1> QED BY <1>4, <1>5, <1>6, <1>7 DEF StockSound, Inventory!StockHolds, Inventory!StockAddsUp

LEMMA NextStock ==
    ASSUME StockSound, [Inventory!Next]_inventoryVars
    PROVE  StockSound'
<1>0. Amounts \subseteq Nat
  BY InventoryFits
<1>1. ASSUME NEW w \in Requests,
             \/ Inventory!Adjust(w) \/ Inventory!Transfer(w)
             \/ Inventory!AdjustInventory(w) \/ Inventory!TakeStock(w)
      PROVE  StockSound'
  BY <1>1, AdjustStep, TransferStep, AdjustInventoryStep, TakeStockStep
<1>2. ASSUME NEW w \in Requests, NEW q \in Amounts, NEW r \in Amounts \cup {None},
             Inventory!AdjustInventoryRead(w, q, r)
      PROVE  StockSound'
  BY <1>2, AdjustInventoryReadStep
<1>3. ASSUME NEW w \in Requests, NEW h \in Hubs, NEW q \in Amounts,
             Inventory!AdjustRead(w, h, q) \/ Inventory!AdjustRead(w, h, -q)
      PROVE  StockSound'
  <2>1. q \in Int /\ -q \in Int
    BY <1>0
  <2> QED BY <1>3, <2>1, AdjustReadStep
<1>4. ASSUME NEW w \in Requests, NEW h \in Hubs, NEW q \in Amounts, NEW to \in Hubs,
             Inventory!TakeStockRead(w, h, q) \/ Inventory!TransferRead(w, h, to, q)
      PROVE  StockSound'
  BY <1>4, TakeStockReadStep, TransferReadStep
<1>5. ASSUME NEW h \in Hubs, NEW q \in Amounts,
             \/ Inventory!Receive(h, q) \/ Inventory!ReturnStock(h, q)
             \/ Inventory!ConsumeReservedStock(h, q)
      PROVE  StockSound'
  BY <1>5, FlowStep
<1>6. ASSUME NEW h \in Hubs, NEW q \in Amounts, NEW r \in Amounts \cup {None},
             \/ Inventory!Update(h, q) \/ Inventory!UpdateStock(h, q)
             \/ Inventory!AddInventory(h, q) \/ Inventory!UpdateInventory(h, q, r)
      PROVE  StockSound'
  <2>1. Inventory!SetStock(h, q, None) \/ Inventory!SetStock(h, q, r)
    BY <1>6 DEF Inventory!Update, Inventory!UpdateStock, Inventory!AddInventory,
       Inventory!UpdateInventory
  <2>2. None \in Amounts \cup {None}
    OBVIOUS
  <2> QED BY <2>1, <2>2, SetStockStep
<1>7. CASE UNCHANGED inventoryVars
  <2>1. Inventory!Stock' = Inventory!Stock
    BY <1>7, StockNow, StockNext DEF inventoryVars
  <2> QED BY <1>7, <2>1 DEF inventoryVars, StockSound, StockTypeOK, Inventory!StockHolds,
             Inventory!StockAddsUp, Inventory!NotOverdrawn
<1> QED BY <1>1, <1>2, <1>3, <1>4, <1>5, <1>6, <1>7 DEF Inventory!Next

(* Whoever writes a hub's row, in whatever order: the stock of all hubs is    *)
(* what was reported, unless a number computed from a stale read was written  *)
(* (adjust, adjustInventory), and no hub owes stock, unless its row changed   *)
(* after the check of the transfer or placement that took from it.            *)
THEOREM StockIsConserved == PartsSpec => []StockHolds
<1>1. PartsInit => StockSound
  BY InitStock DEF PartsInit
<1>2. StockSound /\ [PartsNext]_<<part, vars, inventoryVars>> => StockSound'
  BY NextStock DEF PartsNext
<1>3. StockSound => StockHolds
  BY DEF StockSound, StockHolds
<1> QED BY <1>1, <1>2, <1>3, PTL DEF PartsSpec
=============================================================================
