------------------------ MODULE DeliverySlotsProofs ------------------------
(***************************************************************************)
(* Proofs about DeliverySlots, for every number of requests, slots,        *)
(* customers, orders and reservations.  Rows are written by id, long after *)
(* they were read: what makes the counters hold is that every such write   *)
(* over a changed row is one of slips, and what a request still owes to a  *)
(* counter can be read off its frame.                                      *)
(***************************************************************************)
EXTENDS DeliverySlots, FiniteSetTheorems, SequenceTheorems, TLAPS

-----------------------------------------------------------------------------
(* The inductive invariant. *)

\* Which statements a request comes to in the course of its operation.
OnCourse(f) ==
    \/ f.op = "none" /\ f.pc = "idle"
    \/ /\ f.op = "hold"
       /\ f.pc \in {"mark", "decrement", "clamp", "find", "extend", "take", "create"}
    \/ f.op \in {"place", "accept"} /\ f.pc \in {"find", "commit"}
    \/ f.op = "cancel" /\ f.pc \in {"findPlace", "mark", "decrement", "clamp"}
    \/ f.op \in {"propose", "decline"} /\ f.pc = "write"

\* What a frame says of the rows R, with n writes over changed rows in each slot
\* and the history h of the orders.
Fits(f, R, n, h) ==
    /\ OnCourse(f)
    /\ f.marked \subseteq DOMAIN R
    /\ f.pick # 0 => f.pick \in DOMAIN R \ f.marked /\ R[f.pick].slot = f.slot
    /\ f.op \in {"hold", "place", "accept"} => f.slot \in Slots /\ f.customer \in Customers
    /\ f.op \in {"place", "accept", "cancel", "propose", "decline"} => f.order \in Orders
    /\ f.pc = "clamp" => f.counter \in Slots
    /\ f.pc = "extend" => f.pick # 0
    /\ f.op = "cancel" =>
          /\ f.pick = 0
          /\ h[f.order] # {}
          /\ \A i \in f.marked : R[i].order = f.order \/ n[R[i].slot] > 0

FramesFit == \A w \in Requests : Fits(request[w], rows, slips, past)

\* A hold belongs to no order yet.
HoldsAreFree == \A i \in DOMAIN rows : rows[i].status = "PENDING" => rows[i].order = None

FramesSound == TypeOK /\ FramesFit /\ HoldsAreFree

\* What a frame f still has to do for the counter of s: 0 stands for the row that
\* it has counted and has yet to create, the others are rows of R that it has
\* taken off the books and not yet off the counter.
Dues(f, R, s) ==
    {i \in 0..MaxRows :
        \/ i = 0 /\ f.pc = "create" /\ f.slot = s
        \/ i \in f.marked /\ f.pc \in {"decrement", "clamp"} /\ R[i].slot = s}

Debt(s) ==
    {c \in Requests \X (0..MaxRows) : c[2] \in Dues(request[c[1]], rows, s)}

Counted ==
    \A s \in Slots :
        /\ IsFiniteSet(Debt(s))
        /\ Cardinality(Held(s)) + Cardinality(Debt(s)) <= reservedCapacity[s] + slips[s]
        /\ reservedCapacity[s] <= Capacity[s]

\* An order in a slot is known to a row there, which is confirmed as long as
\* nobody has given the order up.
Scheduled ==
    \A o \in Orders : LET s == scheduledSlot[o]
                      IN  s # None /\ slips[s] = 0 =>
                              \E i \in DOMAIN rows :
                                  /\ rows[i].slot = s /\ rows[i].order = o
                                  /\ past[o] = {} => rows[i].status = "CONFIRMED"

\* A request that has yet to find the place of a cancelled order, or has found
\* it and has yet to give it back.
Returns(f, o) ==
    /\ f.op = "cancel" /\ f.order = o
    /\ \/ f.pc = "findPlace"
       \/ f.pc = "mark" /\ PlaceOf(o) \subseteq f.marked

Returning ==
    \A o \in Orders : orderStatus[o] = "CANCELLED" =>
        \/ PlaceOf(o) = {} \/ "kept" \in past[o]
        \/ \E w \in Requests : Returns(request[w], o)

Inv == FramesSound /\ Counted /\ Scheduled /\ Returning

-----------------------------------------------------------------------------
(* Finite sets. *)

(* Two sets that have nothing in common: the books of two requests.           *)
LEMMA Apart ==
    ASSUME NEW A, NEW B, IsFiniteSet(A), IsFiniteSet(B), A \cap B = {}
    PROVE  /\ IsFiniteSet(A \cup B)
           /\ Cardinality(A \cup B) = Cardinality(A) + Cardinality(B)
           /\ Cardinality(A) \in Nat /\ Cardinality(B) \in Nat
<1>1. /\ IsFiniteSet(A \cup B)
      /\ Cardinality(A \cup B) = Cardinality(A) + Cardinality(B) - Cardinality(A \cap B)
  BY FS_Union
<1>2. Cardinality(A \cap B) = 0
  BY FS_EmptySet
<1> QED BY <1>1, <1>2, FS_CardinalityType

(* Rows that leave the books of a slot (In) and rows that are there afterwards *)
(* (A): what they are more than the rows that were there before (H) is        *)
(* accounted for by X.                                                        *)
LEMMA Exchange ==
    ASSUME NEW A, NEW In0, NEW H, NEW X, IsFiniteSet(H), IsFiniteSet(X),
           A \cap In0 = {}, A \cup In0 \subseteq H \cup X
    PROVE  /\ IsFiniteSet(A) /\ IsFiniteSet(In0)
           /\ Cardinality(A) \in Nat /\ Cardinality(In0) \in Nat
           /\ Cardinality(H) \in Nat /\ Cardinality(X) \in Nat
           /\ Cardinality(A) + Cardinality(In0) <= Cardinality(H) + Cardinality(X)
<1>1. /\ IsFiniteSet(H \cup X)
      /\ Cardinality(H \cup X) = Cardinality(H) + Cardinality(X) - Cardinality(H \cap X)
  BY FS_Union
<1>2. /\ IsFiniteSet(A) /\ IsFiniteSet(In0)
      /\ Cardinality(A \cup In0) <= Cardinality(H \cup X)
  <2>1. A \in SUBSET (H \cup X) /\ In0 \in SUBSET (H \cup X)
        /\ A \cup In0 \in SUBSET (H \cup X)
    OBVIOUS
  <2> QED BY <1>1, <2>1, FS_Subset
<1>3. Cardinality(A \cup In0) = Cardinality(A) + Cardinality(In0)
  BY <1>2, Apart
<1>4. IsFiniteSet(H \cap X)
  <2>1. H \cap X \in SUBSET H
    OBVIOUS
  <2> QED BY <2>1, FS_Subset
<1> QED BY <1>1, <1>2, <1>3, <1>4, FS_CardinalityType

(* A set of rows is finite.                                                   *)
LEMMA RowsFinite ==
    ASSUME NEW A, A \subseteq 0..MaxRows
    PROVE  IsFiniteSet(A) /\ Cardinality(A) \in Nat
<1>1. IsFiniteSet(0..MaxRows)
  BY FS_Interval, SlotsAssumption
<1> QED BY <1>1, FS_Subset, FS_CardinalityType

-----------------------------------------------------------------------------
(* What a request owes. *)

\* The rows R stay in their slots in R2.
SlotsKept(R, R2) == \A i \in DOMAIN R : i \in DOMAIN R2 /\ R2[i].slot = R[i].slot

(* When a request goes on to the frame g, the debt changes by what g owes.    *)
LEMMA DebtMoves ==
    ASSUME NEW w \in Requests, NEW g, NEW s, Goto(w, g), request \in [Requests -> Frame],
           \A v \in Requests : request[v].marked \subseteq DOMAIN rows,
           SlotsKept(rows, rows'), IsFiniteSet(Debt(s))
    PROVE  /\ IsFiniteSet(Debt(s)')
           /\ Cardinality(Debt(s)') \in Nat /\ Cardinality(Debt(s)) \in Nat
           /\ Cardinality(Dues(request[w], rows, s)) \in Nat
           /\ Cardinality(Dues(g, rows', s)) \in Nat
           /\ Cardinality(Debt(s)') + Cardinality(Dues(request[w], rows, s))
                 = Cardinality(Debt(s)) + Cardinality(Dues(g, rows', s))
<1> SUFFICES ASSUME NEW D, D = Debt(s), NEW E, E = Debt(s)',
                    NEW old, old = Dues(request[w], rows, s),
                    NEW new, new = Dues(g, rows', s)
             PROVE  /\ IsFiniteSet(E)
                    /\ Cardinality(E) \in Nat /\ Cardinality(D) \in Nat
                    /\ Cardinality(old) \in Nat /\ Cardinality(new) \in Nat
                    /\ Cardinality(E) + Cardinality(old) = Cardinality(D) + Cardinality(new)
  OBVIOUS
<1> DEFINE rest == {c \in D : c[1] # w}
<1>1. old \subseteq 0..MaxRows /\ new \subseteq 0..MaxRows
  BY DEF Dues
<1>2. request' = [request EXCEPT ![w] = g]
  BY DEF Goto
<1>3. \A c \in D : c \in Requests \X (0..MaxRows)
  BY DEF Debt
<1>4. D = rest \cup ({w} \X old)
  BY <1>1 DEF Debt
<1>5. E = rest \cup ({w} \X new)
  <2>1. \A c \in Requests \X (0..MaxRows) :
           c[1] # w => (c[2] \in Dues(request[c[1]], rows, s)
                           <=> c[2] \in Dues(request'[c[1]], rows', s))
    BY <1>2 DEF Dues, SlotsKept
  <2>2. request'[w] = g
    BY <1>2
  <2>3. E = {c \in Requests \X (0..MaxRows) : c[2] \in Dues(request'[c[1]], rows', s)}
    BY DEF Debt, Dues
  <2> QED BY <1>1, <1>3, <2>1, <2>2, <2>3 DEF Debt
<1>6. IsFiniteSet(old) /\ IsFiniteSet(new) /\ Cardinality(old) \in Nat /\ Cardinality(new) \in Nat
  BY <1>1, RowsFinite
<1>7. /\ IsFiniteSet({w} \X old) /\ Cardinality({w} \X old) = Cardinality(old)
      /\ IsFiniteSet({w} \X new) /\ Cardinality({w} \X new) = Cardinality(new)
  <2>1. IsFiniteSet({w}) /\ Cardinality({w}) = 1
    BY FS_Singleton
  <2>2. /\ IsFiniteSet({w} \X old) /\ Cardinality({w} \X old) = 1 * Cardinality(old)
    BY <1>6, <2>1, FS_Product
  <2>3. /\ IsFiniteSet({w} \X new) /\ Cardinality({w} \X new) = 1 * Cardinality(new)
    BY <1>6, <2>1, FS_Product
  <2> QED BY <1>6, <2>2, <2>3
<1>8. rest \in SUBSET D /\ rest \cap ({w} \X old) = {} /\ rest \cap ({w} \X new) = {}
  OBVIOUS
<1>9. IsFiniteSet(rest)
  BY <1>8, FS_Subset
<1>10. Cardinality(D) = Cardinality(rest) + Cardinality(old) /\ Cardinality(rest) \in Nat
  <2> HIDE DEF rest
  <2> QED BY <1>4, <1>7, <1>8, <1>9, Apart
<1>11. IsFiniteSet(E) /\ Cardinality(E) = Cardinality(rest) + Cardinality(new)
  <2> HIDE DEF rest
  <2> QED BY <1>5, <1>7, <1>8, <1>9, Apart
<1> HIDE DEF rest
<1> QED BY <1>6, <1>10, <1>11

(* When no request moves, the debt stays.                                     *)
LEMMA DebtStays ==
    ASSUME NEW s, request' = request, SlotsKept(rows, rows'),
           \A v \in Requests : request[v].marked \subseteq DOMAIN rows
    PROVE  Debt(s)' = Debt(s)
<1>1. \A c \in Requests \X (0..MaxRows) :
         c[2] \in Dues(request[c[1]], rows, s) <=> c[2] \in Dues(request[c[1]], rows', s)
  BY DEF Dues, SlotsKept
<1>2. Debt(s)' = {c \in Requests \X (0..MaxRows) : c[2] \in Dues(request[c[1]], rows', s)}
  BY DEF Debt, Dues
<1> QED BY <1>1, <1>2 DEF Debt

-----------------------------------------------------------------------------
(* The tables, and what a step does to the rows. *)

TablesTyped ==
    /\ reservedCapacity \in [Slots -> Int]
    /\ rows \in Seq(Reservation) /\ Len(rows) <= MaxRows
    /\ orderStatus \in [Orders -> Statuses]
    /\ scheduledSlot \in [Orders -> Slots \cup {None}]
    /\ proposedSlot \in [Orders -> Slots \cup {None}]
    /\ lockedBy \in [Slots -> Requests \cup {None}]
    /\ slips \in [Slots -> Nat]
    /\ past \in [Orders -> SUBSET {"cancelled", "kept"}]

\* How the rows R become R2, with n and n2 writes over changed rows and the
\* histories h and h2 of the orders: a row stays in its slot; it changes its
\* order, or stops being confirmed, over such a write or an order given up.
Follows(R, n, h, R2, n2, h2) ==
    /\ \A i \in DOMAIN R :
          /\ i \in DOMAIN R2 /\ R2[i].slot = R[i].slot
          /\ R2[i].order = R[i].order \/ R[i].order = None \/ n2[R[i].slot] > 0
          /\ R[i].status = "CONFIRMED" =>
                \/ R2[i].status = "CONFIRMED" \/ n2[R[i].slot] > 0
                \/ R[i].order \in Orders /\ h2[R[i].order] # {}
    /\ \A i \in DOMAIN R2 : R2[i].status = "PENDING" => R2[i].order = None
    /\ \A s \in Slots : n[s] <= n2[s]
    /\ \A o \in Orders : h[o] \subseteq h2[o]

RowsFollow == Follows(rows, slips, past, rows', slips', past')

(* The rows are a function on the first numbers, at most MaxRows.             *)
LEMMA RowsAreRows ==
    ASSUME TypeOK
    PROVE  /\ DOMAIN rows = 1..Len(rows) /\ Len(rows) \in Nat
           /\ DOMAIN rows \subseteq 1..MaxRows
           /\ \A i \in DOMAIN rows : rows[i] \in Reservation
  BY SlotsAssumption, LenProperties, ElementOfSeq DEF TypeOK

(* Marking rows (expireStaleReservations, releaseOrderReservation) changes    *)
(* their status and nothing else.                                             *)
LEMMA MarkedAre ==
    ASSUME TypeOK, NEW M,
           NEW st \in {"PENDING", "CONFIRMED", "RELEASED", "EXPIRED"},
           NEW R, R = MarkedRows(M, st)
    PROVE  /\ R \in Seq(Reservation) /\ Len(R) = Len(rows) /\ DOMAIN R = DOMAIN rows
           /\ \A i \in DOMAIN rows :
                 /\ R[i].slot = rows[i].slot /\ R[i].order = rows[i].order
                 /\ R[i].status = IF i \in M THEN st ELSE rows[i].status
<1>1. /\ DOMAIN rows = 1..Len(rows) /\ Len(rows) \in Nat
      /\ \A i \in DOMAIN rows : rows[i] \in Reservation
  BY RowsAreRows
<1>2. \A i \in DOMAIN rows :
         R[i] = IF i \in M THEN [rows[i] EXCEPT !.status = st] ELSE rows[i]
  BY DEF MarkedRows
<1>3. ASSUME NEW i \in DOMAIN rows
      PROVE  R[i] \in Reservation
  <2>1. rows[i] \in Reservation
    BY <1>1
  <2>2. CASE i \in M
    <3>1. R[i] = [rows[i] EXCEPT !.status = st]
      BY <1>2, <2>2
    <3> QED BY <2>1, <3>1 DEF Reservation
  <2>3. CASE i \notin M
    BY <1>2, <2>1, <2>3
  <2> QED BY <2>2, <2>3
<1>4. DOMAIN R = 1..Len(rows)
  BY <1>1 DEF MarkedRows
<1>5. R \in [1..Len(rows) -> Reservation]
  BY <1>1, <1>3, <1>4 DEF MarkedRows
<1>6. \A i \in DOMAIN rows :
         /\ R[i].slot = rows[i].slot /\ R[i].order = rows[i].order
         /\ R[i].status = IF i \in M THEN st ELSE rows[i].status
  BY <1>1, <1>2 DEF Reservation
<1> QED BY <1>1, <1>4, <1>5, <1>6

(* A write over changed rows counts in their slots.                           *)
LEMMA SlipsGrow ==
    ASSUME TypeOK, NEW C, C \subseteq DOMAIN rows, NEW n, n = Slipped(C)
    PROVE  /\ n \in [Slots -> Nat]
           /\ \A s \in Slots : /\ n[s] = slips[s] + Cardinality(In(s, C))
                               /\ n[s] >= slips[s]
           /\ \A i \in C : n[rows[i].slot] > 0
<1>1. /\ DOMAIN rows \subseteq 1..MaxRows
      /\ \A i \in DOMAIN rows : rows[i].slot \in Slots
  BY RowsAreRows DEF Reservation
<1>2. \A s \in Slots : IsFiniteSet(In(s, C)) /\ Cardinality(In(s, C)) \in Nat
  <2> TAKE s \in Slots
  <2>1. In(s, C) \subseteq 0..MaxRows
    BY <1>1 DEF In
  <2> QED BY <2>1, RowsFinite
<1>3. ASSUME NEW i \in C
      PROVE  Cardinality(In(rows[i].slot, C)) > 0
  <2>1. i \in In(rows[i].slot, C) /\ rows[i].slot \in Slots
    BY <1>1, <1>3 DEF In
  <2> QED BY <1>2, <2>1, FS_EmptySet
<1> QED BY <1>1, <1>2, <1>3 DEF Slipped, TypeOK

(* Nothing is written.                                                        *)
LEMMA RowsStay ==
    ASSUME FramesSound, UNCHANGED <<rows, slips>>,
           \A o \in Orders : past[o] \subseteq past'[o]
    PROVE  RowsFollow
  BY DEF RowsFollow, Follows, FramesSound, HoldsAreFree, TypeOK

(* Of a row only the time at which it runs out is written.                    *)
LEMMA TimerRows ==
    ASSUME FramesSound, NEW i \in DOMAIN rows, NEW t \in {"running", "out", "null"},
           rows' = [rows EXCEPT ![i].timer = t], UNCHANGED <<slips, past>>
    PROVE  /\ rows' \in Seq(Reservation) /\ Len(rows') = Len(rows)
           /\ DOMAIN rows' = DOMAIN rows
           /\ \A j \in DOMAIN rows : /\ rows'[j].slot = rows[j].slot
                                     /\ rows'[j].order = rows[j].order
                                     /\ rows'[j].status = rows[j].status
           /\ RowsFollow
<1>1. /\ DOMAIN rows = 1..Len(rows) /\ Len(rows) \in Nat
      /\ rows[i] \in Reservation
  BY RowsAreRows DEF FramesSound
<1>2. [rows[i] EXCEPT !.timer = t] \in Reservation
  BY <1>1 DEF Reservation
<1>3. /\ rows' \in Seq(Reservation) /\ Len(rows') = Len(rows)
      /\ DOMAIN rows' = DOMAIN rows
      /\ \A j \in DOMAIN rows :
            rows'[j] = IF j = i THEN [rows[i] EXCEPT !.timer = t] ELSE rows[j]
  BY <1>1, <1>2, ExceptSeq DEF FramesSound, TypeOK
<1>4. \A j \in DOMAIN rows : /\ rows'[j].slot = rows[j].slot
                             /\ rows'[j].order = rows[j].order
                             /\ rows'[j].status = rows[j].status
  BY <1>1, <1>3 DEF Reservation
<1>5. RowsFollow
  BY <1>3, <1>4 DEF RowsFollow, Follows, FramesSound, HoldsAreFree, TypeOK
<1> QED BY <1>3, <1>4, <1>5

-----------------------------------------------------------------------------
(* The frames. *)

\* A lock that is there after a step of w is one of w, in a transaction with the
\* frame g, or was there before.
LocksFollow(w, g) ==
    \A s \in Slots :
        lockedBy'[s] # None =>
            IF lockedBy'[s] = w THEN InTransaction(g) ELSE lockedBy'[s] = lockedBy[s]

(* What a frame says of the rows goes on being true of them.                  *)
LEMMA FitsFollow ==
    ASSUME FramesSound, RowsFollow, NEW v \in Requests, past' \in [Orders -> SUBSET {"cancelled", "kept"}],
           slips' \in [Slots -> Nat]
    PROVE  Fits(request[v], rows', slips', past')
<1> SUFFICES ASSUME NEW f, f = request[v], NEW R, R = rows, NEW R2, R2 = rows'
             PROVE  Fits(f, R2, slips', past')
  OBVIOUS
<1>1. f \in Frame /\ Fits(f, R, slips, past)
  BY DEF FramesSound, FramesFit, TypeOK
<1>2. Follows(R, slips, past, R2, slips', past')
  BY DEF RowsFollow
<1>3. DOMAIN R \subseteq DOMAIN R2
  BY <1>2 DEF Follows
<1>4. \A i \in DOMAIN R : R2[i].slot = R[i].slot /\ R[i].slot \in Slots
  BY <1>2, RowsAreRows DEF Follows, FramesSound, Reservation
<1>5. /\ f.marked \subseteq DOMAIN R2
      /\ f.pick # 0 => f.pick \in DOMAIN R2 \ f.marked /\ R2[f.pick].slot = f.slot
  BY <1>1, <1>3, <1>4 DEF Fits
<1>6. ASSUME f.op = "cancel"
      PROVE  /\ past'[f.order] # {}
             /\ \A i \in f.marked : R2[i].order = f.order \/ slips'[R2[i].slot] > 0
  <2>1. /\ f.order \in Orders /\ f.marked \subseteq DOMAIN R /\ past[f.order] # {}
        /\ \A i \in f.marked : R[i].order = f.order \/ slips[R[i].slot] > 0
    BY <1>1, <1>6 DEF Fits
  <2>2. past'[f.order] # {}
    BY <1>2, <2>1 DEF Follows
  <2>3. ASSUME NEW i \in f.marked
        PROVE  R2[i].order = f.order \/ slips'[R2[i].slot] > 0
    <3>1. f.order # None
      BY <2>1, SlotsAssumption
    <3>2. i \in DOMAIN R /\ R2[i].slot = R[i].slot /\ R[i].slot \in Slots
      BY <2>1, <2>3, <1>4
    <3>3. slips[R[i].slot] <= slips'[R[i].slot] /\ slips[R[i].slot] \in Nat
          /\ slips'[R[i].slot] \in Nat
      BY <3>2, <1>2 DEF Follows, FramesSound, TypeOK
    <3>4. R2[i].order = R[i].order \/ R[i].order = None \/ slips'[R[i].slot] > 0
      BY <3>2, <1>2 DEF Follows
    <3> QED BY <2>1, <2>3, <3>1, <3>2, <3>3, <3>4
  <2> QED BY <2>2, <2>3
<1> QED BY <1>1, <1>5, <1>6 DEF Fits

(* A request goes on to the frame g.                                          *)
LEMMA MoveFits ==
    ASSUME FramesSound, NEW w \in Requests, NEW g \in Frame, Goto(w, g),
           TablesTyped', RowsFollow, LocksFollow(w, g), Fits(g, rows', slips', past')
    PROVE  FramesSound'
<1>1. request' = [request EXCEPT ![w] = g] /\ request \in [Requests -> Frame]
  BY DEF Goto, FramesSound, TypeOK
<1>2. request' \in [Requests -> Frame]
  BY <1>1
<1>3. \A s \in Slots : lockedBy'[s] # None => InTransaction(request'[lockedBy'[s]])
  <2> SUFFICES ASSUME NEW s \in Slots, lockedBy'[s] # None
               PROVE  InTransaction(request'[lockedBy'[s]])
    OBVIOUS
  <2>1. lockedBy'[s] \in Requests
    BY DEF TablesTyped
  <2>2. CASE lockedBy'[s] = w
    BY <1>1, <2>2 DEF LocksFollow
  <2>3. CASE lockedBy'[s] # w
    <3>1. lockedBy'[s] = lockedBy[s]
      BY <2>3 DEF LocksFollow
    <3>2. request'[lockedBy'[s]] = request[lockedBy[s]]
      BY <1>1, <2>1, <2>3, <3>1
    <3> QED BY <3>1, <3>2 DEF FramesSound, TypeOK
  <2> QED BY <2>2, <2>3
<1>4. TypeOK'
  BY <1>2, <1>3 DEF TypeOK, TablesTyped
<1>5. ASSUME NEW v \in Requests
      PROVE  Fits(request'[v], rows', slips', past')
  <2>1. CASE v = w
    BY <1>1, <2>1
  <2>2. CASE v # w
    <3>1. request'[v] = request[v]
      BY <1>1, <2>2
    <3>2. Fits(request[v], rows', slips', past')
      BY FitsFollow DEF TablesTyped
    <3> QED BY <3>1, <3>2
  <2> QED BY <2>1, <2>2
<1>6. HoldsAreFree'
  BY DEF RowsFollow, Follows, HoldsAreFree
<1>7. FramesFit'
  BY <1>5 DEF FramesFit, Fits, OnCourse
<1> QED BY <1>4, <1>6, <1>7 DEF FramesSound

(* No request moves.                                                          *)
LEMMA StayFits ==
    ASSUME FramesSound, TablesTyped', RowsFollow, UNCHANGED <<request, lockedBy>>
    PROVE  FramesSound'
<1>1. TypeOK'
  BY DEF TypeOK, TablesTyped, FramesSound, InTransaction
<1>2. HoldsAreFree'
  BY DEF RowsFollow, Follows, HoldsAreFree
<1>3. \A v \in Requests : Fits(request[v], rows', slips', past')
  BY FitsFollow DEF TablesTyped
<1>4. FramesFit'
  BY <1>3 DEF FramesFit, Fits, OnCourse
<1> QED BY <1>1, <1>2, <1>4 DEF FramesSound

-----------------------------------------------------------------------------
(* The other parts of the invariant, from what a step does. *)

(* The places in use are rows.                                                *)
LEMMA HeldFinite ==
    ASSUME TypeOK, NEW s
    PROVE  /\ Held(s) \subseteq 1..MaxRows
           /\ IsFiniteSet(Held(s)) /\ Cardinality(Held(s)) \in Nat
<1>1. Held(s) \subseteq 1..MaxRows
  BY RowsAreRows DEF Held
<1>2. Held(s) \subseteq 0..MaxRows
  BY <1>1
<1> QED BY <1>1, <1>2, RowsFinite

LEMMA HeldFiniteNext ==
    ASSUME TablesTyped', NEW s
    PROVE  IsFiniteSet(Held(s)') /\ Cardinality(Held(s)') \in Nat
<1>1. DOMAIN rows' = 1..Len(rows') /\ Len(rows') \in Nat /\ Len(rows') <= MaxRows
  BY LenProperties DEF TablesTyped
<1>2. Held(s)' \subseteq 0..MaxRows
  BY <1>1, SlotsAssumption DEF Held
<1> QED BY <1>2, RowsFinite

(* The places in use are the same when no row changes its slot or its status. *)
LEMMA HeldStays ==
    ASSUME DOMAIN rows' = DOMAIN rows, NEW s,
           \A i \in DOMAIN rows : rows'[i].slot = rows[i].slot /\ rows'[i].status = rows[i].status
    PROVE  Held(s)' = Held(s)
<1>1. Held(s)' = {i \in DOMAIN rows' : /\ rows'[i].slot = s
                                       /\ rows'[i].status \in {"PENDING", "CONFIRMED"}}
  BY DEF Held, Holds
<1>2. Held(s) = {i \in DOMAIN rows : /\ rows[i].slot = s
                                     /\ rows[i].status \in {"PENDING", "CONFIRMED"}}
  BY DEF Held, Holds
<1> QED BY <1>1, <1>2

(* What the counters are short of does not grow, if the places in use and the *)
(* dues of the request that moves do not outgrow the counter and the slips.   *)
LEMMA CountedMoves ==
    ASSUME FramesSound, Counted, NEW w \in Requests, NEW g, Goto(w, g), TablesTyped', RowsFollow,
           \A s \in Slots :
              /\ Cardinality(Held(s)') + Cardinality(Dues(g, rows', s))
                    + reservedCapacity[s] + slips[s]
                 <= Cardinality(Held(s)) + Cardinality(Dues(request[w], rows, s))
                    + reservedCapacity'[s] + slips'[s]
              /\ reservedCapacity'[s] <= Capacity[s]
    PROVE  Counted'
<1> SUFFICES ASSUME NEW s \in Slots
             PROVE  /\ IsFiniteSet(Debt(s)')
                    /\ Cardinality(Held(s)') + Cardinality(Debt(s)')
                          <= reservedCapacity'[s] + slips'[s]
                    /\ reservedCapacity'[s] <= Capacity[s]
  BY DEF Counted
<1>1. /\ request \in [Requests -> Frame] /\ SlotsKept(rows, rows')
      /\ \A v \in Requests : request[v].marked \subseteq DOMAIN rows
  BY DEF FramesSound, FramesFit, Fits, TypeOK, RowsFollow, Follows, SlotsKept
<1>2. /\ IsFiniteSet(Debt(s))
      /\ Cardinality(Held(s)) + Cardinality(Debt(s)) <= reservedCapacity[s] + slips[s]
  BY DEF Counted
<1>3. /\ IsFiniteSet(Debt(s)')
      /\ Cardinality(Debt(s)') \in Nat /\ Cardinality(Debt(s)) \in Nat
      /\ Cardinality(Dues(request[w], rows, s)) \in Nat
      /\ Cardinality(Dues(g, rows', s)) \in Nat
      /\ Cardinality(Debt(s)') + Cardinality(Dues(request[w], rows, s))
            = Cardinality(Debt(s)) + Cardinality(Dues(g, rows', s))
  BY <1>1, <1>2, DebtMoves
<1>4. Cardinality(Held(s)') \in Nat /\ Cardinality(Held(s)) \in Nat
  BY HeldFinite, HeldFiniteNext DEF FramesSound
<1>5. /\ reservedCapacity[s] \in Int /\ reservedCapacity'[s] \in Int
      /\ slips[s] \in Nat /\ slips'[s] \in Nat
  BY DEF FramesSound, TypeOK, TablesTyped
<1> SUFFICES ASSUME NEW h, h = Cardinality(Held(s)'), NEW h0, h0 = Cardinality(Held(s)),
                    NEW d, d = Cardinality(Debt(s)'), NEW d0, d0 = Cardinality(Debt(s)),
                    NEW u, u = Cardinality(Dues(g, rows', s)),
                    NEW u0, u0 = Cardinality(Dues(request[w], rows, s))
             PROVE  h + d <= reservedCapacity'[s] + slips'[s]
  BY <1>3
<1>6. h + u + reservedCapacity[s] + slips[s] <= h0 + u0 + reservedCapacity'[s] + slips'[s]
  OBVIOUS
<1> QED BY <1>2, <1>3, <1>4, <1>5, <1>6

(* The same when no request moves.                                            *)
LEMMA CountedStays ==
    ASSUME FramesSound, Counted, UNCHANGED request, TablesTyped', RowsFollow,
           \A s \in Slots :
              /\ Cardinality(Held(s)') + reservedCapacity[s] + slips[s]
                 <= Cardinality(Held(s)) + reservedCapacity'[s] + slips'[s]
              /\ reservedCapacity'[s] <= Capacity[s]
    PROVE  Counted'
<1> SUFFICES ASSUME NEW s \in Slots
             PROVE  /\ IsFiniteSet(Debt(s)')
                    /\ Cardinality(Held(s)') + Cardinality(Debt(s)')
                          <= reservedCapacity'[s] + slips'[s]
                    /\ reservedCapacity'[s] <= Capacity[s]
  BY DEF Counted
<1>1. /\ SlotsKept(rows, rows')
      /\ \A v \in Requests : request[v].marked \subseteq DOMAIN rows
  BY DEF FramesSound, FramesFit, Fits, RowsFollow, Follows, SlotsKept
<1>2. Debt(s)' = Debt(s)
  BY <1>1, DebtStays
<1>3. /\ IsFiniteSet(Debt(s)) /\ Cardinality(Debt(s)) \in Nat
      /\ Cardinality(Held(s)) + Cardinality(Debt(s)) <= reservedCapacity[s] + slips[s]
  BY FS_CardinalityType DEF Counted
<1>4. Cardinality(Held(s)') \in Nat /\ Cardinality(Held(s)) \in Nat
  BY HeldFinite, HeldFiniteNext DEF FramesSound
<1>5. /\ reservedCapacity[s] \in Int /\ reservedCapacity'[s] \in Int
      /\ slips[s] \in Nat /\ slips'[s] \in Nat
  BY DEF FramesSound, TypeOK, TablesTyped
<1> SUFFICES ASSUME NEW h, h = Cardinality(Held(s)'), NEW h0, h0 = Cardinality(Held(s)),
                    NEW d, d = Cardinality(Debt(s))
             PROVE  h + d <= reservedCapacity'[s] + slips'[s]
  BY <1>2, <1>3
<1>6. h + reservedCapacity[s] + slips[s] <= h0 + reservedCapacity'[s] + slips'[s]
  OBVIOUS
<1> QED BY <1>3, <1>4, <1>5, <1>6

(* An order keeps a row in its slot.                                          *)
LEMMA ScheduledFollows ==
    ASSUME FramesSound, Scheduled, TablesTyped', RowsFollow,
           \A o \in Orders :
              \/ scheduledSlot'[o] = scheduledSlot[o]
              \/ \E i \in DOMAIN rows' : /\ rows'[i].slot = scheduledSlot'[o]
                                          /\ rows'[i].order = o
                                          /\ rows'[i].status = "CONFIRMED"
    PROVE  Scheduled'
<1> SUFFICES ASSUME NEW o \in Orders, NEW s, s = scheduledSlot'[o], s # None, slips'[s] = 0
             PROVE  \E i \in DOMAIN rows' : /\ rows'[i].slot = s /\ rows'[i].order = o
                                            /\ past'[o] = {} => rows'[i].status = "CONFIRMED"
  BY DEF Scheduled
<1>1. CASE scheduledSlot'[o] = scheduledSlot[o]
  <2>1. s = scheduledSlot[o] /\ s \in Slots /\ o # None
    BY <1>1, SlotsAssumption DEF TablesTyped
  <2>2. slips[s] = 0 /\ past[o] \subseteq past'[o]
    BY <2>1 DEF RowsFollow, Follows, FramesSound, TypeOK
  <2>3. PICK i \in DOMAIN rows : /\ rows[i].slot = s /\ rows[i].order = o
                                 /\ past[o] = {} => rows[i].status = "CONFIRMED"
    BY <2>1, <2>2 DEF Scheduled
  <2>4. i \in DOMAIN rows' /\ rows'[i].slot = s /\ rows'[i].order = o
    BY <2>1, <2>3 DEF RowsFollow, Follows
  <2>5. rows[i].status = "CONFIRMED" => rows'[i].status = "CONFIRMED" \/ past'[o] # {}
    BY <2>1, <2>3 DEF RowsFollow, Follows
  <2> QED BY <2>2, <2>3, <2>4, <2>5
<1>2. CASE scheduledSlot'[o] # scheduledSlot[o]
  BY <1>2
<1> QED BY <1>1, <1>2

(* The place of a cancelled order goes on being returned by whoever returns   *)
(* it, when another request moves.                                            *)
LEMMA ReturningMoves ==
    ASSUME FramesSound, Returning, NEW w \in Requests, NEW g, Goto(w, g), RowsFollow,
           \A o \in Orders : orderStatus'[o] = "CANCELLED" =>
              \/ PlaceOf(o)' = {} \/ "kept" \in past'[o] \/ Returns(g, o)'
              \/ /\ orderStatus[o] = "CANCELLED" /\ PlaceOf(o)' \subseteq PlaceOf(o)
                 /\ ~Returns(request[w], o)
    PROVE  Returning'
<1>1. request' = [request EXCEPT ![w] = g] /\ request \in [Requests -> Frame]
  BY DEF Goto, FramesSound, TypeOK
<1> SUFFICES ASSUME NEW o \in Orders, orderStatus'[o] = "CANCELLED", PlaceOf(o)' # {},
                    "kept" \notin past'[o]
             PROVE  \E v \in Requests : Returns(request[v], o)'
  BY DEF Returning
<1>2. CASE Returns(g, o)'
  <2>1. request'[w] = g
    BY <1>1
  <2>2. Returns(request[w], o)'
    BY <1>2, <2>1 DEF Returns
  <2> QED BY <2>2
<1>3. CASE /\ orderStatus[o] = "CANCELLED" /\ PlaceOf(o)' \subseteq PlaceOf(o)
           /\ ~Returns(request[w], o)
  <2>1. "kept" \notin past[o] /\ PlaceOf(o) # {}
    BY <1>3 DEF RowsFollow, Follows
  <2>2. PICK v \in Requests : Returns(request[v], o)
    BY <1>3, <2>1 DEF Returning
  <2>3. v # w
    BY <1>3, <2>2
  <2>4. request'[v] = request[v]
    BY <1>1, <2>3
  <2>5. Returns(request[v], o)'
    BY <1>3, <2>2, <2>4 DEF Returns
  <2> QED BY <2>5
<1> QED BY <1>2, <1>3

(* The same when no request moves.                                            *)
LEMMA ReturningStays ==
    ASSUME FramesSound, Returning, UNCHANGED request, RowsFollow,
           \A o \in Orders : orderStatus'[o] = "CANCELLED" =>
              \/ PlaceOf(o)' = {} \/ "kept" \in past'[o]
              \/ (orderStatus[o] = "CANCELLED" /\ PlaceOf(o)' \subseteq PlaceOf(o))
    PROVE  Returning'
<1> SUFFICES ASSUME NEW o \in Orders, orderStatus'[o] = "CANCELLED", PlaceOf(o)' # {},
                    "kept" \notin past'[o]
             PROVE  \E v \in Requests : Returns(request[v], o)'
  BY DEF Returning
<1>1. orderStatus[o] = "CANCELLED" /\ PlaceOf(o)' \subseteq PlaceOf(o)
  OBVIOUS
<1>2. "kept" \notin past[o] /\ PlaceOf(o) # {}
  BY <1>1 DEF RowsFollow, Follows
<1>3. PICK v \in Requests : Returns(request[v], o)
  BY <1>1, <1>2 DEF Returning
<1>4. Returns(request[v], o)'
  BY <1>1, <1>3 DEF Returns
<1> QED BY <1>4

-----------------------------------------------------------------------------
(* Steps that write no row. *)

(* A request that writes no lock keeps those it has, and has none outside of a *)
(* transaction.                                                               *)
LEMMA LocksKept ==
    ASSUME TypeOK, NEW w \in Requests, NEW g, UNCHANGED lockedBy,
           InTransaction(request[w]) => InTransaction(g)
    PROVE  /\ lockedBy' \in [Slots -> Requests \cup {None}]
           /\ LocksFollow(w, g)
<1>1. w # None
  BY SlotsAssumption
<1> QED BY <1>1 DEF LocksFollow, TypeOK

(* The end of a transaction releases its locks.                               *)
LEMMA LocksReleased ==
    ASSUME TypeOK, NEW w \in Requests, NEW g, lockedBy' = Unlocked(w)
    PROVE  /\ lockedBy' \in [Slots -> Requests \cup {None}]
           /\ LocksFollow(w, g)
<1>1. w # None
  BY SlotsAssumption
<1>2. \A s \in Slots : lockedBy'[s] = IF lockedBy[s] = w THEN None ELSE lockedBy[s]
  BY DEF Unlocked
<1> QED BY <1>1, <1>2 DEF LocksFollow, TypeOK, Unlocked

(* A step that writes at most counters: the request pays its dues as it       *)
(* lowers the counter, and raises it before it owes a row.                    *)
LEMMA FrameStep ==
    ASSUME Inv, NEW w \in Requests, NEW g \in Frame, Goto(w, g),
           UNCHANGED <<rows, slips, scheduledSlot>>, TablesTyped',
           \A o \in Orders : past[o] \subseteq past'[o],
           LocksFollow(w, g), Fits(g, rows, slips, past'),
           \A s \in Slots :
              /\ Cardinality(Dues(g, rows, s)) + reservedCapacity[s]
                    <= Cardinality(Dues(request[w], rows, s)) + reservedCapacity'[s]
              /\ reservedCapacity'[s] <= Capacity[s],
           \A o \in Orders : orderStatus'[o] = "CANCELLED" =>
              \/ "kept" \in past'[o] \/ PlaceOf(o) = {} \/ Returns(g, o)
              \/ (orderStatus[o] = "CANCELLED" /\ ~Returns(request[w], o))
    PROVE  Inv'
<1>1. RowsFollow
  BY RowsStay DEF Inv
<1>2. FramesSound'
  BY <1>1, MoveFits DEF Inv
<1>3. \A s \in Slots : Held(s)' = Held(s)
  BY DEF Held, Holds
<1>4. \A s \in Slots :
         /\ Cardinality(Held(s)) \in Nat /\ slips[s] \in Nat
         /\ reservedCapacity[s] \in Int /\ reservedCapacity'[s] \in Int
         /\ Cardinality(Dues(g, rows, s)) \in Nat
         /\ Cardinality(Dues(request[w], rows, s)) \in Nat
  <2>1. \A s \in Slots : /\ Dues(g, rows, s) \subseteq 0..MaxRows
                         /\ Dues(request[w], rows, s) \subseteq 0..MaxRows
    BY DEF Dues
  <2> QED BY <2>1, RowsFinite, HeldFinite DEF Inv, FramesSound, TypeOK, TablesTyped
<1>5. Counted'
  <2>1. \A s \in Slots :
           Cardinality(Held(s)') + Cardinality(Dues(g, rows', s)) + reservedCapacity[s] + slips[s]
             <= Cardinality(Held(s)) + Cardinality(Dues(request[w], rows, s))
                  + reservedCapacity'[s] + slips'[s]
    BY <1>3, <1>4
  <2> QED BY <1>1, <2>1, CountedMoves DEF Inv
<1>6. Scheduled'
  BY <1>1, ScheduledFollows DEF Inv
<1>7. \A o \in Orders : PlaceOf(o)' = PlaceOf(o) /\ (Returns(g, o) <=> Returns(g, o)')
  BY DEF PlaceOf, Holds, Returns
<1>8. Returning'
  BY <1>1, <1>7, ReturningMoves DEF Inv
<1> QED BY <1>2, <1>5, <1>6, <1>8 DEF Inv

(* A step that writes neither rows nor counters.                              *)
LEMMA QuietStep ==
    ASSUME Inv, NEW w \in Requests, NEW g \in Frame, Goto(w, g),
           UNCHANGED <<slotVars, scheduledSlot>>,
           orderStatus' \in [Orders -> Statuses],
           proposedSlot' \in [Orders -> Slots \cup {None}],
           lockedBy' \in [Slots -> Requests \cup {None}],
           past' \in [Orders -> SUBSET {"cancelled", "kept"}],
           \A o \in Orders : past[o] \subseteq past'[o],
           LocksFollow(w, g), Fits(g, rows, slips, past'),
           \A s \in Slots : Dues(g, rows, s) \subseteq Dues(request[w], rows, s),
           \A o \in Orders : orderStatus'[o] = "CANCELLED" =>
              \/ "kept" \in past'[o] \/ PlaceOf(o) = {} \/ Returns(g, o)
              \/ (orderStatus[o] = "CANCELLED" /\ ~Returns(request[w], o))
    PROVE  Inv'
<1>1. TablesTyped' /\ UNCHANGED <<rows, slips, scheduledSlot, reservedCapacity>>
  BY DEF Inv, FramesSound, TypeOK, TablesTyped, slotVars
<1>2. \A s \in Slots :
         /\ Cardinality(Dues(g, rows, s)) + reservedCapacity[s]
               <= Cardinality(Dues(request[w], rows, s)) + reservedCapacity'[s]
         /\ reservedCapacity'[s] <= Capacity[s]
  <2> TAKE s \in Slots
  <2>1. Dues(request[w], rows, s) \subseteq 0..MaxRows /\ Dues(g, rows, s) \subseteq 0..MaxRows
    BY DEF Dues
  <2>2. /\ IsFiniteSet(Dues(request[w], rows, s))
        /\ Cardinality(Dues(request[w], rows, s)) \in Nat
        /\ Cardinality(Dues(g, rows, s)) \in Nat
    BY <2>1, RowsFinite
  <2>3. Cardinality(Dues(g, rows, s)) <= Cardinality(Dues(request[w], rows, s))
    <3>1. Dues(g, rows, s) \in SUBSET Dues(request[w], rows, s)
      OBVIOUS
    <3> QED BY <2>2, <3>1, FS_Subset
  <2>4. reservedCapacity[s] \in Int /\ reservedCapacity[s] <= Capacity[s]
    BY DEF Inv, FramesSound, TypeOK, Counted
  <2> QED BY <1>1, <2>2, <2>3, <2>4
<1> QED BY <1>1, <1>2, FrameStep

(* A frame that is at none of the statements with dues has none.              *)
LEMMA NoDues ==
    ASSUME NEW g, NEW R, NEW s,
           \/ g.pc \notin {"create", "decrement", "clamp"}
           \/ g.pc \in {"decrement", "clamp"} /\ g.marked = {}
    PROVE  Dues(g, R, s) = {}
  BY DEF Dues

(* The rows that have run out, and those of an order.                         *)
LEMMA FoundRows ==
    ASSUME TypeOK
    PROVE  /\ Stale \subseteq DOMAIN rows /\ Stale \in SUBSET (1..MaxRows)
           /\ \A o : PlaceOf(o) \subseteq DOMAIN rows /\ PlaceOf(o) \in SUBSET (1..MaxRows)
           /\ \A f, st : \A i \in Own(f, st) :
                 i \in DOMAIN rows \ f.marked /\ i \in 1..MaxRows /\ rows[i].slot = f.slot
<1>1. DOMAIN rows \subseteq 1..MaxRows
  BY RowsAreRows
<1> QED BY <1>1 DEF Stale, PlaceOf, Own, Reserved, Held

(* What the invariant says of the request that moves.                         *)
LEMMA FrameFacts ==
    ASSUME Inv, NEW w \in Requests, NEW f, f = request[w]
    PROVE  f \in Frame /\ Fits(f, rows, slips, past)
  BY DEF Inv, FramesSound, FramesFit, TypeOK

-----------------------------------------------------------------------------
(* One lemma for each action of a request that writes no row. *)

(* The first statement of an operation is the expiry: outside of a            *)
(* transaction it only reads, in one it locks the slots.                      *)
LEMMA ExpireStep ==
    ASSUME Inv, NEW w \in Requests, NEW f \in Frame, At(w, "idle"), Expire(w, f),
           f.op \in {"hold", "place", "accept"}, f.slot \in Slots, f.customer \in Customers,
           f.op # "hold" => f.order \in Orders, f.pick = 0,
           UNCHANGED <<slotVars, orderVars, past>>
    PROVE  Inv'
<1>1. request[w].op = "none" /\ TypeOK
  BY FrameFacts DEF Fits, OnCourse, At, Inv, FramesSound
<1>2. Stale \subseteq DOMAIN rows /\ Stale \in SUBSET (1..MaxRows)
  BY <1>1, FoundRows
<1>3. PICK pc \in {"mark", "find"} :
         /\ InTransaction(f) => pc = "find"
         /\ Goto(w, [f EXCEPT !.pc = pc, !.marked = Stale])
         /\ InTransaction(f) =>
               lockedBy' = [s \in Slots |-> IF s \in SlotsOf(Stale) THEN w ELSE lockedBy[s]]
         /\ ~InTransaction(f) => UNCHANGED lockedBy
  BY DEF Expire
<1> DEFINE g == [f EXCEPT !.pc = pc, !.marked = Stale]
<1>4. /\ g \in Frame /\ g.op = f.op /\ g.pc = pc /\ g.marked = Stale /\ g.pick = 0
      /\ g.slot = f.slot /\ g.order = f.order /\ g.customer = f.customer
  BY <1>2, <1>3 DEF Frame
<1> HIDE DEF g
<1>5. Fits(g, rows, slips, past')
  BY <1>2, <1>3, <1>4 DEF Fits, OnCourse, InTransaction
<1>6. LocksFollow(w, g) /\ lockedBy' \in [Slots -> Requests \cup {None}]
  <2>1. CASE InTransaction(f)
    <3>1. InTransaction(g)
      BY <2>1, <1>4 DEF InTransaction
    <3>2. \A s \in Slots : lockedBy'[s] = w \/ lockedBy'[s] = lockedBy[s]
      BY <2>1, <1>3
    <3>3. lockedBy' \in [Slots -> Requests \cup {None}]
      BY <2>1, <1>1, <1>3 DEF TypeOK
    <3> QED BY <3>1, <3>2, <3>3 DEF LocksFollow
  <2>2. CASE ~InTransaction(f)
    <3>1. UNCHANGED lockedBy /\ ~InTransaction(request[w])
      BY <2>2, <1>1, <1>3 DEF InTransaction
    <3> QED BY <3>1, <1>1, LocksKept
  <2> QED BY <2>1, <2>2
<1>7. \A s \in Slots : Dues(g, rows, s) \subseteq Dues(request[w], rows, s)
  BY <1>3, <1>4, NoDues
<1>8. \A o : ~Returns(request[w], o)
  BY <1>1 DEF Returns
<1>9. Goto(w, g)
  BY <1>3 DEF g
<1> QED BY <1>1, <1>4, <1>5, <1>6, <1>7, <1>8, <1>9, QuietStep DEF TypeOK, orderVars

(* The frame of a request that is done.                                       *)
LEMMA IdleFits ==
    ASSUME NEW R, NEW n, NEW h
    PROVE  /\ Idle \in Frame /\ Fits(Idle, R, n, h)
           /\ \A s : Dues(Idle, R, s) = {}
<1>1. /\ Idle.op = "none" /\ Idle.pc = "idle" /\ Idle.marked = {} /\ Idle.pick = 0
  BY DEF Idle
<1>2. \A s : Dues(Idle, R, s) = {}
  BY <1>1, NoDues
<1>3. Idle \in Frame
  BY SlotsAssumption DEF Idle, Frame, Operations
<1> QED BY <1>1, <1>2, <1>3 DEF Fits, OnCourse

LEMMA HoldSlotStep ==
    ASSUME Inv, NEW w \in Requests, NEW c \in Customers, NEW s \in HoldSlots, HoldSlot(w, c, s)
    PROVE  Inv'
<1> DEFINE f == [Idle EXCEPT !.op = "hold", !.customer = c, !.slot = s]
<1>1. c \in Customers /\ s \in Slots
  BY SlotsAssumption
<1>2. Idle \in Frame /\ Idle.pick = 0 /\ "hold" \in Operations
  BY IdleFits DEF Idle, Operations
<1>3. f \in Frame
  BY <1>1, <1>2 DEF Frame
<1>4. f.op = "hold" /\ f.customer = c /\ f.slot = s /\ f.pick = 0
  BY <1>2 DEF Frame
<1>5. At(w, "idle") /\ Expire(w, f) /\ UNCHANGED <<slotVars, orderVars, past>>
  BY DEF HoldSlot
<1> HIDE DEF f
<1> QED BY <1>1, <1>3, <1>4, <1>5, ExpireStep

LEMMA PlaceScheduledStep ==
    ASSUME Inv, NEW w \in Requests, NEW o \in Orders, NEW s \in Slots, PlaceScheduled(w, o, s)
    PROVE  Inv'
<1> DEFINE f == [Idle EXCEPT !.op = "place", !.slot = s, !.order = o,
                             !.customer = CustomerOf[o]]
<1>1. CustomerOf[o] \in Customers
  BY SlotsAssumption
<1>2. Idle \in Frame /\ Idle.pick = 0 /\ "place" \in Operations
  BY IdleFits DEF Idle, Operations
<1>3. f \in Frame
  BY <1>1, <1>2 DEF Frame
<1>4. f.op = "place" /\ f.customer = CustomerOf[o] /\ f.slot = s /\ f.order = o /\ f.pick = 0
  BY <1>2 DEF Frame
<1>5. At(w, "idle") /\ Expire(w, f) /\ UNCHANGED <<slotVars, orderVars, past>>
  BY DEF PlaceScheduled
<1> HIDE DEF f
<1> QED BY <1>1, <1>3, <1>4, <1>5, ExpireStep

LEMMA AcceptRescheduleStep ==
    ASSUME Inv, NEW w \in Requests, NEW o \in Orders, AcceptReschedule(w, o)
    PROVE  Inv'
<1> DEFINE f == [Idle EXCEPT !.op = "accept", !.slot = proposedSlot[o], !.order = o,
                             !.customer = CustomerOf[o]]
<1>1. proposedSlot[o] \in Slots /\ CustomerOf[o] \in Customers
  BY SlotsAssumption DEF AcceptReschedule, Inv, FramesSound, TypeOK
<1>2. Idle \in Frame /\ Idle.pick = 0 /\ "accept" \in Operations
  BY IdleFits DEF Idle, Operations
<1>3. f \in Frame
  BY <1>1, <1>2 DEF Frame
<1>4. /\ f.op = "accept" /\ f.customer = CustomerOf[o] /\ f.slot = proposedSlot[o]
      /\ f.order = o /\ f.pick = 0
  BY <1>2 DEF Frame
<1>5. At(w, "idle") /\ Expire(w, f) /\ UNCHANGED <<slotVars, orderVars, past>>
  BY DEF AcceptReschedule
<1> HIDE DEF f
<1> QED BY <1>1, <1>3, <1>4, <1>5, ExpireStep

(* A request that is done leaves no place to return, and has written nothing. *)
LEMMA DoneStep ==
    ASSUME Inv, NEW w \in Requests, Done(w), UNCHANGED <<slotVars, orderVars, past>>,
           \/ lockedBy' = Unlocked(w)
           \/ UNCHANGED lockedBy /\ ~InTransaction(request[w]),
           request[w].op = "cancel" =>
              PlaceOf(request[w].order) = {} \/ request[w].pc \notin {"findPlace", "mark"}
    PROVE  Inv'
<1>1. Idle \in Frame /\ Fits(Idle, rows, slips, past') /\ \A s : Dues(Idle, rows, s) = {}
  BY IdleFits
<1>2. lockedBy' \in [Slots -> Requests \cup {None}] /\ LocksFollow(w, Idle)
  BY LocksKept, LocksReleased DEF Inv, FramesSound
<1>3. Goto(w, Idle)
  BY DEF Done
<1>4. \A o \in Orders : PlaceOf(o) = {} \/ ~Returns(request[w], o)
  BY DEF Returns
<1> QED BY <1>1, <1>2, <1>3, <1>4, QuietStep DEF Inv, FramesSound, TypeOK, orderVars

LEMMA FindOwnHoldStep ==
    ASSUME Inv, NEW w \in Requests, FindOwnHold(w)
    PROVE  Inv'
<1> SUFFICES ASSUME NEW f, f = request[w]
             PROVE  Inv'
  OBVIOUS
<1>1. /\ f \in Frame /\ Fits(f, rows, slips, past)
      /\ TypeOK /\ f.op = "hold" /\ f.pc = "find" /\ ~InTransaction(f)
      /\ UNCHANGED <<slotVars, orderVars, lockedBy, past>>
  BY FrameFacts DEF Inv, FramesSound, FindOwnHold, At, InTransaction
<1>2. CASE Done(w)
  BY <1>1, <1>2, DoneStep
<1>3. ASSUME NEW g \in Frame, Goto(w, g), Fits(g, rows, slips, past), g.op = "hold",
             g.pc \in {"take", "extend"}
      PROVE  Inv'
  <2>1. lockedBy' \in [Slots -> Requests \cup {None}] /\ LocksFollow(w, g)
    BY <1>1, LocksKept
  <2>2. \A s \in Slots : Dues(g, rows, s) \subseteq Dues(request[w], rows, s)
    BY <1>3, NoDues
  <2>3. \A o : ~Returns(request[w], o)
    BY <1>1 DEF Returns
  <2> QED BY <1>1, <1>3, <2>1, <2>2, <2>3, QuietStep DEF TypeOK, orderVars
<1>4. CASE To(w, "take")
  <2> DEFINE g == [f EXCEPT !.pc = "take"]
  <2>1. /\ g \in Frame /\ g.op = "hold" /\ g.pc = "take" /\ g.marked = f.marked
        /\ g.pick = f.pick /\ g.slot = f.slot /\ g.customer = f.customer
    BY <1>1 DEF Frame
  <2>2. Goto(w, g)
    BY <1>4 DEF To
  <2> HIDE DEF g
  <2>3. Fits(g, rows, slips, past)
    BY <1>1, <2>1 DEF Fits, OnCourse
  <2> QED BY <1>3, <2>1, <2>2, <2>3
<1>5. ASSUME NEW i \in Own(f, {"PENDING", "CONFIRMED"}), Goto(w, [f EXCEPT !.pc = "extend", !.pick = i])
      PROVE  Inv'
  <2> DEFINE g == [f EXCEPT !.pc = "extend", !.pick = i]
  <2>0. /\ i \in DOMAIN rows \ f.marked /\ i \in 1..MaxRows /\ i \in 0..MaxRows /\ i # 0
        /\ rows[i].slot = f.slot
    <3>1. MaxRows \in Nat
      BY SlotsAssumption
    <3> QED BY <1>1, <3>1, FoundRows
  <2>1. /\ g \in Frame /\ g.op = "hold" /\ g.pc = "extend" /\ g.marked = f.marked
        /\ g.pick = i /\ g.slot = f.slot /\ g.customer = f.customer
    BY <1>1, <2>0 DEF Frame
  <2>2. Goto(w, g)
    BY <1>5
  <2> HIDE DEF g
  <2>3. Fits(g, rows, slips, past)
    BY <1>1, <2>0, <2>1 DEF Fits, OnCourse
  <2> QED BY <1>3, <2>1, <2>2, <2>3
<1> QED BY <1>2, <1>4, <1>5 DEF FindOwnHold

LEMMA FindHoldStep ==
    ASSUME Inv, NEW w \in Requests, FindHold(w)
    PROVE  Inv'
<1> SUFFICES ASSUME NEW f, f = request[w]
             PROVE  Inv'
  OBVIOUS
<1>1. /\ f \in Frame /\ Fits(f, rows, slips, past) /\ MaxRows \in Nat
      /\ TypeOK /\ InTransaction(f) /\ f.pc = "find"
      /\ UNCHANGED <<slotVars, orderVars, past>>
  BY FrameFacts, SlotsAssumption DEF Inv, FramesSound, FindHold, At
<1>2. f.op # "cancel"
  BY <1>1 DEF InTransaction
<1>3. CASE RollBack(w)
  BY <1>1, <1>2, <1>3, DoneStep DEF RollBack
<1>4. ASSUME NEW i \in 0..MaxRows, Goto(w, [f EXCEPT !.pc = "commit", !.pick = i]),
             UNCHANGED lockedBy,
             i # 0 => i \in DOMAIN rows \ f.marked /\ rows[i].slot = f.slot
      PROVE  Inv'
  <2> DEFINE g == [f EXCEPT !.pc = "commit", !.pick = i]
  <2>1. /\ g \in Frame /\ g.op = f.op /\ g.pc = "commit" /\ g.marked = f.marked
        /\ g.pick = i /\ g.slot = f.slot /\ g.customer = f.customer /\ g.order = f.order
    BY <1>1, <1>4 DEF Frame
  <2>2. Goto(w, g)
    BY <1>4
  <2> HIDE DEF g
  <2>3. Fits(g, rows, slips, past)
    BY <1>1, <1>2, <1>4, <2>1 DEF Fits, OnCourse, InTransaction
  <2>4. InTransaction(g)
    BY <1>1, <2>1 DEF InTransaction
  <2>5. lockedBy' \in [Slots -> Requests \cup {None}] /\ LocksFollow(w, g)
    BY <1>1, <1>4, <2>4, LocksKept
  <2>6. \A s \in Slots : Dues(g, rows, s) \subseteq Dues(request[w], rows, s)
    BY <2>1, NoDues
  <2>7. \A o : ~Returns(request[w], o)
    BY <1>2 DEF Returns
  <2> QED BY <1>1, <2>1, <2>2, <2>3, <2>5, <2>6, <2>7, QuietStep DEF TypeOK, orderVars
<1>5. CASE To(w, "commit") /\ UNCHANGED lockedBy
  <2>1. f = [f EXCEPT !.pick = f.pick] /\ f.pick \in 0..MaxRows
    BY <1>1 DEF Frame
  <2>2. [f EXCEPT !.pc = "commit", !.pick = f.pick] = [f EXCEPT !.pc = "commit"]
    BY <1>1 DEF Frame
  <2>3. f.pick # 0 => f.pick \in DOMAIN rows \ f.marked /\ rows[f.pick].slot = f.slot
    BY <1>1 DEF Fits
  <2> QED BY <1>4, <1>5, <2>1, <2>2, <2>3 DEF To
<1>6. ASSUME NEW i \in Own(f, {"PENDING"}), Goto(w, [f EXCEPT !.pc = "commit", !.pick = i]),
             UNCHANGED lockedBy
      PROVE  Inv'
  <2>1. i \in DOMAIN rows \ f.marked /\ i \in 0..MaxRows /\ rows[i].slot = f.slot
    BY <1>1, FoundRows
  <2> QED BY <1>4, <1>6, <2>1
<1> QED BY <1>3, <1>5, <1>6 DEF FindHold

LEMMA FailStep ==
    ASSUME Inv, NEW w \in Requests, Fail(w)
    PROVE  Inv'
<1>1. request[w].op # "cancel"
  BY DEF Fail, InTransaction
<1> QED BY <1>1, DoneStep DEF Fail, RollBack

LEMMA CrashStep ==
    ASSUME Inv, NEW w \in Requests, Crash(w)
    PROVE  Inv'
<1> SUFFICES ASSUME NEW f, f = request[w]
             PROVE  Inv'
  OBVIOUS
<1>1. /\ f \in Frame /\ Fits(f, rows, slips, past) /\ TypeOK
      /\ ~InTransaction(f) /\ Goto(w, Idle) /\ UNCHANGED <<slotVars, orderVars, lockedBy>>
      /\ IF f.op = "cancel" THEN Remember(f.order, {"kept"}) ELSE UNCHANGED past
  BY FrameFacts DEF Inv, FramesSound, Crash, Done
<1>2. CASE f.op # "cancel"
  BY <1>1, <1>2, DoneStep DEF Done
<1>3. CASE f.op = "cancel"
  <2>1. f.order \in Orders
    BY <1>1, <1>3 DEF Fits
  <2>2. /\ past' \in [Orders -> SUBSET {"cancelled", "kept"}]
        /\ \A o \in Orders : past[o] \subseteq past'[o]
        /\ "kept" \in past'[f.order]
    <3> SUFFICES ASSUME NEW p, p = f.order
                 PROVE  /\ past' \in [Orders -> SUBSET {"cancelled", "kept"}]
                        /\ \A o \in Orders : past[o] \subseteq past'[o]
                        /\ "kept" \in past'[p]
      OBVIOUS
    <3>1. past' = [past EXCEPT ![p] = @ \cup {"kept"}] /\ p \in Orders
      BY <1>1, <1>3, <2>1 DEF Remember
    <3>2. past \in [Orders -> SUBSET {"cancelled", "kept"}]
      BY <1>1 DEF TypeOK
    <3> QED BY <3>1, <3>2
  <2>3. Idle \in Frame /\ Fits(Idle, rows, slips, past') /\ \A s : Dues(Idle, rows, s) = {}
    BY IdleFits
  <2>4. lockedBy' \in [Slots -> Requests \cup {None}] /\ LocksFollow(w, Idle)
    BY <1>1, LocksKept
  <2>5. \A o \in Orders : "kept" \in past'[o] \/ ~Returns(request[w], o)
    BY <2>2 DEF Returns
  <2> QED BY <1>1, <2>2, <2>3, <2>4, <2>5, QuietStep DEF TypeOK, orderVars
<1> QED BY <1>2, <1>3

(* A request begins that needs an order and no hold.                          *)
LEMMA BeginStep ==
    ASSUME Inv, NEW w \in Requests, NEW g \in Frame, At(w, "idle"), Goto(w, g),
           Fits(g, rows, slips, past'), g.pc \in {"findPlace", "write"},
           UNCHANGED <<slotVars, scheduledSlot, proposedSlot, lockedBy>>,
           orderStatus' \in [Orders -> Statuses],
           past' \in [Orders -> SUBSET {"cancelled", "kept"}],
           \A o \in Orders : past[o] \subseteq past'[o],
           \A o \in Orders : orderStatus'[o] = "CANCELLED" =>
              orderStatus[o] = "CANCELLED" \/ Returns(g, o)
    PROVE  Inv'
<1>1. request[w].op = "none" /\ TypeOK
  BY FrameFacts DEF Fits, OnCourse, At, Inv, FramesSound
<1>2. lockedBy' \in [Slots -> Requests \cup {None}] /\ LocksFollow(w, g)
  BY <1>1, LocksKept DEF InTransaction
<1>3. \A s \in Slots : Dues(g, rows, s) \subseteq Dues(request[w], rows, s)
  BY NoDues
<1>4. \A o : ~Returns(request[w], o)
  BY <1>1 DEF Returns
<1> QED BY <1>1, <1>2, <1>3, <1>4, QuietStep DEF TypeOK

LEMMA CancelByHubStep ==
    ASSUME Inv, NEW w \in Requests, NEW o \in Orders, CancelByHub(w, o)
    PROVE  Inv'
<1> DEFINE g == [Idle EXCEPT !.op = "cancel", !.pc = "findPlace", !.order = o]
<1>1. /\ Idle \in Frame /\ Idle.pick = 0 /\ Idle.marked = {} /\ "cancel" \in Operations
      /\ TypeOK
  BY IdleFits DEF Idle, Operations, Inv, FramesSound
<1>2. /\ g \in Frame /\ g.op = "cancel" /\ g.pc = "findPlace" /\ g.order = o
      /\ g.pick = 0 /\ g.marked = {}
  BY <1>1 DEF Frame
<1>3. /\ At(w, "idle") /\ Goto(w, g) /\ Remember(o, {"cancelled"})
      /\ orderStatus' = [orderStatus EXCEPT ![o] = "CANCELLED"]
      /\ UNCHANGED <<slotVars, scheduledSlot, proposedSlot, lockedBy>>
  BY DEF CancelByHub
<1> HIDE DEF g
<1>4. /\ past' \in [Orders -> SUBSET {"cancelled", "kept"}]
      /\ \A p \in Orders : past[p] \subseteq past'[p]
      /\ past'[o] # {}
  BY <1>1, <1>3 DEF Remember, TypeOK
<1>5. /\ orderStatus' \in [Orders -> Statuses]
      /\ \A p \in Orders : p # o => orderStatus'[p] = orderStatus[p]
  BY <1>1, <1>3 DEF TypeOK, Statuses
<1>6. Fits(g, rows, slips, past')
  BY <1>2, <1>4 DEF Fits, OnCourse
<1>7. Returns(g, o)
  BY <1>2 DEF Returns
<1> QED BY <1>2, <1>3, <1>4, <1>5, <1>6, <1>7, BeginStep

LEMMA RequestRescheduleStep ==
    ASSUME Inv, NEW w \in Requests, NEW o \in Orders, NEW s \in Slots, RequestReschedule(w, o, s)
    PROVE  Inv'
<1> DEFINE g == [Idle EXCEPT !.op = "propose", !.pc = "write", !.order = o, !.slot = s]
<1>1. /\ Idle \in Frame /\ Idle.pick = 0 /\ Idle.marked = {} /\ "propose" \in Operations
      /\ TypeOK
  BY IdleFits DEF Idle, Operations, Inv, FramesSound
<1>2. /\ g \in Frame /\ g.op = "propose" /\ g.pc = "write" /\ g.order = o
      /\ g.pick = 0 /\ g.marked = {}
  BY <1>1 DEF Frame
<1>3. At(w, "idle") /\ Goto(w, g) /\ UNCHANGED <<slotVars, orderVars, lockedBy, past>>
  BY DEF RequestReschedule
<1> HIDE DEF g
<1>4. Fits(g, rows, slips, past')
  BY <1>2 DEF Fits, OnCourse
<1> QED BY <1>1, <1>2, <1>3, <1>4, BeginStep DEF TypeOK, orderVars

LEMMA DeclineRescheduleStep ==
    ASSUME Inv, NEW w \in Requests, NEW o \in Orders, DeclineReschedule(w, o)
    PROVE  Inv'
<1> DEFINE g == [Idle EXCEPT !.op = "decline", !.pc = "write", !.order = o]
<1>1. /\ Idle \in Frame /\ Idle.pick = 0 /\ Idle.marked = {} /\ "decline" \in Operations
      /\ TypeOK
  BY IdleFits DEF Idle, Operations, Inv, FramesSound
<1>2. /\ g \in Frame /\ g.op = "decline" /\ g.pc = "write" /\ g.order = o
      /\ g.pick = 0 /\ g.marked = {}
  BY <1>1 DEF Frame
<1>3. At(w, "idle") /\ Goto(w, g) /\ UNCHANGED <<slotVars, orderVars, lockedBy, past>>
  BY DEF DeclineReschedule
<1> HIDE DEF g
<1>4. Fits(g, rows, slips, past')
  BY <1>2 DEF Fits, OnCourse
<1> QED BY <1>1, <1>2, <1>3, <1>4, BeginStep DEF TypeOK, orderVars

LEMMA WriteProposalStep ==
    ASSUME Inv, NEW w \in Requests, WriteProposal(w)
    PROVE  Inv'
<1> SUFFICES ASSUME NEW f, f = request[w], NEW o, o = f.order, NEW sl, sl = f.slot,
                    NEW st, st = IF f.op = "propose" THEN "RESCHEDULE_REQUESTED"
                                                     ELSE "ACCEPTED_BY_HUB"
             PROVE  Inv'
  OBVIOUS
<1>1. /\ f \in Frame /\ Fits(f, rows, slips, past) /\ TypeOK /\ f.pc = "write"
      /\ Goto(w, Idle) /\ UNCHANGED <<slotVars, scheduledSlot, lockedBy, past>>
      /\ orderStatus' = [orderStatus EXCEPT ![o] = st]
      /\ proposedSlot' = [proposedSlot EXCEPT ![o] = sl]
  BY FrameFacts DEF Inv, FramesSound, WriteProposal, Done, At
<1>2. f.op \in {"propose", "decline"} /\ o \in Orders /\ sl \in Slots \cup {None}
  BY <1>1 DEF Fits, OnCourse, Frame
<1>3. /\ orderStatus' \in [Orders -> Statuses]
      /\ proposedSlot' \in [Orders -> Slots \cup {None}]
      /\ \A p \in Orders : orderStatus'[p] = "CANCELLED" => orderStatus[p] = "CANCELLED"
  BY <1>1, <1>2 DEF TypeOK, Statuses
<1>4. Idle \in Frame /\ Fits(Idle, rows, slips, past') /\ \A s : Dues(Idle, rows, s) = {}
  BY IdleFits
<1>5. lockedBy' \in [Slots -> Requests \cup {None}] /\ LocksFollow(w, Idle)
  BY <1>1, <1>2, LocksKept DEF InTransaction
<1>6. \A p : ~Returns(request[w], p)
  BY <1>2 DEF Returns
<1> QED BY <1>1, <1>3, <1>4, <1>5, <1>6, QuietStep DEF TypeOK

LEMMA FindPlaceStep ==
    ASSUME Inv, NEW w \in Requests, FindPlace(w)
    PROVE  Inv'
<1> SUFFICES ASSUME NEW f, f = request[w], NEW o, o = f.order
             PROVE  Inv'
  OBVIOUS
<1>1. /\ f \in Frame /\ Fits(f, rows, slips, past) /\ TypeOK /\ f.pc = "findPlace"
      /\ UNCHANGED <<slotVars, orderVars, lockedBy, past>>
      /\ Goto(w, IF PlaceOf(o) = {} THEN Idle
                 ELSE [f EXCEPT !.pc = "mark", !.marked = PlaceOf(o)])
  BY FrameFacts DEF Inv, FramesSound, FindPlace, At
<1>2. f.op = "cancel" /\ ~InTransaction(f)
  BY <1>1 DEF Fits, OnCourse, InTransaction
<1>3. CASE PlaceOf(o) = {}
  BY <1>1, <1>2, <1>3, DoneStep DEF Done
<1>4. CASE PlaceOf(o) # {}
  <2> DEFINE g == [f EXCEPT !.pc = "mark", !.marked = PlaceOf(o)]
  <2>0. PlaceOf(o) \in SUBSET (1..MaxRows) /\ PlaceOf(o) \subseteq DOMAIN rows
    BY <1>1, FoundRows
  <2>1. /\ g \in Frame /\ g.op = "cancel" /\ g.pc = "mark" /\ g.marked = PlaceOf(o)
        /\ g.pick = f.pick /\ g.order = o
    BY <1>1, <1>2, <2>0 DEF Frame
  <2>2. Goto(w, g)
    BY <1>1, <1>4
  <2> HIDE DEF g
  <2>3. \A i \in PlaceOf(o) : rows[i].order = o
    BY DEF PlaceOf
  <2>4. f.pick = 0
    BY <1>1, <1>2 DEF Fits
  <2>5. Fits(g, rows, slips, past)
    BY <1>1, <1>2, <2>0, <2>1, <2>3, <2>4 DEF Fits, OnCourse
  <2>6. lockedBy' \in [Slots -> Requests \cup {None}] /\ LocksFollow(w, g)
    BY <1>1, <1>2, LocksKept
  <2>7. \A s \in Slots : Dues(g, rows, s) \subseteq Dues(request[w], rows, s)
    BY <2>1, NoDues
  <2>8. \A p : Returns(request[w], p) => Returns(g, p)
    BY <2>1 DEF Returns
  <2>9. \A p \in Orders : orderStatus'[p] = "CANCELLED" =>
           Returns(g, p) \/ (orderStatus[p] = "CANCELLED" /\ ~Returns(request[w], p))
    BY <1>1, <2>8 DEF orderVars
  <2> QED BY <1>1, <2>1, <2>2, <2>5, <2>6, <2>7, <2>9, QuietStep DEF TypeOK, orderVars
<1> QED BY <1>3, <1>4

-----------------------------------------------------------------------------
(* The statements that write a counter. *)

LEMMA TakePlaceStep ==
    ASSUME Inv, NEW w \in Requests, TakePlace(w)
    PROVE  Inv'
<1> SUFFICES ASSUME NEW f, f = request[w], NEW s, s = f.slot
             PROVE  Inv'
  OBVIOUS
<1>1. /\ f \in Frame /\ Fits(f, rows, slips, past) /\ TypeOK /\ f.pc = "take"
      /\ UNCHANGED <<rows, slips, orderVars, lockedBy, past>>
      /\ IF HasPlace(reservedCapacity[s], s)
         THEN /\ reservedCapacity' = [reservedCapacity EXCEPT ![s] = Taken(@)]
              /\ Goto(w, [f EXCEPT !.pc = "create"])
         ELSE Done(w) /\ UNCHANGED reservedCapacity
  BY FrameFacts DEF Inv, FramesSound, TakePlace, At, To
<1>2. f.op = "hold" /\ s \in Slots /\ ~InTransaction(f)
  BY <1>1 DEF Fits, OnCourse, InTransaction
<1>3. CASE ~HasPlace(reservedCapacity[s], s)
  BY <1>1, <1>2, <1>3, DoneStep DEF slotVars
<1>4. CASE HasPlace(reservedCapacity[s], s)
  <2> DEFINE g == [f EXCEPT !.pc = "create"]
  <2>1. /\ g \in Frame /\ g.op = "hold" /\ g.pc = "create" /\ g.marked = f.marked
        /\ g.pick = f.pick /\ g.slot = s /\ g.customer = f.customer
    BY <1>1, <1>2 DEF Frame
  <2>2. Goto(w, g)
    BY <1>1, <1>4
  <2> HIDE DEF g
  <2>3. Fits(g, rows, slips, past)
    BY <1>1, <1>2, <2>1 DEF Fits, OnCourse
  <2>4. lockedBy' \in [Slots -> Requests \cup {None}] /\ LocksFollow(w, g)
    BY <1>1, <1>2, LocksKept
  <2>5. /\ reservedCapacity' \in [Slots -> Int] /\ reservedCapacity'[s] = reservedCapacity[s] + 1
        /\ \A t \in Slots : t # s => reservedCapacity'[t] = reservedCapacity[t]
        /\ reservedCapacity[s] < Capacity[s] /\ Capacity \in [Slots -> Nat]
        /\ \A t \in Slots : reservedCapacity[t] \in Int /\ reservedCapacity[t] <= Capacity[t]
    <3>1. reservedCapacity \in [Slots -> Int] /\ Capacity \in [Slots -> Nat]
          /\ \A t \in Slots : reservedCapacity[t] <= Capacity[t]
      BY <1>1, SlotsAssumption DEF TypeOK, Inv, Counted
    <3>2. reservedCapacity' = [reservedCapacity EXCEPT ![s] = reservedCapacity[s] + 1]
      BY <1>1, <1>4 DEF Taken
    <3> QED BY <1>2, <1>4, <3>1, <3>2 DEF HasPlace
  <2>6. TablesTyped'
    BY <1>1, <2>4, <2>5 DEF TypeOK, TablesTyped, orderVars
  <2>7. ASSUME NEW t \in Slots
        PROVE  /\ Cardinality(Dues(g, rows, t)) + reservedCapacity[t]
                    <= Cardinality(Dues(request[w], rows, t)) + reservedCapacity'[t]
               /\ reservedCapacity'[t] <= Capacity[t]
    <3>1. Dues(request[w], rows, t) = {}
      BY <1>1, NoDues
    <3>2. Cardinality(Dues(request[w], rows, t)) = 0
      BY <3>1, FS_EmptySet
    <3>3. CASE t = s
      <4>1. Dues(g, rows, t) = {0}
        BY <3>3, <2>1, SlotsAssumption DEF Dues
      <4>2. Cardinality(Dues(g, rows, t)) = 1
        BY <4>1, FS_Singleton
      <4> QED BY <2>5, <3>2, <3>3, <4>2
    <3>4. CASE t # s
      <4>1. Dues(g, rows, t) = {}
        BY <3>4, <2>1 DEF Dues
      <4>2. Cardinality(Dues(g, rows, t)) = 0
        BY <4>1, FS_EmptySet
      <4> QED BY <2>5, <3>2, <3>4, <4>2
    <3> QED BY <3>3, <3>4
  <2>8. \A o : ~Returns(request[w], o)
    BY <1>2 DEF Returns
  <2> QED BY <1>1, <2>1, <2>2, <2>3, <2>4, <2>6, <2>7, <2>8, FrameStep DEF orderVars
<1> QED BY <1>3, <1>4

LEMMA DecrementStep ==
    ASSUME Inv, NEW w \in Requests, Decrement(w)
    PROVE  Inv'
<1> SUFFICES ASSUME NEW f, f = request[w]
             PROVE  Inv'
  OBVIOUS
<1>1. /\ f \in Frame /\ Fits(f, rows, slips, past) /\ TypeOK /\ f.pc = "decrement"
      /\ UNCHANGED <<rows, slips, orderVars, lockedBy, past>>
  BY FrameFacts DEF Inv, FramesSound, Decrement, At
<1>2. PICK s \in SlotsOf(f.marked) :
         /\ reservedCapacity' = [reservedCapacity EXCEPT ![s] = Lowered(f, s)]
         /\ Goto(w, [f EXCEPT !.pc = "clamp", !.marked = @ \ In(s, f.marked), !.counter = s])
  BY DEF Decrement
<1>3. /\ f.op \in {"hold", "cancel"} /\ ~InTransaction(f) /\ f.marked \subseteq DOMAIN rows
      /\ \A i \in DOMAIN rows : rows[i].slot \in Slots
  BY <1>1, RowsAreRows DEF Fits, OnCourse, InTransaction, Reservation
<1>4. s \in Slots
  BY <1>2, <1>3 DEF SlotsOf
<1> DEFINE g == [f EXCEPT !.pc = "clamp", !.marked = f.marked \ In(s, f.marked), !.counter = s]
<1>5. /\ g \in Frame /\ g.op = f.op /\ g.pc = "clamp" /\ g.counter = s
      /\ g.marked = f.marked \ In(s, f.marked)
      /\ g.pick = f.pick /\ g.slot = f.slot /\ g.customer = f.customer /\ g.order = f.order
  BY <1>1, <1>4 DEF Frame
<1>6. Goto(w, g)
  BY <1>1, <1>2
<1> HIDE DEF g
<1>7. Fits(g, rows, slips, past)
  <2>1. g.marked \subseteq f.marked
    BY <1>5
  <2> QED BY <1>1, <1>3, <1>4, <1>5, <2>1 DEF Fits, OnCourse
<1>8. lockedBy' \in [Slots -> Requests \cup {None}] /\ LocksFollow(w, g)
  BY <1>1, <1>3, LocksKept
<1>9. f.marked \subseteq 1..MaxRows
  BY <1>1 DEF Frame
<1>10. /\ Dues(f, rows, s) = In(s, f.marked) /\ Dues(g, rows, s) = {}
       /\ \A t \in Slots : t # s => Dues(g, rows, t) = Dues(f, rows, t)
  <2>1. Dues(f, rows, s) = In(s, f.marked)
    BY <1>1, <1>9, SlotsAssumption DEF Dues, In
  <2>2. Dues(g, rows, s) = {}
    BY <1>5 DEF Dues, In
  <2>3. \A t \in Slots : t # s => Dues(g, rows, t) = Dues(f, rows, t)
    BY <1>1, <1>5 DEF Dues, In
  <2> QED BY <2>1, <2>2, <2>3
<1>11. \A t \in Slots : Cardinality(Dues(f, rows, t)) \in Nat
  <2>1. \A t \in Slots : Dues(f, rows, t) \subseteq 0..MaxRows
    BY DEF Dues
  <2> QED BY <2>1, RowsFinite
<1>12. /\ reservedCapacity' \in [Slots -> Int]
       /\ reservedCapacity'[s] = reservedCapacity[s] - Cardinality(Dues(f, rows, s))
       /\ \A t \in Slots : t # s => reservedCapacity'[t] = reservedCapacity[t]
       /\ \A t \in Slots : /\ reservedCapacity[t] \in Int /\ Capacity[t] \in Nat
                           /\ reservedCapacity[t] <= Capacity[t]
  <2>1. Lowered(f, s) = reservedCapacity[s] - Cardinality(Dues(f, rows, s))
    BY <1>10 DEF Lowered
  <2>2. reservedCapacity' = [reservedCapacity EXCEPT ![s] = reservedCapacity[s] - Cardinality(Dues(f, rows, s))]
    BY <1>2, <2>1
  <2>3. reservedCapacity \in [Slots -> Int] /\ Capacity \in [Slots -> Nat]
        /\ \A t \in Slots : reservedCapacity[t] <= Capacity[t]
    BY <1>1, SlotsAssumption DEF TypeOK, Inv, Counted
  <2> QED BY <1>4, <1>11, <2>2, <2>3
<1>13. TablesTyped'
  BY <1>1, <1>8, <1>12 DEF TypeOK, TablesTyped, orderVars
<1>14. \A t \in Slots :
          /\ Cardinality(Dues(g, rows, t)) + reservedCapacity[t]
               <= Cardinality(Dues(f, rows, t)) + reservedCapacity'[t]
          /\ reservedCapacity'[t] <= Capacity[t]
  <2> TAKE t \in Slots
  <2>1. CASE t = s
    <3>1. Cardinality(Dues(g, rows, t)) = 0
      BY <2>1, <1>10, FS_EmptySet
    <3> QED BY <2>1, <3>1, <1>11, <1>12
  <2>2. CASE t # s
    BY <2>2, <1>10, <1>11, <1>12
  <2> QED BY <2>1, <2>2
<1>15. \A o : ~Returns(request[w], o)
  BY <1>1 DEF Returns
<1> QED BY <1>1, <1>5, <1>6, <1>7, <1>8, <1>13, <1>14, <1>15, FrameStep DEF orderVars

LEMMA ClampStep ==
    ASSUME Inv, NEW w \in Requests, Clamp(w)
    PROVE  Inv'
<1> SUFFICES ASSUME NEW f, f = request[w], NEW s, s = f.counter
             PROVE  Inv'
  OBVIOUS
<1>1. /\ f \in Frame /\ Fits(f, rows, slips, past) /\ TypeOK /\ f.pc = "clamp"
      /\ UNCHANGED <<rows, slips, orderVars, lockedBy, past>>
      /\ reservedCapacity' = [reservedCapacity EXCEPT ![s] = MaxOf(0, @)]
      /\ Goto(w, IF f.marked = {} /\ f.op = "cancel" THEN Idle
                 ELSE [f EXCEPT !.counter = None,
                                !.pc = IF f.marked = {} THEN "find" ELSE "decrement"])
  BY FrameFacts DEF Inv, FramesSound, Clamp, At
<1>2. f.op \in {"hold", "cancel"} /\ s \in Slots /\ ~InTransaction(f)
  BY <1>1 DEF Fits, OnCourse, InTransaction
<1>3. ASSUME NEW g \in Frame, Goto(w, g), Fits(g, rows, slips, past),
             \A t \in Slots : Dues(g, rows, t) \subseteq Dues(f, rows, t)
      PROVE  Inv'
  <2>1. lockedBy' \in [Slots -> Requests \cup {None}] /\ LocksFollow(w, g)
    BY <1>1, <1>2, LocksKept
  <2>2. /\ reservedCapacity' \in [Slots -> Int]
        /\ \A t \in Slots : /\ reservedCapacity[t] \in Int /\ reservedCapacity[t] <= reservedCapacity'[t]
                            /\ reservedCapacity'[t] <= Capacity[t]
    <3>1. reservedCapacity \in [Slots -> Int] /\ Capacity \in [Slots -> Nat]
          /\ \A t \in Slots : reservedCapacity[t] <= Capacity[t]
      BY <1>1, SlotsAssumption DEF TypeOK, Inv, Counted
    <3> QED BY <1>1, <1>2, <3>1 DEF MaxOf
  <2>3. TablesTyped'
    BY <1>1, <2>1, <2>2 DEF TypeOK, TablesTyped, orderVars
  <2>4. \A t \in Slots : /\ IsFiniteSet(Dues(f, rows, t))
                         /\ Cardinality(Dues(f, rows, t)) \in Nat
                         /\ Cardinality(Dues(g, rows, t)) \in Nat
    <3>1. \A t \in Slots : /\ Dues(f, rows, t) \subseteq 0..MaxRows
                           /\ Dues(g, rows, t) \subseteq 0..MaxRows
      BY DEF Dues
    <3> QED BY <3>1, RowsFinite
  <2>5. \A t \in Slots : Cardinality(Dues(g, rows, t)) <= Cardinality(Dues(f, rows, t))
    <3>1. \A t \in Slots : Dues(g, rows, t) \in SUBSET Dues(f, rows, t)
      BY <1>3
    <3> QED BY <2>4, <3>1, FS_Subset
  <2>6. \A t \in Slots :
          /\ Cardinality(Dues(g, rows, t)) + reservedCapacity[t]
               <= Cardinality(Dues(f, rows, t)) + reservedCapacity'[t]
          /\ reservedCapacity'[t] <= Capacity[t]
    <3>1. \A t \in Slots : reservedCapacity'[t] \in Int
      BY <2>2
    <3> QED BY <2>2, <2>4, <2>5, <3>1
  <2>7. \A o : ~Returns(request[w], o)
    BY <1>1 DEF Returns
  <2> QED BY <1>1, <1>3, <2>1, <2>3, <2>6, <2>7, FrameStep DEF orderVars
<1>4. CASE f.marked = {} /\ f.op = "cancel"
  <2>1. Idle \in Frame /\ Fits(Idle, rows, slips, past) /\ \A t : Dues(Idle, rows, t) = {}
    BY IdleFits
  <2>2. Goto(w, Idle)
    BY <1>1, <1>4
  <2> QED BY <1>3, <2>1, <2>2
<1>5. ASSUME NEW pc \in {"find", "decrement"}, pc = IF f.marked = {} THEN "find" ELSE "decrement",
             ~(f.marked = {} /\ f.op = "cancel")
      PROVE  Inv'
  <2> DEFINE g == [f EXCEPT !.counter = None, !.pc = pc]
  <2>1. /\ g \in Frame /\ g.op = f.op /\ g.pc = pc /\ g.marked = f.marked
        /\ g.pick = f.pick /\ g.slot = f.slot /\ g.customer = f.customer /\ g.order = f.order
    BY <1>1, <1>5 DEF Frame
  <2>2. Goto(w, g)
    BY <1>1, <1>5
  <2> HIDE DEF g
  <2>3. Fits(g, rows, slips, past)
    BY <1>1, <1>2, <1>5, <2>1 DEF Fits, OnCourse
  <2>4. \A t \in Slots : Dues(g, rows, t) \subseteq Dues(f, rows, t)
    BY <1>1, <1>5, <2>1 DEF Dues
  <2> QED BY <1>3, <2>1, <2>2, <2>3, <2>4
<1> QED BY <1>4, <1>5

-----------------------------------------------------------------------------
(* The statements that write rows. *)

(* Counters lowered by the rows that are taken off the books, and set to 0    *)
(* when they fall below, in a transaction.                                    *)
LEMMA LoweredCounters ==
    ASSUME Inv, NEW M, M \subseteq DOMAIN rows, NEW n,
           n = [s \in Slots |-> IF s \in SlotsOf(M)
                                THEN MaxOf(0, reservedCapacity[s] - Cardinality(In(s, M)))
                                ELSE reservedCapacity[s]]
    PROVE  /\ n \in [Slots -> Int]
           /\ \A s \in Slots : /\ Cardinality(In(s, M)) \in Nat
                               /\ reservedCapacity[s] <= n[s] + Cardinality(In(s, M))
                               /\ n[s] <= Capacity[s]
<1>1. reservedCapacity \in [Slots -> Int] /\ Capacity \in [Slots -> Nat]
      /\ \A s \in Slots : reservedCapacity[s] <= Capacity[s]
  BY SlotsAssumption DEF TypeOK, Inv, FramesSound, Counted
<1>2. M \subseteq 0..MaxRows
  BY RowsAreRows DEF Inv, FramesSound
<1>3. \A s \in Slots : Cardinality(In(s, M)) \in Nat
  <2>1. \A s \in Slots : In(s, M) \subseteq 0..MaxRows
    BY <1>2 DEF In
  <2> QED BY <2>1, RowsFinite
<1> QED BY <1>1, <1>3 DEF MaxOf

LEMMA MarkStep ==
    ASSUME Inv, NEW w \in Requests, Mark(w)
    PROVE  Inv'
<1> SUFFICES ASSUME NEW f, f = request[w], NEW M, M = f.marked,
                    NEW st, st = IF f.op = "cancel" THEN "RELEASED" ELSE "EXPIRED",
                    NEW ok, ok = IF f.op = "cancel" THEN {"PENDING", "CONFIRMED"} ELSE {"PENDING"},
                    NEW C, C = Changed(M, ok)
             PROVE  Inv'
  OBVIOUS
<1>1. /\ f \in Frame /\ Fits(f, rows, slips, past) /\ TypeOK /\ f.pc = "mark"
      /\ UNCHANGED <<reservedCapacity, orderVars, lockedBy, past>>
      /\ rows' = MarkedRows(M, st) /\ slips' = Slipped(C)
      /\ Goto(w, [f EXCEPT !.pc = "decrement"])
  BY FrameFacts DEF Inv, FramesSound, Mark, At, To
<1>2. /\ f.op \in {"hold", "cancel"} /\ ~InTransaction(f) /\ M \subseteq DOMAIN rows
      /\ C \subseteq DOMAIN rows
      /\ \A i \in DOMAIN rows : rows[i] \in Reservation
  BY <1>1, RowsAreRows DEF Fits, OnCourse, InTransaction, Changed
<1>3. st \in {"PENDING", "CONFIRMED", "RELEASED", "EXPIRED"}
  OBVIOUS
<1>4. /\ rows' \in Seq(Reservation) /\ Len(rows') = Len(rows) /\ DOMAIN rows' = DOMAIN rows
      /\ \A i \in DOMAIN rows :
            /\ rows'[i].slot = rows[i].slot /\ rows'[i].order = rows[i].order
            /\ rows'[i].status = IF i \in M THEN st ELSE rows[i].status
  BY <1>1, <1>3, MarkedAre
<1>5. /\ slips' \in [Slots -> Nat]
      /\ \A s \in Slots : /\ slips'[s] = slips[s] + Cardinality(In(s, C))
                          /\ slips'[s] >= slips[s] /\ slips[s] \in Nat
      /\ \A i \in C : slips'[rows[i].slot] > 0
  BY <1>1, <1>2, SlipsGrow DEF TypeOK
<1>6. RowsFollow
  <2>1. ASSUME NEW i \in M, rows[i].status = "CONFIRMED"
        PROVE  \/ slips'[rows[i].slot] > 0
               \/ rows[i].order \in Orders /\ past'[rows[i].order] # {}
    <3>1. CASE f.op = "hold"
      <4>1. i \in C
        BY <2>1, <3>1 DEF Changed
      <4> QED BY <4>1, <1>5
    <3>2. CASE f.op = "cancel"
      <4>1. /\ f.order \in Orders /\ past[f.order] # {}
            /\ rows[i].order = f.order \/ slips[rows[i].slot] > 0
        BY <1>1, <2>1, <3>2 DEF Fits
      <4>2. rows[i].slot \in Slots
        BY <1>2, <2>1 DEF Reservation
      <4> QED BY <1>1, <1>5, <4>1, <4>2
    <3> QED BY <1>2, <3>1, <3>2
  <2>2. \A i \in DOMAIN rows' : rows'[i].status = "PENDING" => rows'[i].order = None
    <3>1. st # "PENDING"
      OBVIOUS
    <3> QED BY <1>4, <3>1 DEF Inv, FramesSound, HoldsAreFree
  <2>3. \A o \in Orders : past[o] \subseteq past'[o]
    BY <1>1
  <2> QED BY <1>4, <1>5, <2>1, <2>2, <2>3 DEF RowsFollow, Follows
<1> DEFINE g == [f EXCEPT !.pc = "decrement"]
<1>7. /\ g \in Frame /\ g.op = f.op /\ g.pc = "decrement" /\ g.marked = M
      /\ g.pick = f.pick /\ g.slot = f.slot /\ g.customer = f.customer /\ g.order = f.order
  BY <1>1 DEF Frame
<1>8. Goto(w, g)
  BY <1>1
<1> HIDE DEF g
<1>9. TablesTyped'
  BY <1>1, <1>4, <1>5 DEF TypeOK, TablesTyped, orderVars
<1>10. Fits(g, rows', slips', past')
  <2>1. Fits(f, rows', slips', past')
    BY <1>6, <1>9, FitsFollow DEF TablesTyped, Inv
  <2> QED BY <1>1, <1>2, <1>7, <2>1 DEF Fits, OnCourse
<1>11. LocksFollow(w, g)
  BY <1>1, <1>2, LocksKept
<1>12. FramesSound'
  BY <1>6, <1>7, <1>8, <1>9, <1>10, <1>11, MoveFits DEF Inv
<1>13. Counted'
  <2>1. ASSUME NEW s \in Slots
        PROVE  /\ Cardinality(Held(s)') + Cardinality(Dues(g, rows', s))
                     + reservedCapacity[s] + slips[s]
                  <= Cardinality(Held(s)) + Cardinality(Dues(f, rows, s))
                     + reservedCapacity'[s] + slips'[s]
               /\ reservedCapacity'[s] <= Capacity[s]
    <3>1. Cardinality(Dues(f, rows, s)) = 0
      BY <1>1, NoDues, FS_EmptySet
    <3>2. Dues(g, rows', s) = In(s, M)
      <4>1. M \subseteq 1..MaxRows
        BY <1>1 DEF Frame
      <4> QED BY <1>2, <1>4, <1>7, <4>1, SlotsAssumption DEF Dues, In
    <3>3. IsFiniteSet(Held(s)) /\ Cardinality(Held(s)) \in Nat
      BY <1>1, HeldFinite
    <3>4. IsFiniteSet(In(s, C))
      <4>1. In(s, C) \subseteq 0..MaxRows
        BY <1>1, <1>2, RowsAreRows DEF In
      <4> QED BY <4>1, RowsFinite
    <3>5. Held(s)' = {i \in DOMAIN rows : /\ rows[i].slot = s /\ i \notin M
                                          /\ rows[i].status \in {"PENDING", "CONFIRMED"}}
      <4>1. st \notin {"PENDING", "CONFIRMED"}
        OBVIOUS
      <4>2. Held(s)' = {i \in DOMAIN rows' : /\ rows'[i].slot = s
                                            /\ rows'[i].status \in {"PENDING", "CONFIRMED"}}
        BY DEF Held, Holds
      <4> QED BY <1>4, <4>1, <4>2
    <3>6. Held(s)' \cap In(s, M) = {} /\ Held(s)' \cup In(s, M) \subseteq Held(s) \cup In(s, C)
      BY <1>2, <3>5 DEF Held, Holds, In, Changed
    <3>7. /\ Cardinality(Held(s)') + Cardinality(In(s, M)) <= Cardinality(Held(s)) + Cardinality(In(s, C))
          /\ Cardinality(Held(s)') \in Nat /\ Cardinality(In(s, M)) \in Nat
          /\ Cardinality(In(s, C)) \in Nat
      BY <3>3, <3>4, <3>6, Exchange
    <3>8. /\ reservedCapacity[s] \in Int /\ reservedCapacity'[s] = reservedCapacity[s]
          /\ reservedCapacity[s] <= Capacity[s]
      BY <1>1 DEF TypeOK, Inv, Counted
    <3> QED BY <1>5, <3>1, <3>2, <3>3, <3>7, <3>8
  <2> QED BY <1>6, <1>8, <1>9, <2>1, CountedMoves DEF Inv
<1>14. Scheduled'
  BY <1>1, <1>6, <1>9, ScheduledFollows DEF Inv, orderVars
<1>15. Returning'
  <2>1. \A o : PlaceOf(o)' = PlaceOf(o) \ M
    <3>1. st \notin {"PENDING", "CONFIRMED"}
      OBVIOUS
    <3>2. \A o : PlaceOf(o)' = {i \in DOMAIN rows' : /\ rows'[i].order = o
                                          /\ rows'[i].status \in {"PENDING", "CONFIRMED"}}
      BY DEF PlaceOf, Holds
    <3>3. \A o : PlaceOf(o) = {i \in DOMAIN rows : /\ rows[i].order = o
                                          /\ rows[i].status \in {"PENDING", "CONFIRMED"}}
      BY DEF PlaceOf, Holds
    <3> QED BY <1>4, <3>1, <3>2, <3>3
  <2>2. \A o : Returns(f, o) => PlaceOf(o)' = {}
    BY <1>1, <2>1 DEF Returns
  <2> QED BY <1>1, <1>6, <1>8, <2>1, <2>2, ReturningMoves DEF Inv, orderVars
<1> QED BY <1>12, <1>13, <1>14, <1>15 DEF Inv

LEMMA ExtendHoldStep ==
    ASSUME Inv, NEW w \in Requests, ExtendHold(w)
    PROVE  Inv'
<1> SUFFICES ASSUME NEW f, f = request[w], NEW i, i = f.pick
             PROVE  Inv'
  OBVIOUS
<1>1. /\ f \in Frame /\ Fits(f, rows, slips, past) /\ TypeOK /\ f.pc = "extend"
      /\ UNCHANGED <<reservedCapacity, slips, orderVars, lockedBy, past>>
      /\ rows' = [rows EXCEPT ![i].timer = "running"] /\ Goto(w, Idle)
  BY FrameFacts DEF Inv, FramesSound, ExtendHold, At, Done
<1>2. i \in DOMAIN rows /\ f.op = "hold" /\ ~InTransaction(f)
  BY <1>1 DEF Fits, OnCourse, InTransaction
<1>3. /\ rows' \in Seq(Reservation) /\ Len(rows') = Len(rows) /\ DOMAIN rows' = DOMAIN rows
      /\ \A j \in DOMAIN rows : /\ rows'[j].slot = rows[j].slot /\ rows'[j].order = rows[j].order
                                /\ rows'[j].status = rows[j].status
      /\ RowsFollow
  BY <1>1, <1>2, TimerRows DEF Inv
<1>4. /\ Idle \in Frame /\ Fits(Idle, rows', slips', past')
      /\ \A s : Dues(Idle, rows', s) = {}
  BY IdleFits
<1>5. TablesTyped'
  BY <1>1, <1>3 DEF TypeOK, TablesTyped, orderVars
<1>6. LocksFollow(w, Idle)
  BY <1>1, <1>2, LocksKept
<1>7. FramesSound'
  BY <1>1, <1>3, <1>4, <1>5, <1>6, MoveFits DEF Inv
<1>8. Counted'
  <2>1. ASSUME NEW s \in Slots
        PROVE  /\ Cardinality(Held(s)') + Cardinality(Dues(Idle, rows', s))
                     + reservedCapacity[s] + slips[s]
                  <= Cardinality(Held(s)) + Cardinality(Dues(f, rows, s))
                     + reservedCapacity'[s] + slips'[s]
               /\ reservedCapacity'[s] <= Capacity[s]
    <3>1. Held(s)' = Held(s) /\ Dues(f, rows, s) = {} /\ Dues(Idle, rows', s) = {}
      BY <1>1, <1>3, <1>4, HeldStays, NoDues
    <3>2. Cardinality(Held(s)) \in Nat /\ Cardinality({}) = 0
      BY <1>1, HeldFinite, FS_EmptySet
    <3>3. /\ reservedCapacity[s] \in Int /\ reservedCapacity'[s] = reservedCapacity[s]
          /\ reservedCapacity[s] <= Capacity[s] /\ slips'[s] = slips[s] /\ slips[s] \in Nat
      BY <1>1 DEF TypeOK, Inv, Counted
    <3> QED BY <3>1, <3>2, <3>3
  <2> QED BY <1>1, <1>3, <1>5, <2>1, CountedMoves DEF Inv
<1>9. Scheduled'
  BY <1>1, <1>3, <1>5, ScheduledFollows DEF Inv, orderVars
<1>10. Returning'
  <2>1. \A o : PlaceOf(o)' = PlaceOf(o)
    BY <1>3 DEF PlaceOf, Holds
  <2>2. \A o : ~Returns(f, o)
    BY <1>2 DEF Returns
  <2> QED BY <1>1, <1>3, <2>1, <2>2, ReturningMoves DEF Inv, orderVars
<1> QED BY <1>7, <1>8, <1>9, <1>10 DEF Inv

LEMMA CreateHoldStep ==
    ASSUME Inv, NEW w \in Requests, CreateHold(w)
    PROVE  Inv'
<1> SUFFICES ASSUME NEW f, f = request[w], NEW n, n = Len(rows), NEW r,
                    r = [slot |-> f.slot, customer |-> f.customer, order |-> None,
                         status |-> "PENDING", timer |-> "running"]
             PROVE  Inv'
  OBVIOUS
<1>1. /\ f \in Frame /\ Fits(f, rows, slips, past) /\ TypeOK /\ f.pc = "create"
      /\ UNCHANGED <<reservedCapacity, slips, orderVars, lockedBy, past>>
      /\ n < MaxRows /\ rows' = Append(rows, r) /\ Goto(w, Idle)
  BY FrameFacts DEF Inv, FramesSound, CreateHold, At, Done
<1>2. f.op = "hold" /\ ~InTransaction(f) /\ f.slot \in Slots /\ f.customer \in Customers
  BY <1>1 DEF Fits, OnCourse, InTransaction
<1>3. r \in Reservation /\ r.slot = f.slot /\ r.status = "PENDING" /\ r.order = None
  BY <1>2 DEF Reservation
<1>4. DOMAIN rows = 1..n /\ n \in Nat
  BY <1>1, RowsAreRows
<1>5. /\ rows' \in Seq(Reservation) /\ Len(rows') = n + 1
      /\ DOMAIN rows' = 1..(n + 1) /\ rows'[n + 1] = r
      /\ \A i \in DOMAIN rows : i \in DOMAIN rows' /\ rows'[i] = rows[i]
  <2>1. rows \in Seq(Reservation)
    BY <1>1 DEF TypeOK
  <2>2. /\ rows' \in Seq(Reservation) /\ Len(rows') = n + 1 /\ rows'[n + 1] = r
        /\ \A i \in 1..n : rows'[i] = rows[i]
    BY <1>1, <1>3, <2>1, AppendProperties
  <2>3. DOMAIN rows' = 1..(n + 1)
    BY <2>2, LenProperties
  <2> QED BY <1>4, <2>2, <2>3
<1>6. RowsFollow
  <2>1. \A i \in DOMAIN rows' : i \in DOMAIN rows \/ i = n + 1
    BY <1>4, <1>5
  <2>2. \A s \in Slots : slips[s] <= slips'[s]
    BY <1>1 DEF TypeOK
  <2> QED BY <1>1, <1>3, <1>5, <2>1, <2>2 DEF RowsFollow, Follows, Inv, FramesSound, HoldsAreFree
<1>7. /\ Idle \in Frame /\ Fits(Idle, rows', slips', past')
      /\ \A s : Dues(Idle, rows', s) = {}
  BY IdleFits
<1>8. TablesTyped'
  BY <1>1, <1>4, <1>5, SlotsAssumption DEF TypeOK, TablesTyped, orderVars
<1>9. LocksFollow(w, Idle)
  BY <1>1, <1>2, LocksKept
<1>10. FramesSound'
  BY <1>1, <1>6, <1>7, <1>8, <1>9, MoveFits DEF Inv
<1>11. Counted'
  <2>1. ASSUME NEW s \in Slots
        PROVE  /\ Cardinality(Held(s)') + Cardinality(Dues(Idle, rows', s))
                     + reservedCapacity[s] + slips[s]
                  <= Cardinality(Held(s)) + Cardinality(Dues(f, rows, s))
                     + reservedCapacity'[s] + slips'[s]
               /\ reservedCapacity'[s] <= Capacity[s]
    <3>1. Dues(Idle, rows', s) = {} /\ Cardinality({}) = 0
      BY <1>7, FS_EmptySet
    <3>2. IsFiniteSet(Held(s)) /\ Cardinality(Held(s)) \in Nat
      BY <1>1, HeldFinite
    <3>3. /\ reservedCapacity[s] \in Int /\ reservedCapacity'[s] = reservedCapacity[s]
          /\ reservedCapacity[s] <= Capacity[s] /\ slips'[s] = slips[s] /\ slips[s] \in Nat
      BY <1>1 DEF TypeOK, Inv, Counted
    <3>4. Held(s)' = {i \in DOMAIN rows' : /\ rows'[i].slot = s
                                          /\ rows'[i].status \in {"PENDING", "CONFIRMED"}}
      BY DEF Held, Holds
    <3>5. CASE s = f.slot
      <4>1. Dues(f, rows, s) = {0}
        BY <1>1, <3>5, SlotsAssumption DEF Dues
      <4>2. Cardinality(Dues(f, rows, s)) = 1
        BY <4>1, FS_Singleton
      <4>3. Held(s)' \cap {} = {} /\ Held(s)' \cup {} \subseteq Held(s) \cup {n + 1}
        BY <1>4, <1>5, <3>4 DEF Held, Holds
      <4>4. IsFiniteSet({n + 1}) /\ Cardinality({n + 1}) = 1
        BY FS_Singleton
      <4>5. /\ Cardinality(Held(s)') + Cardinality({}) <= Cardinality(Held(s)) + Cardinality({n + 1})
            /\ Cardinality(Held(s)') \in Nat
        BY <3>2, <4>3, <4>4, Exchange
      <4> QED BY <3>1, <3>2, <3>3, <4>2, <4>4, <4>5
    <3>6. CASE s # f.slot
      <4>1. Held(s)' = Held(s)
        BY <1>3, <1>4, <1>5, <3>4, <3>6 DEF Held, Holds
      <4>2. Dues(f, rows, s) = {}
        BY <1>1, <3>6 DEF Dues
      <4> QED BY <3>1, <3>2, <3>3, <4>1, <4>2
    <3> QED BY <3>5, <3>6
  <2> QED BY <1>1, <1>6, <1>8, <2>1, CountedMoves DEF Inv
<1>12. Scheduled'
  BY <1>1, <1>6, <1>8, ScheduledFollows DEF Inv, orderVars
<1>13. Returning'
  <2>1. \A o \in Orders : PlaceOf(o)' \subseteq PlaceOf(o)
    <3>1. None \notin Orders
      BY SlotsAssumption
    <3>2. \A o : PlaceOf(o)' = {i \in DOMAIN rows' : /\ rows'[i].order = o
                                          /\ rows'[i].status \in {"PENDING", "CONFIRMED"}}
      BY DEF PlaceOf, Holds
    <3> QED BY <1>3, <1>4, <1>5, <3>1, <3>2 DEF PlaceOf, Holds
  <2>2. \A o : ~Returns(f, o)
    BY <1>2 DEF Returns
  <2> QED BY <1>1, <1>6, <2>1, <2>2, ReturningMoves DEF Inv, orderVars
<1> QED BY <1>10, <1>11, <1>12, <1>13 DEF Inv

-----------------------------------------------------------------------------
(* Steps of no request. *)

LEMMA RunOutStep ==
    ASSUME Inv, NEW i \in DOMAIN rows, RunOut(i)
    PROVE  Inv'
<1>1. /\ TypeOK /\ rows' = [rows EXCEPT ![i].timer = "out"]
      /\ UNCHANGED <<reservedCapacity, slips, orderVars, lockedBy, request, past>>
  BY DEF Inv, FramesSound, RunOut
<1>2. /\ rows' \in Seq(Reservation) /\ Len(rows') = Len(rows) /\ DOMAIN rows' = DOMAIN rows
      /\ \A j \in DOMAIN rows : /\ rows'[j].slot = rows[j].slot /\ rows'[j].order = rows[j].order
                                /\ rows'[j].status = rows[j].status
      /\ RowsFollow
  BY <1>1, TimerRows DEF Inv
<1>3. TablesTyped'
  BY <1>1, <1>2 DEF TypeOK, TablesTyped, orderVars
<1>4. FramesSound'
  BY <1>1, <1>2, <1>3, StayFits DEF Inv
<1>5. Counted'
  <2>1. ASSUME NEW s \in Slots
        PROVE  /\ Cardinality(Held(s)') + reservedCapacity[s] + slips[s]
                  <= Cardinality(Held(s)) + reservedCapacity'[s] + slips'[s]
               /\ reservedCapacity'[s] <= Capacity[s]
    <3>1. Held(s)' = Held(s) /\ Cardinality(Held(s)) \in Nat
      BY <1>1, <1>2, HeldStays, HeldFinite
    <3>2. /\ reservedCapacity[s] \in Int /\ reservedCapacity'[s] = reservedCapacity[s]
          /\ reservedCapacity[s] <= Capacity[s] /\ slips'[s] = slips[s] /\ slips[s] \in Nat
      BY <1>1 DEF TypeOK, Inv, Counted
    <3> QED BY <3>1, <3>2
  <2> QED BY <1>1, <1>2, <1>3, <2>1, CountedStays DEF Inv
<1>6. Scheduled'
  BY <1>1, <1>2, <1>3, ScheduledFollows DEF Inv, orderVars
<1>7. Returning'
  <2>1. \A o : PlaceOf(o)' = PlaceOf(o)
    BY <1>2 DEF PlaceOf, Holds
  <2> QED BY <1>1, <1>2, <2>1, ReturningStays DEF Inv, orderVars
<1> QED BY <1>4, <1>5, <1>6, <1>7 DEF Inv

(* A step that writes only the status of orders.                              *)
LEMMA StatusStep ==
    ASSUME Inv, UNCHANGED <<slotVars, scheduledSlot, proposedSlot, lockedBy, request>>,
           orderStatus' \in [Orders -> Statuses],
           past' \in [Orders -> SUBSET {"cancelled", "kept"}],
           \A o \in Orders : past[o] \subseteq past'[o],
           \A o \in Orders : orderStatus'[o] = "CANCELLED" =>
              orderStatus[o] = "CANCELLED" \/ "kept" \in past'[o]
    PROVE  Inv'
<1>1. /\ TypeOK /\ UNCHANGED <<rows, reservedCapacity, slips, scheduledSlot, lockedBy, request>>
  BY DEF Inv, FramesSound, slotVars
<1>2. RowsFollow
  BY <1>1, RowsStay DEF Inv
<1>3. TablesTyped'
  BY <1>1 DEF TypeOK, TablesTyped
<1>4. FramesSound'
  BY <1>1, <1>2, <1>3, StayFits DEF Inv
<1>5. Counted'
  <2>1. ASSUME NEW s \in Slots
        PROVE  /\ Cardinality(Held(s)') + reservedCapacity[s] + slips[s]
                  <= Cardinality(Held(s)) + reservedCapacity'[s] + slips'[s]
               /\ reservedCapacity'[s] <= Capacity[s]
    <3>1. Held(s)' = Held(s) /\ Cardinality(Held(s)) \in Nat
      BY <1>1, HeldStays, HeldFinite
    <3>2. /\ reservedCapacity[s] \in Int /\ reservedCapacity'[s] = reservedCapacity[s]
          /\ reservedCapacity[s] <= Capacity[s] /\ slips'[s] = slips[s] /\ slips[s] \in Nat
      BY <1>1 DEF TypeOK, Inv, Counted
    <3> QED BY <3>1, <3>2
  <2> QED BY <1>1, <1>2, <1>3, <2>1, CountedStays DEF Inv
<1>6. Scheduled'
  BY <1>1, <1>2, <1>3, ScheduledFollows DEF Inv
<1>7. Returning'
  <2>1. \A o : PlaceOf(o)' = PlaceOf(o)
    BY <1>1 DEF PlaceOf, Holds
  <2> QED BY <1>1, <1>2, <2>1, ReturningStays DEF Inv
<1> QED BY <1>4, <1>5, <1>6, <1>7 DEF Inv

LEMMA StatusSteps ==
    ASSUME Inv, NEW o \in Orders, PlaceUnscheduled(o) \/ RejectByHub(o) \/ HubMoves(o)
    PROVE  Inv'
<1>1. TypeOK
  BY DEF Inv, FramesSound
<1>2. CASE PlaceUnscheduled(o) \/ HubMoves(o)
  <2>1. /\ orderStatus' \in [Orders -> Statuses]
        /\ \A p \in Orders : orderStatus'[p] = "CANCELLED" => orderStatus[p] = "CANCELLED"
    BY <1>1, <1>2 DEF TypeOK, Statuses, PlaceUnscheduled, HubMoves
  <2> QED BY <1>1, <1>2, <2>1, StatusStep DEF PlaceUnscheduled, HubMoves, TypeOK
<1>3. CASE RejectByHub(o)
  <2>1. /\ orderStatus' = [orderStatus EXCEPT ![o] = "CANCELLED"]
        /\ past' = [past EXCEPT ![o] = @ \cup {"cancelled", "kept"}]
        /\ UNCHANGED <<slotVars, scheduledSlot, proposedSlot, lockedBy, request>>
    BY <1>3 DEF RejectByHub, Remember
  <2>2. /\ past' \in [Orders -> SUBSET {"cancelled", "kept"}]
        /\ \A p \in Orders : past[p] \subseteq past'[p]
        /\ "kept" \in past'[o]
    BY <1>1, <2>1 DEF TypeOK
  <2>3. /\ orderStatus' \in [Orders -> Statuses]
        /\ \A p \in Orders : p # o => orderStatus'[p] = orderStatus[p]
    BY <1>1, <2>1 DEF TypeOK, Statuses
  <2> QED BY <2>1, <2>2, <2>3, StatusStep
<1> QED BY <1>2, <1>3

LEMMA CancelByCustomerStep ==
    ASSUME Inv, NEW o \in Orders, CancelByCustomer(o)
    PROVE  Inv'
<1> SUFFICES ASSUME NEW M, M = PlaceOf(o)
             PROVE  Inv'
  OBVIOUS
<1>1. /\ TypeOK /\ M \subseteq DOMAIN rows
      /\ orderStatus' = [orderStatus EXCEPT ![o] = "CANCELLED"]
      /\ rows' = MarkedRows(M, "RELEASED")
      /\ reservedCapacity' =
            [s \in Slots |-> IF s \in SlotsOf(M)
                             THEN MaxOf(0, reservedCapacity[s] - Cardinality(In(s, M)))
                             ELSE reservedCapacity[s]]
      /\ past' = [past EXCEPT ![o] = @ \cup {"cancelled"}]
      /\ UNCHANGED <<slips, scheduledSlot, proposedSlot, lockedBy, request>>
  BY FoundRows DEF Inv, FramesSound, CancelByCustomer, Remember
<1>2. /\ rows' \in Seq(Reservation) /\ Len(rows') = Len(rows) /\ DOMAIN rows' = DOMAIN rows
      /\ \A i \in DOMAIN rows :
            /\ rows'[i].slot = rows[i].slot /\ rows'[i].order = rows[i].order
            /\ rows'[i].status = IF i \in M THEN "RELEASED" ELSE rows[i].status
  BY <1>1, MarkedAre
<1>3. /\ past' \in [Orders -> SUBSET {"cancelled", "kept"}]
      /\ \A p \in Orders : past[p] \subseteq past'[p]
      /\ past'[o] # {}
  BY <1>1 DEF TypeOK
<1>4. RowsFollow
  <2>1. \A i \in M : rows[i].order = o
    BY DEF PlaceOf
  <2>2. \A s \in Slots : slips[s] <= slips'[s]
    BY <1>1 DEF TypeOK
  <2>3. \A i \in DOMAIN rows' : rows'[i].status = "PENDING" => rows'[i].order = None
    BY <1>2 DEF Inv, FramesSound, HoldsAreFree
  <2> QED BY <1>2, <1>3, <2>1, <2>2, <2>3 DEF RowsFollow, Follows
<1>5. /\ reservedCapacity' \in [Slots -> Int]
      /\ \A s \in Slots : /\ Cardinality(In(s, M)) \in Nat
                          /\ reservedCapacity[s] <= reservedCapacity'[s] + Cardinality(In(s, M))
                          /\ reservedCapacity'[s] <= Capacity[s]
  BY <1>1, LoweredCounters
<1>6. /\ orderStatus' \in [Orders -> Statuses]
      /\ \A p \in Orders : p # o => orderStatus'[p] = orderStatus[p]
  BY <1>1 DEF TypeOK, Statuses
<1>7. TablesTyped'
  BY <1>1, <1>2, <1>3, <1>5, <1>6 DEF TypeOK, TablesTyped
<1>8. FramesSound'
  BY <1>1, <1>4, <1>7, StayFits DEF Inv
<1>9. Counted'
  <2>1. ASSUME NEW s \in Slots
        PROVE  /\ Cardinality(Held(s)') + reservedCapacity[s] + slips[s]
                  <= Cardinality(Held(s)) + reservedCapacity'[s] + slips'[s]
               /\ reservedCapacity'[s] <= Capacity[s]
    <3>1. Held(s)' = {i \in DOMAIN rows : /\ rows[i].slot = s /\ i \notin M
                                          /\ rows[i].status \in {"PENDING", "CONFIRMED"}}
      <4>1. Held(s)' = {i \in DOMAIN rows' : /\ rows'[i].slot = s
                                            /\ rows'[i].status \in {"PENDING", "CONFIRMED"}}
        BY DEF Held, Holds
      <4> QED BY <1>2, <4>1
    <3>2. Held(s)' \cap In(s, M) = {} /\ Held(s)' \cup In(s, M) \subseteq Held(s) \cup {}
      BY <1>1, <3>1 DEF Held, Holds, In, PlaceOf
    <3>3. /\ IsFiniteSet(Held(s)) /\ Cardinality(Held(s)) \in Nat
          /\ IsFiniteSet({}) /\ Cardinality({}) = 0
      BY <1>1, HeldFinite, FS_EmptySet
    <3>4. /\ Cardinality(Held(s)') + Cardinality(In(s, M)) <= Cardinality(Held(s)) + Cardinality({})
          /\ Cardinality(Held(s)') \in Nat
      BY <3>2, <3>3, Exchange
    <3>5. /\ reservedCapacity[s] \in Int /\ reservedCapacity'[s] \in Int
          /\ slips'[s] = slips[s] /\ slips[s] \in Nat
      BY <1>1, <1>5 DEF TypeOK
    <3> QED BY <1>5, <3>3, <3>4, <3>5
  <2> QED BY <1>1, <1>4, <1>7, <2>1, CountedStays DEF Inv
<1>10. Scheduled'
  BY <1>1, <1>4, <1>7, ScheduledFollows DEF Inv
<1>11. Returning'
  <2>1. \A p : PlaceOf(p)' = PlaceOf(p) \ M
    <3>1. \A p : PlaceOf(p)' = {i \in DOMAIN rows' : /\ rows'[i].order = p
                                          /\ rows'[i].status \in {"PENDING", "CONFIRMED"}}
      BY DEF PlaceOf, Holds
    <3> QED BY <1>2, <3>1 DEF PlaceOf, Holds
  <2>2. PlaceOf(o)' = {}
    BY <2>1
  <2>3. \A p \in Orders : orderStatus'[p] = "CANCELLED" =>
           \/ PlaceOf(p)' = {}
           \/ (orderStatus[p] = "CANCELLED" /\ PlaceOf(p)' \subseteq PlaceOf(p))
    BY <1>6, <2>1, <2>2
  <2> QED BY <1>1, <1>4, <2>3, ReturningStays DEF Inv
<1> QED BY <1>8, <1>9, <1>10, <1>11 DEF Inv

-----------------------------------------------------------------------------
(* The commit of an order. *)

\* What the commit of the frame f does to rows, counters and slips, whether it
\* confirms a hold or creates a row: k is the row the order gets, C the rows that
\* had changed.
Committed(f, k, C) ==
    /\ rows' \in Seq(Reservation) /\ Len(rows') <= MaxRows
    /\ DOMAIN rows' = DOMAIN rows \cup {k} /\ k \notin f.marked
    /\ rows'[k].slot = f.slot /\ rows'[k].order = f.order /\ rows'[k].status = "CONFIRMED"
    /\ k \in DOMAIN rows => rows[k].slot = f.slot /\ (rows[k].status = "PENDING" \/ k \in C)
    /\ \A i \in DOMAIN rows \ {k} :
          /\ rows'[i].slot = rows[i].slot /\ rows'[i].order = rows[i].order
          /\ rows'[i].status = IF i \in f.marked THEN "EXPIRED" ELSE rows[i].status
    /\ C \subseteq DOMAIN rows
    /\ \A i \in f.marked : rows[i].status = "PENDING" \/ i \in C
    /\ slips' = Slipped(C)
    /\ reservedCapacity' \in [Slots -> Int]
    /\ \A s \in Slots :
          /\ reservedCapacity'[s] <= Capacity[s]
          /\ reservedCapacity[s] + (IF s = f.slot /\ k \notin DOMAIN rows THEN 1 ELSE 0)
                <= reservedCapacity'[s] + Cardinality(In(s, f.marked))

LEMMA ConfirmHoldCommits ==
    ASSUME Inv, NEW f \in Frame, Fits(f, rows, slips, past), InTransaction(f),
           f.pick # 0, ConfirmHold(f)
    PROVE  \E k, C : Committed(f, k, C)
<1> SUFFICES ASSUME NEW M, M = f.marked, NEW k, k = f.pick, NEW o, o = f.order,
                    NEW C, C = Changed(M \cup {k}, {"PENDING"}),
                    NEW R, R = MarkedRows(M, "EXPIRED")
             PROVE  Committed(f, k, C)
  OBVIOUS
<1>1. /\ TypeOK /\ f.slot \in Slots /\ o \in Orders
      /\ M \subseteq DOMAIN rows /\ k \in DOMAIN rows /\ k \notin M /\ rows[k].slot = f.slot
  BY DEF Inv, FramesSound, Fits, InTransaction
<1>2. /\ R \in Seq(Reservation) /\ Len(R) = Len(rows) /\ DOMAIN R = DOMAIN rows
      /\ \A i \in DOMAIN rows :
            /\ R[i].slot = rows[i].slot /\ R[i].order = rows[i].order
            /\ R[i].status = IF i \in M THEN "EXPIRED" ELSE rows[i].status
  BY <1>1, MarkedAre
<1>3. /\ rows' = [R EXCEPT ![k].status = "CONFIRMED", ![k].order = o, ![k].timer = "null"]
      /\ reservedCapacity' = Expired(f) /\ slips' = Slipped(C)
  BY DEF ConfirmHold
<1> DEFINE r == [R[k] EXCEPT !.status = "CONFIRMED", !.order = o, !.timer = "null"]
<1>4. DOMAIN rows = 1..Len(rows) /\ Len(rows) \in Nat /\ Len(rows) <= MaxRows
  BY <1>1, RowsAreRows DEF TypeOK
<1>5. R[k] \in Reservation
  BY <1>1, <1>2, <1>4, ElementOfSeq
<1>6. /\ r \in Reservation /\ r.status = "CONFIRMED" /\ r.order = o /\ r.slot = f.slot
  BY <1>1, <1>2, <1>5 DEF Reservation
<1>7. rows' = [R EXCEPT ![k] = r]
  BY <1>1, <1>2, <1>3
<1> HIDE DEF r
<1>8. /\ rows' \in Seq(Reservation) /\ Len(rows') = Len(rows)
      /\ \A i \in 1..Len(rows) : rows'[i] = IF i = k THEN r ELSE R[i]
  BY <1>1, <1>2, <1>4, <1>6, <1>7, ExceptSeq
<1>9. DOMAIN rows' = DOMAIN rows
  BY <1>4, <1>8, LenProperties
<1>10. /\ reservedCapacity' \in [Slots -> Int]
       /\ \A s \in Slots : /\ reservedCapacity[s] <= reservedCapacity'[s] + Cardinality(In(s, M))
                           /\ reservedCapacity'[s] <= Capacity[s]
  <2>1. reservedCapacity' =
          [s \in Slots |-> IF s \in SlotsOf(M)
                           THEN MaxOf(0, reservedCapacity[s] - Cardinality(In(s, M)))
                           ELSE reservedCapacity[s]]
    BY <1>3 DEF Expired, Lowered
  <2> QED BY <1>1, <2>1, LoweredCounters
<1>11. \A s \in Slots : reservedCapacity[s] \in Int
  BY <1>1 DEF TypeOK
<1>12. /\ C \subseteq DOMAIN rows
       /\ \A i \in M \cup {k} : rows[i].status = "PENDING" \/ i \in C
  BY <1>1 DEF Changed
<1>13. \A s \in Slots :
          reservedCapacity[s] + (IF s = f.slot /\ k \notin DOMAIN rows THEN 1 ELSE 0)
            <= reservedCapacity'[s] + Cardinality(In(s, M))
  BY <1>1, <1>10, <1>11
<1>14. /\ Len(rows') <= MaxRows /\ DOMAIN rows' = DOMAIN rows \cup {k} /\ rows'[k] = r
  BY <1>1, <1>4, <1>8, <1>9
<1>15. \A i \in DOMAIN rows \ {k} :
          /\ rows'[i].slot = rows[i].slot /\ rows'[i].order = rows[i].order
          /\ rows'[i].status = IF i \in M THEN "EXPIRED" ELSE rows[i].status
  BY <1>2, <1>4, <1>8
<1>16. k \in DOMAIN rows => rows[k].slot = f.slot /\ (rows[k].status = "PENDING" \/ k \in C)
  BY <1>1, <1>12
<1>17. rows'[k].slot = f.slot /\ rows'[k].order = f.order /\ rows'[k].status = "CONFIRMED"
  BY <1>6, <1>14
<1> QED BY <1>1, <1>3, <1>8, <1>10, <1>12, <1>13, <1>14, <1>15, <1>16, <1>17 DEF Committed

LEMMA CreateConfirmedCommits ==
    ASSUME Inv, NEW f \in Frame, Fits(f, rows, slips, past), InTransaction(f),
           CreateConfirmed(f)
    PROVE  \E k, C : Committed(f, k, C)
<1> SUFFICES ASSUME NEW M, M = f.marked, NEW k, k = Len(rows) + 1, NEW o, o = f.order,
                    NEW sl, sl = f.slot,
                    NEW C, C = Changed(M, {"PENDING"}),
                    NEW R, R = MarkedRows(M, "EXPIRED"), NEW E, E = Expired(f)
             PROVE  Committed(f, k, C)
  OBVIOUS
<1>1. /\ TypeOK /\ sl \in Slots /\ o \in Orders /\ f.customer \in Customers
      /\ M \subseteq DOMAIN rows
  BY DEF Inv, FramesSound, Fits, InTransaction
<1>2. /\ R \in Seq(Reservation) /\ Len(R) = Len(rows) /\ DOMAIN R = DOMAIN rows
      /\ \A i \in DOMAIN rows :
            /\ R[i].slot = rows[i].slot /\ R[i].order = rows[i].order
            /\ R[i].status = IF i \in M THEN "EXPIRED" ELSE rows[i].status
  BY <1>1, MarkedAre
<1> DEFINE r == [slot |-> sl, customer |-> f.customer, order |-> o,
                 status |-> "CONFIRMED", timer |-> "null"]
<1>3. /\ rows' = Append(R, r) /\ Len(rows) < MaxRows /\ HasPlace(E[sl], sl)
      /\ reservedCapacity' = [E EXCEPT ![sl] = Taken(@)] /\ slips' = Slipped(C)
  BY DEF CreateConfirmed
<1>4. DOMAIN rows = 1..Len(rows) /\ Len(rows) \in Nat /\ MaxRows \in Nat
  BY <1>1, RowsAreRows, SlotsAssumption
<1>5. /\ r \in Reservation /\ r.status = "CONFIRMED" /\ r.order = o /\ r.slot = sl
  BY <1>1 DEF Reservation
<1> HIDE DEF r
<1>6. /\ rows' \in Seq(Reservation) /\ Len(rows') = k /\ rows'[k] = r
      /\ \A i \in 1..Len(rows) : rows'[i] = R[i]
  BY <1>2, <1>3, <1>5, AppendProperties
<1>7. DOMAIN rows' = DOMAIN rows \cup {k} /\ k \notin DOMAIN rows /\ Len(rows') <= MaxRows
  <2>1. DOMAIN rows' = 1..k
    BY <1>6, LenProperties
  <2> QED BY <1>3, <1>4, <1>6, <2>1
<1>8. /\ E \in [Slots -> Int]
      /\ \A s \in Slots : /\ Cardinality(In(s, M)) \in Nat
                          /\ reservedCapacity[s] <= E[s] + Cardinality(In(s, M))
                          /\ E[s] <= Capacity[s]
  <2>1. E = [s \in Slots |-> IF s \in SlotsOf(M)
                           THEN MaxOf(0, reservedCapacity[s] - Cardinality(In(s, M)))
                           ELSE reservedCapacity[s]]
    BY DEF Expired, Lowered
  <2> QED BY <1>1, <2>1, LoweredCounters
<1>9. /\ reservedCapacity' = [E EXCEPT ![sl] = E[sl] + 1] /\ E[sl] < Capacity[sl]
      /\ Capacity \in [Slots -> Nat] /\ reservedCapacity \in [Slots -> Int]
  BY <1>1, <1>3, SlotsAssumption DEF Taken, HasPlace, TypeOK
<1>10. /\ reservedCapacity' \in [Slots -> Int]
       /\ \A s \in Slots :
             /\ reservedCapacity'[s] <= Capacity[s]
             /\ reservedCapacity[s] + (IF s = sl /\ k \notin DOMAIN rows THEN 1 ELSE 0)
                  <= reservedCapacity'[s] + Cardinality(In(s, M))
  <2>1. reservedCapacity' \in [Slots -> Int]
    <3>1. E[sl] + 1 \in Int
      BY <1>1, <1>8
    <3>2. reservedCapacity' = [E EXCEPT ![sl] = E[sl] + 1]
      BY <1>9
    <3> HIDE <1>9
    <3> QED BY <1>8, <3>1, <3>2
  <2>2. ASSUME NEW s \in Slots
        PROVE  /\ reservedCapacity'[s] <= Capacity[s]
               /\ reservedCapacity[s] + (IF s = sl /\ k \notin DOMAIN rows THEN 1 ELSE 0)
                    <= reservedCapacity'[s] + Cardinality(In(s, M))
    <3>1. /\ E[s] \in Int /\ Cardinality(In(s, M)) \in Nat /\ Capacity[s] \in Int
          /\ reservedCapacity[s] \in Int
          /\ reservedCapacity[s] <= E[s] + Cardinality(In(s, M)) /\ E[s] <= Capacity[s]
      BY <1>8, <1>9
    <3>2. CASE s = sl
      <4>1. reservedCapacity'[s] = E[s] + 1 /\ E[s] < Capacity[s]
        BY <1>1, <1>8, <1>9, <3>2
      <4> QED BY <3>1, <4>1
    <3>3. CASE s # sl
      <4>1. reservedCapacity'[s] = E[s]
        BY <1>1, <1>8, <1>9, <3>3
      <4> QED BY <3>1, <3>3, <4>1
    <3> QED BY <3>2, <3>3
  <2> QED BY <2>1, <2>2
<1>11. /\ C \subseteq DOMAIN rows
       /\ \A i \in M : rows[i].status = "PENDING" \/ i \in C
  BY <1>1 DEF Changed
<1> QED BY <1>1, <1>2, <1>3, <1>4, <1>5, <1>6, <1>7, <1>10, <1>11 DEF Committed

LEMMA CommitOrderStep ==
    ASSUME Inv, NEW w \in Requests, CommitOrder(w)
    PROVE  Inv'
<1> SUFFICES ASSUME NEW f, f = request[w], NEW M, M = f.marked, NEW o, o = f.order,
                    NEW sl, sl = f.slot,
                    NEW st, st = IF f.op = "place" THEN "OPEN" ELSE "ACCEPTED_BY_HUB"
             PROVE  Inv'
  OBVIOUS
<1>1. /\ f \in Frame /\ Fits(f, rows, slips, past) /\ TypeOK /\ f.pc = "commit"
      /\ IF f.pick # 0 THEN ConfirmHold(f) ELSE CreateConfirmed(f)
      /\ scheduledSlot' = [scheduledSlot EXCEPT ![o] = sl]
      /\ orderStatus' = [orderStatus EXCEPT ![o] = st]
      /\ proposedSlot' = [proposedSlot EXCEPT ![o] = None]
      /\ Goto(w, Idle) /\ lockedBy' = Unlocked(w) /\ UNCHANGED past
  BY FrameFacts DEF Inv, FramesSound, CommitOrder, At, RollBack, Done
<1>2. /\ InTransaction(f) /\ sl \in Slots /\ o \in Orders /\ M \subseteq DOMAIN rows
      /\ f.op # "cancel"
  BY <1>1 DEF Fits, OnCourse, InTransaction
<1>3. PICK k, C : Committed(f, k, C)
  BY <1>1, <1>2, ConfirmHoldCommits, CreateConfirmedCommits
<1>4. /\ rows' \in Seq(Reservation) /\ Len(rows') <= MaxRows
      /\ DOMAIN rows' = DOMAIN rows \cup {k} /\ k \notin M
      /\ rows'[k].slot = sl /\ rows'[k].order = o /\ rows'[k].status = "CONFIRMED"
      /\ k \in DOMAIN rows => rows[k].slot = sl /\ (rows[k].status = "PENDING" \/ k \in C)
      /\ \A i \in DOMAIN rows \ {k} :
            /\ rows'[i].slot = rows[i].slot /\ rows'[i].order = rows[i].order
            /\ rows'[i].status = IF i \in M THEN "EXPIRED" ELSE rows[i].status
      /\ C \subseteq DOMAIN rows
      /\ \A i \in M : rows[i].status = "PENDING" \/ i \in C
      /\ slips' = Slipped(C)
      /\ reservedCapacity' \in [Slots -> Int]
  BY <1>3 DEF Committed
<1>5. \A s \in Slots :
         /\ reservedCapacity'[s] <= Capacity[s]
         /\ reservedCapacity[s] + (IF s = sl /\ k \notin DOMAIN rows THEN 1 ELSE 0)
               <= reservedCapacity'[s] + Cardinality(In(s, M))
  BY <1>3 DEF Committed
<1>6. /\ slips' \in [Slots -> Nat]
      /\ \A s \in Slots : /\ slips'[s] = slips[s] + Cardinality(In(s, C))
                          /\ slips'[s] >= slips[s] /\ slips[s] \in Nat
      /\ \A i \in C : slips'[rows[i].slot] > 0
  <2>1. /\ slips' \in [Slots -> Nat]
        /\ \A s \in Slots : /\ slips'[s] = slips[s] + Cardinality(In(s, C))
                            /\ slips'[s] >= slips[s]
        /\ \A i \in C : slips'[rows[i].slot] > 0
    BY <1>1, <1>4, SlipsGrow
  <2>2. \A s \in Slots : slips[s] \in Nat
    BY <1>1 DEF TypeOK
  <2> QED BY <2>1, <2>2
<1>7. RowsFollow
  <2>1. ASSUME NEW i \in DOMAIN rows
        PROVE  /\ i \in DOMAIN rows' /\ rows'[i].slot = rows[i].slot
               /\ rows'[i].order = rows[i].order \/ rows[i].order = None \/ slips'[rows[i].slot] > 0
               /\ rows[i].status = "CONFIRMED" =>
                     rows'[i].status = "CONFIRMED" \/ slips'[rows[i].slot] > 0
    <3>1. CASE i = k
      <4>1. rows[i].status = "PENDING" => rows[i].order = None
        BY DEF Inv, FramesSound, HoldsAreFree
      <4> QED BY <3>1, <4>1, <1>4, <1>6
    <3>2. CASE i # k
      BY <3>2, <1>4, <1>6
    <3> QED BY <3>1, <3>2
  <2>2. \A i \in DOMAIN rows' : rows'[i].status = "PENDING" => rows'[i].order = None
    BY <1>4 DEF Inv, FramesSound, HoldsAreFree
  <2>3. \A p \in Orders : past[p] \subseteq past'[p]
    BY <1>1
  <2> QED BY <1>6, <2>1, <2>2, <2>3 DEF RowsFollow, Follows
<1>8. /\ Idle \in Frame /\ Fits(Idle, rows', slips', past')
      /\ \A s : Dues(Idle, rows', s) = {}
  BY IdleFits
<1>9. /\ orderStatus' \in [Orders -> Statuses]
      /\ scheduledSlot' \in [Orders -> Slots \cup {None}]
      /\ proposedSlot' \in [Orders -> Slots \cup {None}]
      /\ scheduledSlot'[o] = sl /\ orderStatus'[o] # "CANCELLED"
      /\ \A p \in Orders : p # o => /\ orderStatus'[p] = orderStatus[p]
                                    /\ scheduledSlot'[p] = scheduledSlot[p]
  <2>1. st \in Statuses /\ st # "CANCELLED"
    BY DEF Statuses
  <2> QED BY <1>1, <1>2, <2>1 DEF TypeOK
<1>10. lockedBy' \in [Slots -> Requests \cup {None}] /\ LocksFollow(w, Idle)
  BY <1>1, LocksReleased
<1>11. TablesTyped'
  BY <1>1, <1>4, <1>6, <1>9, <1>10 DEF TypeOK, TablesTyped
<1>12. FramesSound'
  BY <1>1, <1>7, <1>8, <1>10, <1>11, MoveFits DEF Inv
<1>13. Counted'
  <2>1. ASSUME NEW s \in Slots
        PROVE  /\ Cardinality(Held(s)') + Cardinality(Dues(Idle, rows', s))
                     + reservedCapacity[s] + slips[s]
                  <= Cardinality(Held(s)) + Cardinality(Dues(f, rows, s))
                     + reservedCapacity'[s] + slips'[s]
               /\ reservedCapacity'[s] <= Capacity[s]
    <3> DEFINE N == IF s = sl /\ k \notin DOMAIN rows THEN {k} ELSE {}
    <3>1. Dues(f, rows, s) = {} /\ Dues(Idle, rows', s) = {} /\ Cardinality({}) = 0
      BY <1>1, <1>8, NoDues, FS_EmptySet
    <3>2. IsFiniteSet(Held(s)) /\ Cardinality(Held(s)) \in Nat
      BY <1>1, HeldFinite
    <3>3. IsFiniteSet(In(s, C)) /\ Cardinality(In(s, C)) \in Nat
      <4>1. In(s, C) \subseteq 0..MaxRows
        BY <1>1, <1>4, RowsAreRows DEF In
      <4> QED BY <4>1, RowsFinite
    <3>4. IsFiniteSet(N) /\ Cardinality(N) = IF s = sl /\ k \notin DOMAIN rows THEN 1 ELSE 0
      BY FS_Singleton, FS_EmptySet
    <3>5. Held(s)' = {i \in DOMAIN rows' : /\ rows'[i].slot = s
                                          /\ rows'[i].status \in {"PENDING", "CONFIRMED"}}
      BY DEF Held, Holds
    <3>6. Held(s)' \cap In(s, M) = {}
      BY <1>2, <1>4, <3>5 DEF In
    <3>7. Held(s)' \subseteq Held(s) \cup (In(s, C) \cup N)
      <4> SUFFICES ASSUME NEW i \in Held(s)'
                   PROVE  i \in Held(s) \cup (In(s, C) \cup N)
        OBVIOUS
      <4>1. CASE i = k
        BY <4>1, <1>4, <3>5 DEF Held, Holds, In
      <4>2. CASE i # k
        BY <4>2, <1>4, <3>5 DEF Held, Holds
      <4> QED BY <4>1, <4>2
    <3>8. In(s, M) \subseteq Held(s) \cup (In(s, C) \cup N)
      BY <1>2, <1>4 DEF In, Held, Holds
    <3> HIDE DEF N
    <3>9. /\ IsFiniteSet(In(s, C) \cup N)
          /\ Cardinality(In(s, C) \cup N) <= Cardinality(In(s, C)) + Cardinality(N)
      <4>1. /\ IsFiniteSet(In(s, C) \cup N)
            /\ Cardinality(In(s, C) \cup N)
                  = Cardinality(In(s, C)) + Cardinality(N) - Cardinality(In(s, C) \cap N)
        BY <3>3, <3>4, FS_Union
      <4>2. In(s, C) \cap N \in SUBSET In(s, C)
        OBVIOUS
      <4>3. Cardinality(In(s, C) \cap N) \in Nat
        BY <3>3, <4>2, FS_Subset, FS_CardinalityType
      <4> QED BY <3>3, <3>4, <4>1, <4>3
    <3>10. /\ Cardinality(Held(s)') + Cardinality(In(s, M))
                 <= Cardinality(Held(s)) + Cardinality(In(s, C) \cup N)
           /\ Cardinality(Held(s)') \in Nat /\ Cardinality(In(s, M)) \in Nat
           /\ Cardinality(In(s, C) \cup N) \in Nat
      <4>1. Held(s)' \cup In(s, M) \subseteq Held(s) \cup (In(s, C) \cup N)
        BY <3>7, <3>8
      <4> QED BY <3>2, <3>6, <3>9, <4>1, Exchange
    <3>11. /\ reservedCapacity[s] \in Int /\ reservedCapacity'[s] \in Int
           /\ reservedCapacity[s] + Cardinality(N) <= reservedCapacity'[s] + Cardinality(In(s, M))
           /\ reservedCapacity'[s] <= Capacity[s] /\ Cardinality(N) \in Nat
      BY <1>1, <1>4, <1>5, <3>4 DEF TypeOK
    <3> QED BY <1>6, <3>1, <3>2, <3>3, <3>9, <3>10, <3>11
  <2> QED BY <1>1, <1>7, <1>11, <2>1, CountedMoves DEF Inv
<1>14. Scheduled'
  <2>1. \A p \in Orders :
           \/ scheduledSlot'[p] = scheduledSlot[p]
           \/ \E i \in DOMAIN rows' : /\ rows'[i].slot = scheduledSlot'[p] /\ rows'[i].order = p
                                       /\ rows'[i].status = "CONFIRMED"
    BY <1>4, <1>9
  <2> QED BY <1>7, <1>11, <2>1, ScheduledFollows DEF Inv
<1>15. Returning'
  <2>1. \A p \in Orders : p # o => PlaceOf(p)' \subseteq PlaceOf(p)
    <3>1. \A p : PlaceOf(p)' = {i \in DOMAIN rows' : /\ rows'[i].order = p
                                          /\ rows'[i].status \in {"PENDING", "CONFIRMED"}}
      BY DEF PlaceOf, Holds
    <3> QED BY <1>4, <3>1 DEF PlaceOf, Holds
  <2>2. \A p : ~Returns(f, p)
    BY <1>2 DEF Returns
  <2>3. \A p \in Orders : orderStatus'[p] = "CANCELLED" =>
           /\ orderStatus[p] = "CANCELLED" /\ PlaceOf(p)' \subseteq PlaceOf(p)
           /\ ~Returns(f, p)
    BY <1>9, <2>1, <2>2
  <2> QED BY <1>1, <1>7, <2>3, ReturningMoves DEF Inv
<1> QED BY <1>12, <1>13, <1>14, <1>15 DEF Inv

-----------------------------------------------------------------------------
(* The theorems. *)

LEMMA InvInit == Init => Inv
<1> SUFFICES ASSUME Init
             PROVE  Inv
  OBVIOUS
<1>1. \A w \in Requests : request[w] = Idle
  BY DEF Init
<1>2. DOMAIN rows = {}
  BY DEF Init
<1>3. FramesFit
  BY <1>1, IdleFits DEF FramesFit
<1>4. TypeOK
  <2>1. request \in [Requests -> Frame]
    BY IdleFits DEF Init
  <2>2. rows \in Seq(Reservation) /\ Len(rows) <= MaxRows
    BY SlotsAssumption DEF Init
  <2>3. \A s \in Slots : slips[s] = 0 /\ reservedCapacity[s] = 0 /\ lockedBy[s] = None
    BY DEF Init
  <2> QED BY <2>1, <2>2, <2>3 DEF Init, TypeOK, Statuses
<1>5. Counted
  <2> SUFFICES ASSUME NEW s \in Slots
               PROVE  /\ IsFiniteSet(Debt(s))
                      /\ Cardinality(Held(s)) + Cardinality(Debt(s)) <= reservedCapacity[s] + slips[s]
                      /\ reservedCapacity[s] <= Capacity[s]
    BY DEF Counted
  <2>1. Debt(s) = {}
    BY <1>1, IdleFits DEF Debt
  <2>2. Held(s) = {}
    BY <1>2 DEF Held
  <2>3. /\ reservedCapacity[s] = 0 /\ slips[s] = 0 /\ Capacity[s] \in Nat
    BY SlotsAssumption DEF Init
  <2> QED BY <2>1, <2>2, <2>3, FS_EmptySet
<1>6. Scheduled /\ Returning /\ HoldsAreFree
  BY <1>2 DEF Init, Scheduled, Returning, HoldsAreFree
<1> QED BY <1>3, <1>4, <1>5, <1>6 DEF Inv, FramesSound

LEMMA InvNext == Inv /\ [Next]_vars => Inv'
<1> SUFFICES ASSUME Inv, [Next]_vars
             PROVE  Inv'
  OBVIOUS
<1>1. CASE UNCHANGED vars
  <2>1. /\ UNCHANGED <<slotVars, scheduledSlot, proposedSlot, lockedBy, request>>
        /\ UNCHANGED <<orderStatus, past>>
    BY <1>1 DEF vars, orderVars
  <2> QED BY <2>1, StatusStep DEF Inv, FramesSound, TypeOK
<1>2. ASSUME NEW w \in Requests,
             \/ Mark(w) \/ Decrement(w) \/ Clamp(w)
             \/ FindOwnHold(w) \/ ExtendHold(w) \/ TakePlace(w)
             \/ CreateHold(w) \/ FindHold(w) \/ CommitOrder(w) \/ Fail(w)
             \/ FindPlace(w) \/ Crash(w) \/ WriteProposal(w)
      PROVE  Inv'
  BY <1>2, MarkStep, DecrementStep, ClampStep, FindOwnHoldStep, ExtendHoldStep, TakePlaceStep,
     CreateHoldStep, FindHoldStep, CommitOrderStep, FailStep, FindPlaceStep, CrashStep,
     WriteProposalStep
<1>3. ASSUME NEW w \in Requests, NEW c \in Customers, NEW s \in HoldSlots, HoldSlot(w, c, s)
      PROVE  Inv'
  BY <1>3, HoldSlotStep
<1>4. ASSUME NEW w \in Requests, NEW o \in Orders,
             \/ AcceptReschedule(w, o) \/ CancelByHub(w, o) \/ DeclineReschedule(w, o)
             \/ \E s \in Slots : PlaceScheduled(w, o, s) \/ RequestReschedule(w, o, s)
      PROVE  Inv'
  BY <1>4, AcceptRescheduleStep, CancelByHubStep, DeclineRescheduleStep, PlaceScheduledStep,
     RequestRescheduleStep
<1>5. ASSUME NEW i \in DOMAIN rows, RunOut(i)
      PROVE  Inv'
  BY <1>5, RunOutStep
<1>6. ASSUME NEW o \in Orders,
             PlaceUnscheduled(o) \/ CancelByCustomer(o) \/ RejectByHub(o) \/ HubMoves(o)
      PROVE  Inv'
  BY <1>6, StatusSteps, CancelByCustomerStep
<1> QED BY <1>1, <1>2, <1>3, <1>4, <1>5, <1>6 DEF Next

(* The inductive invariant of the slots: a frame knows its rows, every place   *)
(* in use or owed to a counter is on it, an order in a slot has a row there,   *)
(* and the place of a cancelled order is given back or will be                 *)
(* (delivery-slot.service.ts).                                                 *)
THEOREM SlotsInvariant == Spec => []Inv
<1>1. Init => Inv
  BY InvInit
<1>2. Inv /\ [Next]_vars => Inv'
  BY InvNext
<1> QED BY <1>1, <1>2, PTL DEF Spec

(* Places counted and not yet created are part of the debt.                    *)
LEMMA InFlightIsOwed ==
    ASSUME Inv, NEW s \in Slots
    PROVE  InFlight(s) \in Nat /\ InFlight(s) <= Cardinality(Debt(s))
<1> DEFINE F == {w \in Requests : At(w, "create") /\ request[w].slot = s}
           m == [w \in F |-> <<w, 0>>]
<1>1. IsFiniteSet(Debt(s))
  BY DEF Inv, Counted
<1>2. \A w \in F : <<w, 0>> \in Debt(s)
  BY SlotsAssumption DEF Debt, Dues, At
<1>3. m \in Injection(F, Debt(s))
  <2>1. m \in [F -> Debt(s)]
    BY <1>2
  <2>2. \A v, w \in F : m[v] = m[w] => v = w
    OBVIOUS
  <2> HIDE DEF m, F
  <2> QED BY <2>1, <2>2 DEF Injection, IsInjective
<1>4. IsFiniteSet(F) /\ Cardinality(F) <= Cardinality(Debt(s))
  <2> HIDE DEF m, F
  <2> QED BY <1>1, <1>3, FS_Injection DEF ExistsInjection
<1> QED BY <1>4, FS_CardinalityType DEF InFlight

(* Whatever requests overlap, and wherever they die, the counter of a slot     *)
(* covers the places in use and those about to be created, but for writes over *)
(* rows that had changed since they were read (holdSlot,                       *)
(* expireStaleReservations, releaseOrderReservation).                          *)
THEOREM HoldsAreCounted == Spec => []HeldIsCounted
<1>1. Inv => HeldIsCounted
  <2> SUFFICES ASSUME Inv
               PROVE  HeldIsCounted
    OBVIOUS
  <2>1. TypeOK
    BY DEF Inv, FramesSound
  <2>2. ASSUME NEW s \in Slots
        PROVE  Cardinality(Held(s)) + InFlight(s) <= reservedCapacity[s] + slips[s]
    <3>1. InFlight(s) \in Nat /\ InFlight(s) <= Cardinality(Debt(s))
      BY InFlightIsOwed
    <3>2. /\ Cardinality(Held(s)) \in Nat /\ Cardinality(Debt(s)) \in Nat
          /\ Cardinality(Held(s)) + Cardinality(Debt(s)) <= reservedCapacity[s] + slips[s]
          /\ reservedCapacity[s] \in Int /\ slips[s] \in Nat
      BY <2>1, HeldFinite, FS_CardinalityType DEF Inv, Counted, TypeOK
    <3> QED BY <3>1, <3>2
  <2> QED BY <2>1, <2>2 DEF HeldIsCounted
<1> QED BY <1>1, SlotsInvariant, PTL

(* A slot is never booked beyond its capacity, but for those writes (the       *)
(* guarded increments of holdSlot and confirmReservation).                     *)
THEOREM SlotsAreNotOverbooked == Spec => []NotOverbooked
<1>1. Inv => NotOverbooked
  <2> SUFFICES ASSUME Inv, NEW s \in Slots
               PROVE  /\ reservedCapacity[s] <= Capacity[s]
                      /\ Cardinality(Held(s)) <= Capacity[s] + slips[s]
    BY DEF NotOverbooked
  <2>1. /\ Cardinality(Held(s)) \in Nat /\ Cardinality(Debt(s)) \in Nat
        /\ Cardinality(Held(s)) + Cardinality(Debt(s)) <= reservedCapacity[s] + slips[s]
        /\ reservedCapacity[s] <= Capacity[s] /\ Capacity[s] \in Nat
        /\ reservedCapacity[s] \in Int /\ slips[s] \in Nat
    BY HeldFinite, FS_CardinalityType, SlotsAssumption DEF Inv, FramesSound, Counted, TypeOK
  <2> QED BY <2>1
<1> QED BY <1>1, SlotsInvariant, PTL

(* An order scheduled in a slot keeps its confirmed place there until it is    *)
(* cancelled (confirmReservation, releaseOrderReservation).                    *)
THEOREM OrdersKeepTheirPlace == Spec => []KeepsItsPlace
<1>1. Inv => KeepsItsPlace
  BY DEF Inv, Scheduled, KeepsItsPlace, Held, Holds
<1> QED BY <1>1, SlotsInvariant, PTL

(* A cancelled order gives its place back, unless the hub rejected it or the   *)
(* one who cancelled it died on the way (CancelByCustomer, CancelByHub).       *)
THEOREM CancelledGivePlacesBack == Spec => []CancelledGivesBack
<1>1. Inv => CancelledGivesBack
  <2> SUFFICES ASSUME Inv, NEW o \in Orders, orderStatus[o] = "CANCELLED", "kept" \notin past[o],
                      NEW i \in DOMAIN rows, Holds(i), rows[i].order = o
               PROVE  \E w \in Requests : /\ request[w].op = "cancel" /\ request[w].order = o
                                          /\ request[w].pc \in {"findPlace", "mark"}
    BY DEF CancelledGivesBack
  <2>0. PlaceOf(o) # {}
    BY DEF PlaceOf
  <2>1. PICK w \in Requests : Returns(request[w], o)
    BY <2>0 DEF Inv, Returning
  <2> QED BY <2>1 DEF Returns
<1> QED BY <1>1, SlotsInvariant, PTL

(* Only a commit schedules, and not an order that has a reservation.           *)
LEMMA SchedulesOnce ==
    ASSUME Inv, [Next]_vars, NEW o \in Orders, NEW s, s = scheduledSlot[o],
           s # None, slips[s] = 0
    PROVE  scheduledSlot'[o] = s
<1>1. \E i \in DOMAIN rows : rows[i].order = o
  BY DEF Inv, Scheduled
<1>2. CASE UNCHANGED scheduledSlot
  BY <1>2
<1>3. ASSUME NEW w \in Requests, CommitOrder(w)
      PROVE  scheduledSlot'[o] = s
  <2> SUFFICES ASSUME NEW p, p = request[w].order, NEW sl, sl = request[w].slot
               PROVE  scheduledSlot'[o] = s
    OBVIOUS
  <2>1. ~Booked(p) /\ scheduledSlot' = [scheduledSlot EXCEPT ![p] = sl]
    BY <1>3 DEF CommitOrder
  <2>2. p # o
    BY <1>1, <2>1 DEF Booked
  <2>3. scheduledSlot \in [Orders -> Slots \cup {None}]
    BY DEF Inv, FramesSound, TypeOK
  <2> QED BY <2>1, <2>2, <2>3
<1>4. ASSUME NEW w \in Requests,
             \/ Mark(w) \/ Decrement(w) \/ Clamp(w) \/ FindOwnHold(w) \/ ExtendHold(w)
             \/ TakePlace(w) \/ CreateHold(w) \/ FindHold(w) \/ Fail(w) \/ FindPlace(w)
             \/ Crash(w) \/ WriteProposal(w)
      PROVE  UNCHANGED scheduledSlot
  BY <1>4 DEF orderVars, Mark, Decrement, Clamp, FindOwnHold, ExtendHold, TakePlace,
              CreateHold, FindHold, Fail, FindPlace, Crash, WriteProposal
<1>5. ASSUME NEW w \in Requests, NEW c \in Customers, NEW t \in HoldSlots, HoldSlot(w, c, t)
      PROVE  UNCHANGED scheduledSlot
  BY <1>5 DEF HoldSlot, orderVars
<1>6. ASSUME NEW w \in Requests, NEW p \in Orders,
             \/ AcceptReschedule(w, p) \/ CancelByHub(w, p) \/ DeclineReschedule(w, p)
             \/ \E t \in Slots : PlaceScheduled(w, p, t) \/ RequestReschedule(w, p, t)
      PROVE  UNCHANGED scheduledSlot
  BY <1>6 DEF orderVars, AcceptReschedule, CancelByHub, DeclineReschedule, PlaceScheduled,
              RequestReschedule
<1>7. ASSUME NEW i \in DOMAIN rows, RunOut(i)
      PROVE  UNCHANGED scheduledSlot
  BY <1>7 DEF RunOut, orderVars
<1>8. ASSUME NEW p \in Orders,
             PlaceUnscheduled(p) \/ CancelByCustomer(p) \/ RejectByHub(p) \/ HubMoves(p)
      PROVE  UNCHANGED scheduledSlot
  BY <1>8 DEF PlaceUnscheduled, CancelByCustomer, RejectByHub, HubMoves
<1>9. CASE UNCHANGED vars
  BY <1>2, <1>9 DEF vars, orderVars
<1> QED BY <1>2, <1>3, <1>4, <1>5, <1>6, <1>7, <1>8, <1>9 DEF Next

(* An order that has a slot is never moved to another, as long as nobody has   *)
(* confirmed its reservation over it (acceptReschedule meets the unique        *)
(* orderId of the first reservation).                                          *)
THEOREM SchedulesAreFinal == Spec => ScheduleIsFinal
<1>1. Inv /\ [Next]_vars =>
         (\A o \in Orders : LET s == scheduledSlot[o]
                            IN  s # None /\ slips[s] = 0 => scheduledSlot'[o] = s)
  BY SchedulesOnce
<1> QED BY <1>1, SlotsInvariant, PTL DEF Spec, ScheduleIsFinal

=============================================================================
