------------------------ MODULE LoyaltyLedgerProofs ------------------------
(***************************************************************************)
(* Proofs about LoyaltyLedger, for every number of requests and orders and *)
(* every length of the ledger.  Two invariants: Account, of the columns,   *)
(* the lots and the lock (from it the balance, the order in which lots are *)
(* spent and the refinement of AccountBook), and Returns, of the points of *)
(* each order, from its checkout to its cancellation.                      *)
(***************************************************************************)
EXTENDS LoyaltyLedger, SumLaws, SequenceTheorems

(* A redemption takes points, an earning gives them.                          *)
EntrySound(e) == /\ e.type = "REDEEM" => ~e.credit
                 /\ e.type = "EARN" => e.credit

(* What a request between two steps may rely on.                              *)
FrameGood(f) ==
    /\ f.pc = "write" => /\ f.opening = availablePoints
                         /\ f.found = (f.entry.ref \in Booked)
    /\ f.pc \in {"lock", "write"} => /\ EntrySound(f.entry)
                                     /\ f.next \in {"idle", "updateOrder", "findEarn"}
    /\ \/ f.pc \in {"redeemBalance", "updateOrder", "refund", "findEarn"}
       \/ f.pc \in {"lock", "write"} /\ f.next # "idle"
       => f.order \in Orders
    /\ f.pc = "redeemBalance" => f.points # 0

(* The inductive invariant: BalanceAgrees needs that what the holder of the   *)
(* lock has read is still so.                                                 *)
Account ==
    /\ BalanceAgrees
    /\ \A w \in Requests : /\ request[w].pc = "write" <=> lockedBy = w
                           /\ FrameGood(request[w])

(* The request has an entry to book.                                          *)
Booking(f) == f.pc \in {"lock", "write"}

(* The order has been placed.                                                 *)
Known(o) == orderStatus[o] # "none"

(* What a request that returns, takes or moves the points of an order may     *)
(* rely on.                                                                   *)
FramePays(f) ==
    LET e == f.entry
        o == f.order
    IN  /\ o # None /\ ~Known(o) => Booking(f) /\ e.ref = Ref("redeem", o) /\ f.next = "idle"
        /\ f.pc \in {"redeemBalance", "updateOrder"} => CheckoutPoints[o] = 0
        /\ Booking(f) /\ f.next = "updateOrder" => CheckoutPoints[o] = 0
        /\ Booking(f) /\ e.type = "REDEEM" /\ o # None => e.ref = Ref("redeem", o)
        /\ \A x \in Orders :
             /\ Booking(f) /\ e.ref = Ref("redeem", x) =>
                  /\ o = x /\ e.type = "REDEEM"
                  /\ f.next = "idle" => e.points = CheckoutPoints[x] /\ ~Known(x)
                  /\ f.next # "idle" => f.next = "updateOrder"
             /\ Booking(f) /\ e.ref = Ref("refundRestore", x) /\ CheckoutPoints[x] # 0 =>
                  e.points = CheckoutPoints[x] /\ Known(x)
             /\ Booking(f) /\ e.ref = Ref("earnReversal", x) =>
                  e.points \in PointsFor("orderEarned", x)

(* No other request works for an order that is still being placed.            *)
OnePlacement ==
    \A v, w \in Requests : v # w /\ request[v].order = request[w].order
        /\ request[v].order # None => Known(request[v].order)

(* An order placed with points: they are in the ledger from the moment it is  *)
(* known, they are what the order says, and no other number is booked for it. *)
PaidByPoints(o) ==
    /\ Known(o) <=> PointsFor("redeem", o) # {}
    /\ ~Known(o) => PointsFor("refundRestore", o) = {}
    /\ Known(o) => pointsUsed[o] = CheckoutPoints[o]
    /\ PointsFor("redeem", o) \cup PointsFor("refundRestore", o) \subseteq {CheckoutPoints[o]}

(* The second inductive invariant, which ReturnsWhatWasTaken needs.           *)
Returns ==
    /\ \A w \in Requests : FramePays(request[w])
    /\ OnePlacement
    /\ \A o \in Orders : CheckoutPoints[o] # 0 => PaidByPoints(o)
    /\ \A o \in Orders : PointsFor("earnReversal", o) \subseteq PointsFor("orderEarned", o)

(* Min of two numbers, as consumePointsFromLots computes what one lot gives.  *)
LEMMA MinOfTwo ==
    ASSUME NEW a \in Nat, NEW b \in Nat
    PROVE  Min({a, b}) = IF a <= b THEN a ELSE b
<1> DEFINE m == IF a <= b THEN a ELSE b
<1>1. m \in {a, b} /\ \A y \in {a, b} : m <= y
  OBVIOUS
<1>2. \A x \in {a, b} : (\A y \in {a, b} : x <= y) => x = m
  OBVIOUS
<1> HIDE DEF m
<1>3. (CHOOSE x \in {a, b} : \A y \in {a, b} : x <= y) = m
  BY <1>1, <1>2
<1> QED BY <1>3 DEF Min, m

(* What older lots hold, and what lot i gives of p points.                    *)
Older(rem, lots, i) == SumOf(rem, {j \in lots : j < i})
Taken(rem, lots, p, i) ==
    IF i \in lots /\ p > Older(rem, lots, i)
    THEN Min({rem[i], p - Older(rem, lots, i)}) ELSE 0

(* A lot gives no more than it has, and, when it is its turn, the less of     *)
(* what it has and what is still to be paid.                                  *)
LEMMA TakenBounds ==
    ASSUME NEW n \in Nat, NEW rem \in [1..n -> Nat], NEW lots \in SUBSET (1..n),
           NEW p \in Nat, NEW i \in 1..n
    PROVE  /\ Older(rem, lots, i) \in Nat
           /\ Taken(rem, lots, p, i) \in 0..rem[i]
           /\ i \in lots /\ p > Older(rem, lots, i) =>
                Taken(rem, lots, p, i) = IF rem[i] <= p - Older(rem, lots, i) THEN rem[i]
                                         ELSE p - Older(rem, lots, i)
<1> DEFINE o == Older(rem, lots, i)
<1>1. o \in Nat
  <2> DEFINE U == {j \in lots : j < i}
  <2>1. IsFiniteSet(1..n)
    BY FS_Interval
  <2>2. \A y \in 1..n : rem[y] \in Nat
    OBVIOUS
  <2>3. U \in SUBSET (1..n)
    OBVIOUS
  <2> HIDE DEF U
  <2>4. SumOf(rem, U) \in Nat
    BY <2>1, <2>2, <2>3, SumOfPart
  <2> QED BY <2>4 DEF Older, U
<1> HIDE DEF o
<1>3. rem[i] \in Nat
  OBVIOUS
<1>4. CASE i \in lots /\ p > o
  <2>1. p - o \in Nat
    BY <1>1, <1>4
  <2>2. Min({rem[i], p - o}) = IF rem[i] <= p - o THEN rem[i] ELSE p - o
    BY <1>3, <2>1, MinOfTwo
  <2> QED BY <1>1, <1>3, <1>4, <2>1, <2>2 DEF Taken, o
<1>5. CASE ~(i \in lots /\ p > o)
  BY <1>1, <1>3, <1>5 DEF Taken, o
<1> QED BY <1>4, <1>5, <1>1 DEF o

(* The arithmetic of one turn of the loop of consumePointsFromLots: s is in   *)
(* the older lots, r in this one.                                             *)
LEMMA PayingStep ==
    ASSUME NEW p \in Nat, NEW s \in Nat, NEW r \in Nat
    PROVE  (IF p <= s + r THEN p ELSE s + r) =
           (IF p <= s THEN p ELSE s)
               + (IF p > s THEN (IF r <= p - s THEN r ELSE p - s) ELSE 0)
  OBVIOUS

(* When the lots hold enough, the loop of consumePointsFromLots leaves no lot *)
(* negative and takes exactly p points: by induction over the lots.           *)
LEMMA Paying ==
    ASSUME NEW n \in Nat, NEW rem \in [1..n -> Nat], NEW lots \in SUBSET (1..n),
           NEW p \in Nat, p <= SumOf(rem, lots),
           NEW left, \A i \in 1..n : left[i] = rem[i] - Taken(rem, lots, p, i)
    PROVE  /\ \A i \in 1..n : left[i] \in Nat
           /\ SumOf(left, 1..n) = SumOf(rem, 1..n) - p
<1> DEFINE up(k) == {j \in lots : j < k + 1}
           paid(k) == IF p <= SumOf(rem, up(k)) THEN p ELSE SumOf(rem, up(k))
           G == {k \in Nat : k <= n => SumOf(left, 1..k) = SumOf(rem, 1..k) - paid(k)}
<1>1. ASSUME NEW i \in 1..n
      PROVE  left[i] \in Nat
  <2>1. rem[i] \in Nat /\ Taken(rem, lots, p, i) \in 0..rem[i]
    BY TakenBounds
  <2> QED BY <2>1
<1>2. \A U \in SUBSET (1..n) : /\ IsFiniteSet(U)
                               /\ SumOf(rem, U) \in Nat
                               /\ SumOf(left, U) \in Nat
  <2>1. IsFiniteSet(1..n)
    BY FS_Interval
  <2>2. \A i \in 1..n : rem[i] \in Nat /\ left[i] \in Nat
    BY <1>1
  <2> QED BY <2>1, <2>2, FS_Subset, SumNatural
<1>3. 0 \in G
  <2>1. \A j \in lots : ~(j < 0 + 1)
    OBVIOUS
  <2>2. up(0) = {}
    BY <2>1
  <2>3. 1..0 = {}
    OBVIOUS
  <2>4. SumOf(left, 1..0) = 0 /\ SumOf(rem, 1..0) = 0 /\ SumOf(rem, up(0)) = 0
    BY <2>2, <2>3, SumEmpty
  <2>5. paid(0) = 0
    BY <2>4
  <2> HIDE DEF paid
  <2> QED BY <2>4, <2>5
<1>4. ASSUME NEW k \in Nat, k \in G, k + 1 <= n
      PROVE  SumOf(left, 1..(k + 1)) = SumOf(rem, 1..(k + 1)) - paid(k + 1)
  <2> DEFINE i == k + 1
             s == SumOf(rem, up(k))
  <2>a. i \in 1..n /\ 1..i = (1..k) \cup {i} /\ i \notin 1..k
    BY <1>4
  <2>b. up(k) \subseteq 1..n /\ i \notin up(k)
    <3>1. up(k) \subseteq lots
      OBVIOUS
    <3>2. i \notin up(k)
      OBVIOUS
    <3> HIDE DEF up, i
    <3> QED BY <3>1, <3>2
  <2>c. s = Older(rem, lots, i)
    BY DEF Older
  <2>d. 1..k \subseteq 1..n
    BY <1>4
  <2>0. i \in 1..n /\ 1..i = (1..k) \cup {i} /\ i \notin 1..k /\ 1..k \in SUBSET (1..n)
        /\ up(k) \in SUBSET (1..n) /\ i \notin up(k)
    <3> HIDE DEF i, up
    <3> QED BY <2>a, <2>b, <2>d
  <2>e. \A y \in 1..n : rem[y] \in Int /\ left[y] \in Int
    BY <1>1
  <2>f. \A U \in SUBSET (1..n) : i \notin U =>
           /\ SumOf(left, U \cup {i}) = SumOf(left, U) + left[i]
           /\ SumOf(rem, U \cup {i}) = SumOf(rem, U) + rem[i]
    <3> HIDE DEF i
    <3> DEFINE D == 1..n
    <3>1. IsFiniteSet(D) /\ i \in D
      BY <2>0, <2>e, FS_Interval
    <3>a. \A y \in D : left[y] \in Int
      BY <2>0, <2>e
    <3>b. \A y \in D : rem[y] \in Int
      BY <2>0, <2>e
    <3> HIDE DEF D
    <3>2. \A U \in SUBSET D : i \notin U => SumOf(left, U \cup {i}) = SumOf(left, U) + left[i]
      BY <3>1, <3>a, SumAddWithin
    <3>3. \A U \in SUBSET D : i \notin U => SumOf(rem, U \cup {i}) = SumOf(rem, U) + rem[i]
      BY <3>1, <3>b, SumAddWithin
    <3> QED BY <3>2, <3>3 DEF D
  <2>1. SumOf(left, 1..i) = SumOf(left, 1..k) + left[i]
    BY <2>0, <2>f
  <2>2. SumOf(rem, 1..i) = SumOf(rem, 1..k) + rem[i]
    BY <2>0, <2>f
  <2>3. SumOf(left, 1..k) = SumOf(rem, 1..k) - paid(k)
    BY <1>4
  <2>4. left[i] = rem[i] - Taken(rem, lots, p, i)
    BY <2>0
  <2>5. /\ SumOf(rem, 1..k) \in Nat /\ SumOf(left, 1..k) \in Nat /\ s \in Nat
        /\ rem[i] \in Nat /\ left[i] \in Nat /\ Taken(rem, lots, p, i) \in Int
    <3>1. Taken(rem, lots, p, i) \in 0..rem[i]
      BY <2>0, TakenBounds
    <3>2. rem[i] \in Nat /\ left[i] \in Nat
      BY <1>1, <2>0
    <3>3. SumOf(rem, 1..k) \in Nat /\ SumOf(left, 1..k) \in Nat /\ s \in Nat
      <4> HIDE DEF up, i
      <4> QED BY <1>2, <2>0
    <3> HIDE DEF s, i
    <3> QED BY <3>1, <3>2, <3>3
  <2>6. paid(i) = paid(k) + Taken(rem, lots, p, i)
    <3>1. CASE i \in lots
      <4>1. up(i) = up(k) \cup {i}
        <5>1. \A j \in lots : j < i + 1 <=> j < k + 1 \/ j = i
          BY DEF i
        <5> HIDE DEF i
        <5> QED BY <5>1, <3>1
      <4>2. SumOf(rem, up(i)) = s + rem[i]
        BY <2>0, <2>f, <4>1
      <4>3. paid(k) = (IF p <= s THEN p ELSE s)
            /\ paid(i) = (IF p <= s + rem[i] THEN p ELSE s + rem[i])
        BY <4>2
      <4> HIDE DEF s, paid, up, i
      <4>6. (IF p <= s + rem[i] THEN p ELSE s + rem[i]) =
            (IF p <= s THEN p ELSE s)
                + (IF p > s THEN (IF rem[i] <= p - s THEN rem[i] ELSE p - s) ELSE 0)
        BY <2>5, PayingStep
      <4>4. CASE p > s
        <5>1. Taken(rem, lots, p, i) = IF rem[i] <= p - s THEN rem[i] ELSE p - s
          <6>1. p > Older(rem, lots, i) /\ i \in 1..n
            BY <4>4, <2>c, <2>0
          <6>2. Taken(rem, lots, p, i) = IF rem[i] <= p - Older(rem, lots, i) THEN rem[i]
                                         ELSE p - Older(rem, lots, i)
            BY <3>1, <6>1, TakenBounds
          <6> QED BY <6>2, <2>c
        <5> QED BY <4>3, <4>4, <4>6, <5>1
      <4>5. CASE ~(p > s)
        <5>1. Taken(rem, lots, p, i) = 0
          BY <2>0, <2>c, <4>5 DEF Taken
        <5> QED BY <4>3, <4>5, <4>6, <5>1
      <4> QED BY <4>4, <4>5
    <3>2. CASE i \notin lots
      <4>1. up(i) = up(k)
        <5>1. \A j \in lots : j < i + 1 <=> j < k + 1 \/ j = i
          BY DEF i
        <5> HIDE DEF i
        <5> QED BY <5>1, <3>2
      <4>2. Taken(rem, lots, p, i) = 0
        BY <3>2 DEF Taken
      <4>3. SumOf(rem, up(i)) = s
        BY <4>1
      <4>4. paid(i) = paid(k)
        BY <4>3
      <4>5. paid(k) \in Int
        <5> HIDE DEF up, i
        <5> QED BY <2>5
      <4> HIDE DEF i, paid
      <4> QED BY <4>2, <4>4, <4>5
    <3> QED BY <3>1, <3>2
  <2>7. paid(k) \in Int
    BY <2>5
  <2> HIDE DEF i, paid
  <2>8. SumOf(left, 1..i) = SumOf(rem, 1..i) - paid(i)
    BY <2>1, <2>2, <2>3, <2>4, <2>5, <2>6, <2>7
  <2> QED BY <2>8 DEF i
<1>5. \A k \in Nat : k \in G => k + 1 \in G
  BY <1>4
<1>6. n \in G
  <2> HIDE DEF G
  <2> QED BY <1>3, <1>5, NumberInduction
<1>7. up(n) = lots
  <2>1. \A j \in lots : j < n + 1
    OBVIOUS
  <2> QED BY <2>1
<1>8. SumOf(left, 1..n) = SumOf(rem, 1..n) - paid(n)
  BY <1>6
<1>9. paid(n) = p
  BY <1>7
<1> QED BY <1>1, <1>8, <1>9

(* A lot that is not emptied by a payment ends it: the lots after it give     *)
(* nothing.                                                                   *)
LEMMA YoungerUntouched ==
    ASSUME NEW n \in Nat, NEW rem \in [1..n -> Nat], NEW lots \in SUBSET (1..n),
           NEW p \in Nat, NEW i \in lots, NEW j \in 1..n, i < j,
           Taken(rem, lots, p, i) < rem[i]
    PROVE  Taken(rem, lots, p, j) = 0
<1> DEFINE a == Older(rem, lots, i)
           b == Older(rem, lots, j)
<1>0. \A U \in SUBSET (1..n) : IsFiniteSet(U) /\ \A y \in U : rem[y] \in Nat
  <2>1. IsFiniteSet(1..n)
    BY FS_Interval
  <2>2. \A U \in SUBSET (1..n) : IsFiniteSet(U)
    BY <2>1, FS_Subset
  <2> QED BY <2>2
<1>1. a + rem[i] <= b
  <2> DEFINE U == {k \in lots : k < i}
             V == {k \in lots : k < j}
  <2>1. U \cup {i} \in SUBSET V /\ i \notin U /\ V \in SUBSET (1..n) /\ U \cup {i} \in SUBSET (1..n)
        /\ U \in SUBSET (1..n)
    <3>1. i \in 1..n /\ lots \subseteq 1..n
      OBVIOUS
    <3>2. U \subseteq lots /\ V \subseteq lots /\ i \notin U /\ i \in V
      BY <3>1
    <3>3. \A k \in lots : k < i => k < j
      BY <3>1
    <3>4. U \subseteq V
      BY <3>3
    <3> HIDE DEF U, V
    <3> QED BY <3>1, <3>2, <3>4
  <2>2. SumOf(rem, U \cup {i}) = SumOf(rem, U) + rem[i]
    <3> HIDE DEF U, V
    <3>1. IsFiniteSet(U) /\ \A y \in U \cup {i} : rem[y] \in Int
      BY <1>0, <2>1
    <3> QED BY <3>1, <2>1, SumAdd
  <2>3. SumOf(rem, U \cup {i}) <= SumOf(rem, V)
    BY <1>0, <2>1, SumOfPart
  <2> QED BY <2>2, <2>3 DEF Older
<1>2. a \in Nat /\ b \in Nat /\ rem[i] \in Nat
  BY TakenBounds
<1>3. p < a + rem[i]
  <2>1. CASE p > a
    <3>1. Taken(rem, lots, p, i) = IF rem[i] <= p - a THEN rem[i] ELSE p - a
      BY <2>1, TakenBounds
    <3> HIDE DEF a
    <3>2. p - a < rem[i]
      BY <1>2, <2>1, <3>1
    <3> QED BY <1>2, <3>2
  <2>2. CASE ~(p > a)
    <3>1. rem[i] > 0
      BY <1>2, <2>2 DEF Taken
    <3> HIDE DEF a
    <3> QED BY <1>2, <2>2, <3>1
  <2> QED BY <2>1, <2>2
<1> HIDE DEF a, b
<1>4. ~(p > b)
  BY <1>1, <1>2, <1>3
<1> QED BY <1>4 DEF Taken, b

-----------------------------------------------------------------------------
(* The remaining points, row by row.                                          *)
Remaining(rows) == [i \in DOMAIN rows |-> rows[i].remaining]

(* Left, of any rows.                                                         *)
LeftOf(rows, lots) == MapThenSumSet(LAMBDA i : rows[i].remaining, lots)

(* Left is a sum over the rows of the ledger ...                              *)
LEMMA LeftNow == ASSUME NEW lots PROVE Left(lots) = LeftOf(ledger, lots)
  BY DEF Left, LeftOf, MapThenSumSet, MapThenFoldSet

(* ... in the next state as well.                                             *)
LEMMA LeftNext == ASSUME NEW lots PROVE Left(lots)' = LeftOf(ledger', lots)
  BY DEF Left, LeftOf, MapThenSumSet, MapThenFoldSet

(* What is left of lots is the sum of their remaining points, in the sense of *)
(* SumLaws.                                                                   *)
LEMMA LeftIsSum ==
    ASSUME NEW rows, NEW lots \in SUBSET DOMAIN rows, IsFiniteSet(lots)
    PROVE  LeftOf(rows, lots) = SumOf(Remaining(rows), lots)
<1> DEFINE pick(s) == CHOOSE x \in s : TRUE
           Adds(it) == it = [s \in SUBSET lots |->
                         IF s = {} THEN 0 ELSE rows[pick(s)].remaining + it[s \ {pick(s)}]]
           table == CHOOSE it : Adds(it)
<1>1. LeftOf(rows, lots) = table[lots]
  BY DEF LeftOf, MapThenSumSet, MapThenFoldSet
<1>2. \A it : Adds(it) <=> SumsUp(it, Remaining(rows), SUBSET lots)
  <2> TAKE it
  <2>1. \A s \in SUBSET lots : s # {} => Remaining(rows)[Some(s)] = rows[pick(s)].remaining
    BY DEF Remaining, Some
  <2>2. \A s \in SUBSET lots : pick(s) = Some(s)
    BY DEF Some
  <2> HIDE DEF pick
  <2> QED BY <2>1, <2>2 DEF SumsUp
<1>3. PICK it : SumsUp(it, Remaining(rows), SUBSET lots)
  BY TableExists
<1> HIDE DEF Adds
<1>4. Adds(table)
  BY <1>2, <1>3
<1>5. SumsUp(table, Remaining(rows), SUBSET lots)
  BY <1>2, <1>4
<1> HIDE DEF table
<1> QED BY <1>1, <1>5, SumFromTable

(* The rows of a ledger are finite in number, and the sums over them are      *)
(* natural.                                                                   *)
LEMMA LedgerFacts ==
    ASSUME TypeOK
    PROVE  /\ Len(ledger) \in Nat /\ DOMAIN ledger = 1..Len(ledger)
           /\ IsFiniteSet(DOMAIN ledger)
           /\ Remaining(ledger) \in [1..Len(ledger) -> Nat]
           /\ Lots \in SUBSET (1..Len(ledger))
           /\ \A U \in SUBSET (1..Len(ledger)) : Left(U) = SumOf(Remaining(ledger), U)
<1>1. Len(ledger) \in Nat /\ DOMAIN ledger = 1..Len(ledger) /\ \A i \in 1..Len(ledger) : ledger[i] \in Row
  BY DEF TypeOK
<1>2. IsFiniteSet(DOMAIN ledger)
  BY <1>1, FS_Interval
<1>3. Remaining(ledger) \in [1..Len(ledger) -> Nat]
  BY <1>1 DEF Remaining, Row
<1>4. Lots \in SUBSET (1..Len(ledger))
  BY <1>1 DEF Lots
<1>5. ASSUME NEW U \in SUBSET DOMAIN ledger
      PROVE  Left(U) = SumOf(Remaining(ledger), U)
  <2>1. IsFiniteSet(U)
    BY <1>2, FS_Subset
  <2> QED BY <2>1, LeftNow, LeftIsSum
<1> QED BY <1>1, <1>2, <1>3, <1>4, <1>5

(* Consumed, of the model, is Taken, of the lemmas above.                     *)
LEMMA ConsumedIsTaken ==
    ASSUME TypeOK, NEW p \in Nat, NEW i \in DOMAIN ledger
    PROVE  Consumed(p, i) = Taken(Remaining(ledger), Lots, p, i)
<1> DEFINE U == {j \in Lots : j < i}
<1>1. U \in SUBSET (1..Len(ledger))
  BY LedgerFacts
<1>2. Left(U) = Older(Remaining(ledger), Lots, i)
  BY <1>1, LedgerFacts DEF Older
<1>3. Remaining(ledger)[i] = ledger[i].remaining
  BY DEF Remaining
<1> HIDE DEF U
<1>4. Consumed(p, i) = IF i \in Lots /\ p > Left(U)
                       THEN Min({ledger[i].remaining, p - Left(U)}) ELSE 0
  BY DEF Consumed, U
<1> QED BY <1>2, <1>3, <1>4 DEF Taken

(* Paying for an entry takes exactly its points from the lots. *)
LEMMA PaidSound ==
    ASSUME TypeOK, NEW f \in Frame, Affordable(f),
           availablePoints = Left(DOMAIN ledger)
    PROVE  /\ PaidLots(f) \in Seq(Row) /\ Len(PaidLots(f)) = Len(ledger)
           /\ \A i \in DOMAIN ledger :
                PaidLots(f)[i] = [ledger[i] EXCEPT !.remaining = PaidLots(f)[i].remaining]
           /\ SumOf(Remaining(PaidLots(f)), DOMAIN ledger) =
                IF f.entry.credit THEN availablePoints ELSE availablePoints - f.entry.points
           /\ ~f.entry.credit => availablePoints - f.entry.points \in Nat
<1> DEFINE n == Len(ledger)
           rem == Remaining(ledger)
           p == f.entry.points
           left == [i \in DOMAIN ledger |-> rem[i] - Taken(rem, Lots, p, i)]
<1>0. p \in Nat
  BY DEF Frame, Entry
<1>1. availablePoints = SumOf(rem, DOMAIN ledger)
  BY LedgerFacts
<1>2. CASE f.entry.credit
  <2>1. PaidLots(f) = ledger
    BY <1>2 DEF PaidLots
  <2>2. \A i \in DOMAIN ledger : ledger[i] \in Row
    BY DEF TypeOK
  <2>3. \A i \in DOMAIN ledger : ledger[i] = [ledger[i] EXCEPT !.remaining = ledger[i].remaining]
    BY <2>2 DEF Row
  <2> QED BY <1>1, <1>2, <2>1, <2>3 DEF TypeOK
<1>3. CASE ~f.entry.credit
  <2>1. p <= SumOf(rem, Lots)
    BY <1>3, LedgerFacts DEF Affordable, NonExpiredBalance
  <2>2. rem \in [1..n -> Nat] /\ Lots \in SUBSET (1..n) /\ n \in Nat /\ DOMAIN ledger = 1..n
    BY LedgerFacts
  <2>3. /\ \A i \in 1..n : left[i] \in Nat
        /\ SumOf(left, 1..n) = SumOf(rem, 1..n) - p
    <3>1. \A i \in 1..n : left[i] = rem[i] - Taken(rem, Lots, p, i)
      BY <2>2
    <3> HIDE DEF left, rem, n, p
    <3> QED BY <1>0, <2>1, <2>2, <3>1, Paying
  <2>4. PaidLots(f) = [i \in DOMAIN ledger |-> [ledger[i] EXCEPT !.remaining = left[i]]]
    <3>1. \A i \in DOMAIN ledger : ledger[i].remaining - Consumed(p, i) = left[i]
      BY <1>0, ConsumedIsTaken DEF Remaining
    <3> HIDE DEF left
    <3> QED BY <1>3, <3>1 DEF PaidLots
  <2>5. \A i \in DOMAIN ledger : ledger[i] \in Row
    BY DEF TypeOK
  <2>6. \A i \in DOMAIN ledger : /\ PaidLots(f)[i] \in Row
                                 /\ PaidLots(f)[i].remaining = left[i]
    <3> TAKE i \in DOMAIN ledger
    <3>1. left[i] \in Nat
      BY <2>2, <2>3
    <3> HIDE DEF left
    <3>2. PaidLots(f)[i] = [ledger[i] EXCEPT !.remaining = left[i]]
      BY <2>4
    <3>3. ledger[i] \in Row
      BY <2>5
    <3> QED BY <3>1, <3>2, <3>3 DEF Row
  <2>7. PaidLots(f) \in Seq(Row) /\ Len(PaidLots(f)) = n
    <3>1. PaidLots(f) \in [1..n -> Row]
      BY <2>2, <2>4, <2>6
    <3> QED BY <3>1, <2>2
  <2>8. SumOf(Remaining(PaidLots(f)), DOMAIN ledger) = SumOf(left, DOMAIN ledger)
    <3>1. IsFiniteSet(DOMAIN ledger)
      BY LedgerFacts
    <3>2. \A i \in DOMAIN ledger : Remaining(PaidLots(f))[i] = left[i]
      BY <2>4, <2>6 DEF Remaining
    <3> HIDE DEF left
    <3> QED BY <3>1, <3>2, SumSame
  <2>9. availablePoints - p \in Nat
    <3>1. SumOf(left, 1..n) \in Nat
      <4>1. IsFiniteSet(1..n)
        BY <2>2, FS_Interval
      <4> HIDE DEF left, n
      <4> QED BY <4>1, <2>3, SumNatural
    <3> QED BY <3>1, <2>2, <2>3, <1>1
  <2> QED BY <1>1, <1>3, <2>2, <2>3, <2>4, <2>6, <2>7, <2>8, <2>9
<1> QED BY <1>2, <1>3

-----------------------------------------------------------------------------
(* What the invariant says of one request.                                    *)
LEMMA FrameOf ==
    ASSUME Account, NEW w \in Requests
    PROVE  /\ request[w] \in Frame /\ FrameGood(request[w])
           /\ request[w].pc = "write" <=> lockedBy = w
  BY DEF Account, BalanceAgrees, TypeOK

(* An idle request relies on nothing.                                         *)
LEMMA IdleFrame == Idle \in Frame /\ Idle.pc = "idle" /\ FrameGood(Idle)
<1>1. NoEntry \in Entry
  BY DEF NoEntry, Entry, NoRef, Ref, Refs
<1>2. Idle \in Frame /\ Idle.pc = "idle"
  BY <1>1 DEF Idle, Frame, Labels
<1> QED BY <1>2 DEF FrameGood, Idle

(* A request that goes on changes its own frame only.                         *)
LEMMA GotoFrame ==
    ASSUME TypeOK, NEW w \in Requests, NEW g \in Frame, Goto(w, g)
    PROVE  /\ request' \in [Requests -> Frame]
           /\ request'[w] = g
           /\ \A v \in Requests \ {w} : request'[v] = request[v]
  BY DEF TypeOK, Goto

(* A step that leaves the account's columns and the ledger alone leaves them  *)
(* in agreement.                                                              *)
LEMMA SameBooks ==
    ASSUME Account, UNCHANGED accountVars, TypeOK'
    PROVE  BalanceAgrees'
<1>1. Left(DOMAIN ledger)' = Left(DOMAIN ledger)
  BY LeftNow, LeftNext DEF accountVars
<1> QED BY <1>1 DEF Account, BalanceAgrees, accountVars

(* A step of a request that books nothing keeps the invariant, when the row   *)
(* of the account is locked and unlocked with the frames.                     *)
LEMMA QuietStep ==
    ASSUME Account, NEW w \in Requests, NEW g \in Frame, FrameGood(g), Goto(w, g),
           UNCHANGED <<accountVars, lapsed>>,
           orderStatus' \in [Orders -> Statuses], pointsUsed' \in [Orders -> Nat],
           \/ lockedBy' = lockedBy /\ (g.pc = "write" <=> request[w].pc = "write")
           \/ lockedBy = None /\ lockedBy' = w /\ g.pc = "write"
           \/ Unlock(w) /\ g.pc # "write"
    PROVE  Account'
<1>1. TypeOK
  BY DEF Account, BalanceAgrees
<1>2. TypeOK'
  BY <1>1, GotoFrame DEF TypeOK, accountVars, Unlock
<1>3. BalanceAgrees'
  BY <1>2, SameBooks
<1>4. \A v \in Requests : (request[v].pc = "write" <=> lockedBy = v)'
  BY <1>1, GotoFrame, FrameOf, ConstantsAssumption DEF Unlock
<1>5. ASSUME NEW v \in Requests PROVE FrameGood(request[v])'
  <2>1. FrameGood(request'[v])
    BY <1>1, GotoFrame, FrameOf
  <2> QED BY <2>1 DEF FrameGood, accountVars, Booked
<1> QED BY <1>3, <1>4, <1>5 DEF Account

(* A step of no request that leaves the account alone keeps the invariant.    *)
LEMMA StillStep ==
    ASSUME Account, UNCHANGED <<accountVars, lockedBy, request>>,
           orderStatus' \in [Orders -> Statuses], pointsUsed' \in [Orders -> Nat],
           lapsed' \in 0..Len(ledger)
    PROVE  Account'
<1>1. TypeOK'
  BY DEF Account, BalanceAgrees, TypeOK, accountVars
<1>2. BalanceAgrees'
  BY <1>1, SameBooks
<1>3. ASSUME NEW v \in Requests
      PROVE  (request[v].pc = "write" <=> lockedBy = v)' /\ FrameGood(request[v])'
  BY FrameOf DEF FrameGood, accountVars, Booked
<1> QED BY <1>2, <1>3 DEF Account

(* The references the service builds (LOYALTY_REF).                           *)
LEMMA RefsAreRefs ==
    /\ NoRef \in Refs /\ Ref("welcomeBonus", None) \in Refs /\ Ref("reward", None) \in Refs
    /\ \A o \in Orders : /\ Ref("redeem", o) \in Refs
                         /\ Ref("orderEarned", o) \in Refs
                         /\ Ref("refundRestore", o) \in Refs
                         /\ Ref("earnReversal", o) \in Refs
  BY DEF Refs, Ref, NoRef

(* SELECT ... FOR UPDATE: what is read under the lock is the balance.         *)
LEMMA AcquireStep ==
    ASSUME Account, NEW w \in Requests, NEW f \in Frame, Acquire(w, f),
           EntrySound(f.entry), f.next \in {"idle", "updateOrder", "findEarn"},
           f.next # "idle" => f.order \in Orders
    PROVE  Account'
<1> DEFINE g == [f EXCEPT !.pc = "write", !.opening = availablePoints,
                          !.found = f.entry.ref \in Booked]
<1>1. TypeOK
  BY DEF Account, BalanceAgrees
<1>2. g \in Frame /\ g.pc = "write" /\ g.entry = f.entry /\ g.next = f.next /\ g.order = f.order
      /\ g.opening = availablePoints /\ g.found = (f.entry.ref \in Booked)
  <2> DEFINE found == f.entry.ref \in Booked
  <2>1. found \in BOOLEAN
    OBVIOUS
  <2>2. g = [f EXCEPT !.pc = "write", !.opening = availablePoints, !.found = found]
    OBVIOUS
  <2>3. availablePoints \in Nat
    BY <1>1 DEF TypeOK
  <2> HIDE DEF found, g
  <2>4. g \in Frame /\ g.pc = "write" /\ g.entry = f.entry /\ g.next = f.next
        /\ g.order = f.order /\ g.opening = availablePoints /\ g.found = found
    BY <2>1, <2>2, <2>3 DEF Frame, Labels
  <2> QED BY <2>4 DEF found
<1>3. Goto(w, g) /\ lockedBy = None /\ lockedBy' = w /\ UNCHANGED <<accountVars, lapsed, orderVars>>
  BY DEF Acquire
<1>4. FrameGood(g)
  <2> HIDE DEF g
  <2> QED BY <1>2 DEF FrameGood
<1> HIDE DEF g
<1> QED BY <1>1, <1>2, <1>3, <1>4, QuietStep DEF orderVars, TypeOK

(* A request takes the lock.                                                  *)
LEMMA LockAccountStep ==
    ASSUME Account, NEW w \in Requests, LockAccount(w)
    PROVE  Account'
<1>1. request[w] \in Frame /\ FrameGood(request[w])
  BY FrameOf
<1>2. Acquire(w, request[w]) /\ request[w].pc = "lock"
  BY DEF LockAccount, At
<1> QED BY <1>1, <1>2, AcquireStep DEF FrameGood

(* A booking that begins with the lock.                                       *)
LEMMA BeginStep ==
    ASSUME Account, NEW w \in Requests, NEW e \in Entry, EntrySound(e), Begin(w, e)
    PROVE  Account'
<1> DEFINE f == [Idle EXCEPT !.entry = e]
<1>1. f \in Frame /\ f.entry = e /\ f.next = "idle"
  BY IdleFrame DEF Frame, Idle
<1>2. Acquire(w, f)
  BY DEF Begin
<1> HIDE DEF f
<1> QED BY <1>1, <1>2, AcquireStep

(* A transaction that is rolled back.                                         *)
LEMMA AbortStep ==
    ASSUME Account, NEW w \in Requests, Abort(w)
    PROVE  Account'
<1>1. TypeOK
  BY DEF Account, BalanceAgrees
<1> QED BY <1>1, IdleFrame, QuietStep DEF Abort, orderVars, TypeOK

(* A server that dies between two transactions.                               *)
LEMMA CrashStep ==
    ASSUME Account, NEW w \in Requests, Crash(w)
    PROVE  Account'
<1>1. TypeOK
  BY DEF Account, BalanceAgrees
<1> QED BY <1>1, IdleFrame, QuietStep DEF Crash, orderVars, TypeOK

(* A request that goes on to book an entry. *)
LEMMA BookStep ==
    ASSUME Account, NEW w \in Requests, NEW f \in Frame, NEW e \in Entry, EntrySound(e),
           NEW next \in {"idle", "updateOrder", "findEarn"},
           next # "idle" => f.order \in Orders,
           Goto(w, Book(f, e, next)), request[w].pc # "write",
           UNCHANGED <<accountVars, lapsed, lockedBy>>,
           orderStatus' \in [Orders -> Statuses], pointsUsed' \in [Orders -> Nat]
    PROVE  Account'
<1> DEFINE g == Book(f, e, next)
<1>1. g \in Frame /\ g.pc = "lock" /\ g.entry = e /\ g.next = next /\ g.order = f.order
  BY DEF Book, Frame, Labels
<1>2. FrameGood(g)
  <2> HIDE DEF g
  <2> QED BY <1>1 DEF FrameGood
<1>3. Goto(w, g)
  OBVIOUS
<1> HIDE DEF g
<1> QED BY <1>1, <1>2, <1>3, QuietStep

(* redeemForOrder, from the balance to the booking.                           *)
LEMMA RedeemBalanceStep ==
    ASSUME Account, NEW w \in Requests, RedeemBalance(w)
    PROVE  Account'
<1> DEFINE f == request[w]
           e == Debit("REDEEM", f.points, Ref("redeem", f.order))
<1>1. f \in Frame /\ f.pc = "redeemBalance" /\ f.order \in Orders /\ f.points \in Nat \ {0}
  BY FrameOf DEF FrameGood, RedeemBalance, At, Frame
<1>2. e \in Entry /\ EntrySound(e)
  BY <1>1, RefsAreRefs DEF Entry, Debit, EntrySound
<1>3. TypeOK /\ UNCHANGED <<accountVars, lapsed, orderVars, lockedBy>>
  BY DEF Account, BalanceAgrees, RedeemBalance
<1>4. Goto(w, Idle) \/ Goto(w, Book(f, e, "updateOrder"))
  BY DEF RedeemBalance
<1> HIDE DEF f, e
<1>5. CASE Goto(w, Idle)
  BY <1>1, <1>3, <1>5, IdleFrame, QuietStep DEF orderVars, TypeOK, f
<1>6. CASE Goto(w, Book(f, e, "updateOrder"))
  BY <1>1, <1>2, <1>3, <1>6, BookStep DEF orderVars, TypeOK, f
<1> QED BY <1>4, <1>5, <1>6

(* redeemForOrder, its write to the order.                                    *)
LEMMA UpdateOrderStep ==
    ASSUME Account, NEW w \in Requests, UpdateOrder(w)
    PROVE  Account'
<1>1. TypeOK /\ request[w] \in Frame
  BY FrameOf DEF Account, BalanceAgrees
<1>2. pointsUsed' \in [Orders -> Nat]
  BY <1>1 DEF UpdateOrder, TypeOK, Frame
<1> QED BY <1>1, <1>2, IdleFrame, QuietStep DEF UpdateOrder, At, TypeOK

(* refundRedemptionForCancelledOrder keeps the invariant.                     *)
LEMMA RefundRedemptionStep ==
    ASSUME Account, NEW w \in Requests, RefundRedemption(w)
    PROVE  Account'
<1> DEFINE f == request[w]
           points == pointsUsed[f.order]
           e == Credit("ADJUSTMENT", points, Ref("refundRestore", f.order))
           g == [f EXCEPT !.pc = "findEarn"]
<1>1. f \in Frame /\ f.pc = "refund" /\ f.order \in Orders
  BY FrameOf DEF FrameGood, RefundRedemption, At
<1>2. TypeOK /\ UNCHANGED <<accountVars, lapsed, orderVars, lockedBy>>
  BY DEF Account, BalanceAgrees, RefundRedemption
<1>3. points \in Nat
  BY <1>1, <1>2 DEF TypeOK
<1>4. IF points = 0 THEN Goto(w, g) ELSE Goto(w, Book(f, e, "findEarn"))
  BY DEF RefundRedemption
<1>5. points # 0 => e \in Entry /\ EntrySound(e)
  BY <1>1, <1>3, RefsAreRefs DEF Entry, Credit, EntrySound
<1>6. g \in Frame /\ g.pc = "findEarn" /\ g.order = f.order
  BY <1>1 DEF Frame, Labels
<1> HIDE DEF e, g, f
<1>7. CASE points = 0
  <2>1. FrameGood(g)
    BY <1>1, <1>6 DEF FrameGood
  <2> QED BY <1>1, <1>2, <1>4, <1>6, <1>7, <2>1, QuietStep DEF orderVars, TypeOK, f
<1>8. CASE points # 0
  BY <1>1, <1>2, <1>4, <1>5, <1>8, BookStep DEF orderVars, TypeOK, f
<1> QED BY <1>7, <1>8

(* The reversal of earned points: the row it found has points to take back.   *)
LEMMA ReverseEarnedPointsStep ==
    ASSUME Account, NEW w \in Requests, ReverseEarnedPoints(w)
    PROVE  Account'
<1> DEFINE f == request[w]
           earned == {i \in DOMAIN ledger : ledger[i].ref = Ref("orderEarned", f.order)}
           points == ledger[CHOOSE i \in earned : TRUE].points
           e == Debit("ADJUSTMENT", points, Ref("earnReversal", f.order))
<1>1. f \in Frame /\ f.pc = "findEarn" /\ f.order \in Orders
  BY FrameOf DEF FrameGood, ReverseEarnedPoints, At
<1>2. TypeOK /\ UNCHANGED <<accountVars, lapsed, orderVars, lockedBy>>
  BY DEF Account, BalanceAgrees, ReverseEarnedPoints
<1>3. IF earned = {} THEN Goto(w, Idle) ELSE Goto(w, Book(f, e, "idle"))
  BY DEF ReverseEarnedPoints
<1>4. earned # {} => points \in Nat \ {0}
  <2>1. \A i \in DOMAIN ledger : ledger[i].points \in Nat \ {0}
    <3>1. \A i \in DOMAIN ledger : ledger[i] \in Row
      BY <1>2 DEF TypeOK
    <3> QED BY <3>1 DEF Row
  <2> QED BY <2>1
<1> HIDE DEF points, earned
<1>5. earned # {} => e \in Entry /\ EntrySound(e)
  BY <1>1, <1>4, RefsAreRefs DEF Entry, Debit, EntrySound
<1> HIDE DEF e, f
<1>6. CASE earned = {}
  BY <1>1, <1>2, <1>3, <1>6, IdleFrame, QuietStep DEF orderVars, TypeOK, f
<1>7. CASE earned # {}
  BY <1>1, <1>2, <1>3, <1>5, <1>7, BookStep DEF orderVars, TypeOK, f
<1> QED BY <1>6, <1>7

(* Bonus, adjustment, reward and the administrator's redemption.              *)
LEMMA WithoutOrderStep ==
    ASSUME Account, NEW w \in Requests,
           \/ CreditWelcomeBonus(w)
           \/ \E n \in AdminPoints : AdjustPoints(w, n) \/ RewardPoints(w, n) \/ RedeemPoints(w, n)
    PROVE  Account'
<1>1. CASE CreditWelcomeBonus(w)
  <2>1. Credit("EARN", WelcomePoints, Ref("welcomeBonus", None)) \in Entry
    BY RefsAreRefs, ConstantsAssumption DEF Credit, Entry
  <2> QED BY <1>1, <2>1, BeginStep DEF CreditWelcomeBonus, Credit, EntrySound
<1>2. ASSUME NEW n \in AdminPoints,
             AdjustPoints(w, n) \/ RewardPoints(w, n) \/ RedeemPoints(w, n)
      PROVE  Account'
  <2>1. n \in Nat \ {0}
    BY ConstantsAssumption
  <2>2. /\ Credit("ADJUSTMENT", n, NoRef) \in Entry
        /\ Debit("ADJUSTMENT", n, NoRef) \in Entry
        /\ Credit("EARN", n, Ref("reward", None)) \in Entry
        /\ Debit("REDEEM", n, NoRef) \in Entry
    BY <2>1, RefsAreRefs DEF Credit, Debit, Entry
  <2>3. /\ EntrySound(Credit("ADJUSTMENT", n, NoRef))
        /\ EntrySound(Debit("ADJUSTMENT", n, NoRef))
        /\ EntrySound(Credit("EARN", n, Ref("reward", None)))
        /\ EntrySound(Debit("REDEEM", n, NoRef))
    BY DEF Credit, Debit, EntrySound
  <2> QED BY <1>2, <2>2, <2>3, BeginStep DEF AdjustPoints, RewardPoints, RedeemPoints
<1> QED BY <1>1, <1>2

(* The requests that begin at an order.                                       *)
LEMMA OrderStep ==
    ASSUME Account, NEW w \in Requests, NEW o \in Orders,
           \/ PlaceOrder(w, o) \/ EarnForDeliveredOrder(w, o) \/ Cancel(w, o)
           \/ \E n \in TapPoints : RedeemForOrder(w, o, n)
    PROVE  Account'
<1>1. TypeOK
  BY DEF Account, BalanceAgrees
<1> DEFINE i == [Idle EXCEPT !.order = o]
<1>2. i \in Frame /\ i.pc = "idle" /\ i.order = o
  BY IdleFrame DEF Frame, Idle
<1>3. CASE PlaceOrder(w, o)
  <2> DEFINE points == CheckoutPoints[o]
             f == [Idle EXCEPT !.order = o, !.points = points]
             e == Debit("REDEEM", points, Ref("redeem", o))
  <2>1. points \in Nat
    BY ConstantsAssumption
  <2>2. f \in Frame
    BY <2>1, IdleFrame DEF Frame, Idle
  <2>3. CASE points = 0
    <3>1. orderStatus' \in [Orders -> Statuses] /\ UNCHANGED <<accountVars, lapsed, pointsUsed, lockedBy, request>>
      BY <1>1, <1>3, <2>3 DEF PlaceOrder, TypeOK, Statuses
    <3> QED BY <1>1, <3>1, StillStep DEF TypeOK
  <2>4. CASE points # 0
    <3>1. e \in Entry /\ EntrySound(e)
      BY <2>1, <2>4, RefsAreRefs DEF Entry, Debit, EntrySound
    <3>2. Goto(w, Book(f, e, "idle")) /\ request[w].pc # "write"
          /\ UNCHANGED <<accountVars, lapsed, orderStatus, pointsUsed, lockedBy>>
      BY <1>3, <2>4 DEF PlaceOrder, At
    <3> HIDE DEF f, e
    <3> QED BY <1>1, <2>2, <3>1, <3>2, BookStep DEF TypeOK
  <2> QED BY <2>3, <2>4
<1>4. CASE EarnForDeliveredOrder(w, o)
  <2> DEFINE e == Credit("EARN", EarnedPoints[o], Ref("orderEarned", o))
  <2>1. e \in Entry /\ EntrySound(e)
    BY RefsAreRefs, ConstantsAssumption DEF Entry, Credit, EntrySound
  <2>2. Goto(w, Book(i, e, "idle")) /\ request[w].pc # "write"
        /\ UNCHANGED <<accountVars, lapsed, orderVars, lockedBy>>
    BY <1>4 DEF EarnForDeliveredOrder, At
  <2> HIDE DEF e, i
  <2> QED BY <1>1, <1>2, <2>1, <2>2, BookStep DEF TypeOK, orderVars
<1>5. CASE Cancel(w, o)
  <2> DEFINE g == [Idle EXCEPT !.pc = "refund", !.order = o]
  <2>1. g \in Frame /\ g.pc = "refund" /\ g.order = o
    BY IdleFrame DEF Frame, Idle, Labels
  <2>2. Goto(w, g) /\ request[w].pc # "write" /\ UNCHANGED <<accountVars, lapsed, pointsUsed, lockedBy>>
    BY <1>5 DEF Cancel, At
  <2>3. orderStatus' \in [Orders -> Statuses]
    BY <1>1, <1>5 DEF Cancel, TypeOK, Statuses
  <2> HIDE DEF g
  <2>4. FrameGood(g)
    BY <2>1 DEF FrameGood
  <2> QED BY <1>1, <2>1, <2>2, <2>3, <2>4, QuietStep DEF TypeOK
<1>6. ASSUME NEW n \in TapPoints, RedeemForOrder(w, o, n)
      PROVE  Account'
  <2> DEFINE g == [Idle EXCEPT !.pc = "redeemBalance", !.order = o, !.points = n]
  <2>0. n \in Nat \ {0}
    BY ConstantsAssumption
  <2>1. g \in Frame /\ g.pc = "redeemBalance" /\ g.order = o /\ g.points = n
    BY <2>0, IdleFrame DEF Frame, Idle, Labels
  <2>2. Goto(w, g) /\ request[w].pc # "write" /\ UNCHANGED <<accountVars, lapsed, orderVars, lockedBy>>
    BY <1>6 DEF RedeemForOrder, At
  <2> HIDE DEF g
  <2>4. FrameGood(g)
    BY <2>0, <2>1 DEF FrameGood
  <2> QED BY <1>1, <2>1, <2>2, <2>4, QuietStep DEF TypeOK, orderVars
<1> QED BY <1>3, <1>4, <1>5, <1>6

(* A delivery touches no points.                                              *)
LEMMA DeliverStep ==
    ASSUME Account, NEW o \in Orders, Deliver(o)
    PROVE  Account'
<1>1. TypeOK
  BY DEF Account, BalanceAgrees
<1>2. orderStatus' \in [Orders -> Statuses]
  BY <1>1 DEF Deliver, TypeOK, Statuses
<1> QED BY <1>1, <1>2, StillStep DEF Deliver, TypeOK

(* A row that lapses is still in the ledger, and still in the balance.        *)
LEMMA LapseStep ==
    ASSUME Account, Lapse
    PROVE  Account'
<1>1. TypeOK
  BY DEF Account, BalanceAgrees
<1>2. lapsed' \in 0..Len(ledger)
  BY <1>1 DEF TypeOK, Lapse
<1> QED BY <1>1, <1>2, StillStep DEF Lapse, TypeOK, orderVars

(* What a booking does to balance and ledger. *)
LEMMA MoveFacts ==
    ASSUME Account, NEW f \in Frame, EntrySound(f.entry), Affordable(f), Move(f),
           f.opening = availablePoints
    PROVE  LET n == Len(ledger) IN
           /\ ledger' \in Seq(Row) /\ Len(ledger') = n + 1
           /\ ledger'[n + 1] = BookedRow(f)
           /\ \A i \in 1..n : ledger'[i] = PaidLots(f)[i]
           /\ \A i \in 1..n : ledger'[i] = [ledger[i] EXCEPT !.remaining = ledger'[i].remaining]
           /\ availablePoints' \in Nat /\ availablePoints' = BookedRow(f).closing
           /\ currentPoints' \in Int /\ redeemedPoints' \in Nat
           /\ availablePoints' = currentPoints' - redeemedPoints'
           /\ SumOf(Remaining(PaidLots(f)), 1..n) = availablePoints' - BookedRow(f).remaining
           /\ BookedRow(f) \in Row
<1> DEFINE n == Len(ledger)
           p == f.entry.points
<1>1. TypeOK /\ availablePoints = Left(DOMAIN ledger) /\ availablePoints = currentPoints - redeemedPoints
  BY DEF Account, BalanceAgrees
<1>2. /\ PaidLots(f) \in Seq(Row) /\ Len(PaidLots(f)) = n
      /\ \A i \in DOMAIN ledger :
           PaidLots(f)[i] = [ledger[i] EXCEPT !.remaining = PaidLots(f)[i].remaining]
      /\ SumOf(Remaining(PaidLots(f)), DOMAIN ledger) =
           IF f.entry.credit THEN availablePoints ELSE availablePoints - p
      /\ ~f.entry.credit => availablePoints - p \in Nat
  BY <1>1, PaidSound
<1>3. p \in Nat \ {0} /\ f.entry.credit \in BOOLEAN /\ f.entry \in Entry
  BY DEF Frame, Entry
<1>4. availablePoints \in Nat /\ currentPoints \in Int /\ redeemedPoints \in Nat
  BY <1>1 DEF TypeOK
<1>5. n \in Nat /\ DOMAIN ledger = 1..n
  BY <1>1 DEF TypeOK
<1>6. BookedRow(f) \in Row
      /\ BookedRow(f).closing = (IF f.entry.credit THEN availablePoints + p ELSE availablePoints - p)
      /\ BookedRow(f).remaining = (IF f.entry.credit THEN p ELSE 0)
  BY <1>2, <1>3, <1>4 DEF BookedRow, Row, Entry
<1>7. ledger' = Append(PaidLots(f), BookedRow(f))
  BY DEF Move
<1>8. availablePoints' = IF f.entry.credit THEN availablePoints + p ELSE availablePoints - p
  BY DEF Move
<1>9. /\ ledger' \in Seq(Row) /\ Len(ledger') = n + 1 /\ ledger'[n + 1] = BookedRow(f)
      /\ \A i \in 1..n : ledger'[i] = PaidLots(f)[i]
  <2> HIDE DEF n
  <2> QED BY <1>2, <1>5, <1>6, <1>7
<1>10. /\ currentPoints' \in Int /\ redeemedPoints' \in Nat
       /\ availablePoints' = currentPoints' - redeemedPoints'
  <2>1. CASE f.entry.credit
    <3>1. f.entry.type # "REDEEM"
      BY <2>1 DEF EntrySound
    <3>2. currentPoints' = currentPoints + p /\ redeemedPoints' = redeemedPoints
      BY <2>1, <3>1 DEF Move
    <3> QED BY <2>1, <3>2, <1>1, <1>3, <1>4, <1>8
  <2>2. CASE ~f.entry.credit /\ f.entry.type = "REDEEM"
    <3>2. currentPoints' = currentPoints /\ redeemedPoints' = redeemedPoints + p
      BY <2>2 DEF Move
    <3> QED BY <2>2, <3>2, <1>1, <1>3, <1>4, <1>8
  <2>3. CASE ~f.entry.credit /\ f.entry.type # "REDEEM"
    <3>1. f.entry.type = "ADJUSTMENT"
      BY <2>3, <1>3 DEF EntrySound, Entry
    <3>2. currentPoints' = currentPoints - p /\ redeemedPoints' = redeemedPoints
      BY <2>3, <3>1 DEF Move
    <3> QED BY <2>3, <3>2, <1>1, <1>3, <1>4, <1>8
  <2> QED BY <2>1, <2>2, <2>3
<1>11. \A i \in 1..n : ledger'[i] = [ledger[i] EXCEPT !.remaining = ledger'[i].remaining]
  BY <1>2, <1>5, <1>9
<1>12. availablePoints' \in Nat /\ availablePoints' = BookedRow(f).closing
  BY <1>2, <1>3, <1>4, <1>6, <1>8
<1>13. SumOf(Remaining(PaidLots(f)), 1..n) = availablePoints' - BookedRow(f).remaining
  BY <1>2, <1>3, <1>4, <1>5, <1>6, <1>8
<1> QED BY <1>6, <1>9, <1>10, <1>11, <1>12, <1>13

(* A booking computed under the lock keeps the balances, the lots and the     *)
(* lines of the ledger in agreement.                                          *)
LEMMA MoveBalances ==
    ASSUME Account, NEW f \in Frame, EntrySound(f.entry), Affordable(f), Move(f),
           f.opening = availablePoints
    PROVE  /\ (availablePoints = Left(DOMAIN ledger))'
           /\ (\A i \in DOMAIN ledger :
                 ledger[i].opening = IF i = 1 THEN 0 ELSE ledger[i - 1].closing)'
           /\ (ledger # <<>> => availablePoints = ledger[Len(ledger)].closing)'
<1> DEFINE n == Len(ledger)
           row == BookedRow(f)
           rem == Remaining(ledger')
<1>1. n \in Nat /\ DOMAIN ledger = 1..n /\ \A i \in 1..n : ledger[i] \in Row
  BY DEF Account, BalanceAgrees, TypeOK
<1>2. /\ ledger' \in Seq(Row) /\ Len(ledger') = n + 1
      /\ ledger'[n + 1] = row
      /\ \A i \in 1..n : ledger'[i] = PaidLots(f)[i]
      /\ \A i \in 1..n : ledger'[i] = [ledger[i] EXCEPT !.remaining = ledger'[i].remaining]
      /\ availablePoints' \in Nat /\ availablePoints' = row.closing
      /\ SumOf(Remaining(PaidLots(f)), 1..n) = availablePoints' - row.remaining
      /\ row \in Row
  BY MoveFacts
<1> HIDE DEF row, n
<1>3. DOMAIN ledger' = 1..(n + 1) /\ \A i \in 1..(n + 1) : ledger'[i] \in Row
  BY <1>1, <1>2
<1>4. availablePoints' = Left(DOMAIN ledger)'
  <2>1. IsFiniteSet(DOMAIN ledger') /\ IsFiniteSet(1..n)
    BY <1>1, <1>3, FS_Interval
  <2>2. Left(DOMAIN ledger)' = SumOf(rem, 1..(n + 1))
    BY <1>3, <2>1, LeftNext, LeftIsSum
  <2>3. \A i \in 1..(n + 1) : rem[i] \in Nat
    BY <1>3 DEF Remaining, Row
  <2>4. SumOf(rem, 1..(n + 1)) = SumOf(rem, 1..n) + rem[n + 1]
    <3> DEFINE D == 1..(n + 1)
               E == 1..n
    <3>1. IsFiniteSet(D) /\ n + 1 \in D /\ E \subseteq D /\ n + 1 \notin E /\ D = E \cup {n + 1}
          /\ \A i \in D : rem[i] \in Int
      BY <1>1, <1>3, <2>1, <2>3
    <3> HIDE DEF D, E, rem
    <3>2. \A T \in SUBSET D, x \in D :
             x \notin T => SumOf(rem, T \cup {x}) = SumOf(rem, T) + rem[x]
      BY <3>1, SumAddWithin
    <3>3. SumOf(rem, E \cup {n + 1}) = SumOf(rem, E) + rem[n + 1]
      BY <3>1, <3>2
    <3>4. SumOf(rem, D) = SumOf(rem, E) + rem[n + 1]
      BY <3>1, <3>3
    <3> QED BY <3>4 DEF D, E
  <2>5. SumOf(rem, 1..n) = SumOf(Remaining(PaidLots(f)), 1..n)
    <3>1. DOMAIN PaidLots(f) = 1..n
      BY <1>1 DEF PaidLots
    <3>2. \A i \in 1..n : rem[i] = Remaining(PaidLots(f))[i]
      BY <1>1, <1>2, <1>3, <3>1 DEF Remaining
    <3> DEFINE E == 1..n
    <3>3. IsFiniteSet(E) /\ \A i \in E : rem[i] = Remaining(PaidLots(f))[i]
      BY <2>1, <3>2
    <3> HIDE DEF E, rem
    <3> QED BY <3>3, SumSame DEF E
  <2>6. rem[n + 1] = row.remaining /\ row.remaining \in Nat
    BY <1>1, <1>2, <1>3 DEF Remaining, Row
  <2> HIDE DEF rem
  <2> QED BY <1>2, <2>2, <2>4, <2>5, <2>6
<1>5. \A i \in 1..n : ledger'[i].opening = ledger[i].opening /\ ledger'[i].closing = ledger[i].closing
  <2> TAKE i \in 1..n
  <2>1. ledger[i] \in Row
    BY <1>1
  <2>2. ledger'[i] = [ledger[i] EXCEPT !.remaining = ledger'[i].remaining]
    BY <1>2
  <2> QED BY <2>1, <2>2 DEF Row
<1>6. row.opening = IF n = 0 THEN 0 ELSE ledger[n].closing
  <2>1. row.opening = availablePoints
    BY DEF row, BookedRow
  <2>2. n # 0 => availablePoints = ledger[n].closing
    <3>1. n # 0 => ledger # <<>>
      BY DEF n
    <3> QED BY <3>1 DEF Account, BalanceAgrees, n
  <2>3. n = 0 => availablePoints = 0
    <3>1. n = 0 => DOMAIN ledger = {}
      BY <1>1
    <3>2. TypeOK /\ availablePoints = Left(DOMAIN ledger)
      BY DEF Account, BalanceAgrees
    <3>3. Left({}) = 0
      <4>1. Left({}) = SumOf(Remaining(ledger), {})
        BY LeftNow, LeftIsSum, FS_EmptySet
      <4> QED BY <4>1, SumEmpty
    <3> QED BY <3>1, <3>2, <3>3
  <2> QED BY <2>1, <2>2, <2>3
<1>7. ASSUME NEW i \in 1..(n + 1)
      PROVE  ledger'[i].opening = IF i = 1 THEN 0 ELSE ledger'[i - 1].closing
  <2>1. CASE i = n + 1
    <3>1. CASE n = 0
      BY <1>2, <1>6, <2>1, <3>1
    <3>2. CASE n # 0
      <4>1. i # 1 /\ i - 1 = n /\ n \in 1..n
        BY <1>1, <2>1, <3>2
      <4> QED BY <1>2, <1>5, <1>6, <2>1, <3>2, <4>1
    <3> QED BY <3>1, <3>2
  <2>2. CASE i # n + 1
    <3>1. i \in 1..n /\ (i # 1 => i - 1 \in 1..n)
      BY <1>1, <2>2
    <3>2. ledger[i].opening = IF i = 1 THEN 0 ELSE ledger[i - 1].closing
      BY <1>1, <3>1 DEF Account, BalanceAgrees
    <3> QED BY <1>5, <3>1, <3>2
  <2> QED BY <2>1, <2>2
<1>8. (ledger # <<>> => availablePoints = ledger[Len(ledger)].closing)'
  BY <1>1, <1>2
<1> QED BY <1>3, <1>4, <1>7, <1>8

(* The second half of recordEntryInTx, in its three outcomes.                 *)
LEMMA WriteEntryStep ==
    ASSUME Account, NEW w \in Requests, WriteEntry(w)
    PROVE  Account'
<1> DEFINE f == request[w]
           g == [f EXCEPT !.pc = f.next]
<1>1. TypeOK /\ f \in Frame /\ FrameGood(f) /\ f.pc = "write" /\ lockedBy = w
  BY FrameOf DEF Account, BalanceAgrees, WriteEntry, At
<1>2. g \in Frame /\ g.pc = f.next /\ g.order = f.order
  BY <1>1 DEF Frame, FrameGood
<1>3. g.pc \in {"idle", "updateOrder", "findEarn"} /\ FrameGood(g)
  <2>1. g.pc \in {"idle", "updateOrder", "findEarn"} /\ (g.pc # "idle" => g.order \in Orders)
    BY <1>1, <1>2 DEF FrameGood
  <2> HIDE DEF g
  <2> QED BY <2>1 DEF FrameGood
<1>4. CASE f.found /\ Goto(w, g) /\ UNCHANGED <<accountVars, orderVars>>
  <2> HIDE DEF g
  <2> QED BY <1>1, <1>2, <1>3, <1>4, QuietStep DEF WriteEntry, orderVars, TypeOK
<1>5. CASE Goto(w, Idle) /\ UNCHANGED <<accountVars, orderVars>>
  BY <1>1, <1>5, IdleFrame, QuietStep DEF WriteEntry, orderVars, TypeOK
<1>6. CASE ~f.found /\ Affordable(f) /\ Move(f) /\ PlacedWith(f) /\ Goto(w, g)
  <2> HIDE DEF g, f
  <2>1. EntrySound(f.entry) /\ f.opening = availablePoints
    BY <1>1 DEF FrameGood
  <2>2. /\ ledger' \in Seq(Row) /\ Len(ledger') = Len(ledger) + 1
        /\ availablePoints' \in Nat
        /\ currentPoints' \in Int /\ redeemedPoints' \in Nat
        /\ availablePoints' = currentPoints' - redeemedPoints'
    BY <1>1, <1>6, <2>1, MoveFacts
  <2>3. orderStatus' \in [Orders -> Statuses] /\ pointsUsed' \in [Orders -> Nat]
    BY <1>1, <1>6 DEF PlacedWith, orderVars, TypeOK, Frame, Entry, Statuses
  <2>4. lockedBy' = None /\ lapsed' = lapsed
    BY <1>1 DEF WriteEntry, Unlock, f
  <2>5. TypeOK'
    <3>1. request' \in [Requests -> Frame]
      BY <1>1, <1>2, <1>6, GotoFrame
    <3>2. lapsed' \in 0..Len(ledger')
      BY <1>1, <2>2, <2>4 DEF TypeOK
    <3>3. lockedBy' \in Requests \cup {None}
      BY <2>4
    <3> QED BY <2>2, <2>3, <3>1, <3>2, <3>3 DEF TypeOK
  <2>6. BalanceAgrees'
    BY <1>1, <1>6, <2>1, <2>2, <2>5, MoveBalances DEF BalanceAgrees
  <2>7. ASSUME NEW v \in Requests
        PROVE  (request[v].pc = "write" <=> lockedBy = v)' /\ FrameGood(request[v])'
    <3>1. request'[v].pc # "write" /\ FrameGood(request'[v])
      <4>1. CASE v = w
        BY <1>1, <1>2, <1>3, <1>6, <4>1, GotoFrame
      <4>2. CASE v # w
        BY <1>1, <1>2, <1>6, <4>2, GotoFrame, FrameOf
      <4> QED BY <4>1, <4>2
    <3>2. FrameGood(request[v])'
      BY <3>1 DEF FrameGood
    <3> QED BY <2>4, <3>1, <3>2, ConstantsAssumption
  <2> QED BY <2>6, <2>7 DEF Account
<1> QED BY <1>4, <1>5, <1>6 DEF WriteEntry

(* The invariant holds of a new account ...                                   *)
LEMMA InitAccount == Init => Account
<1> SUFFICES ASSUME Init
             PROVE  Account
  OBVIOUS
<1> USE DEF Init
<1>1. TypeOK
  BY IdleFrame DEF TypeOK, Statuses
<1>2. Left(DOMAIN ledger) = 0
  <2>1. DOMAIN ledger = {}
    OBVIOUS
  <2>2. Left({}) = SumOf(Remaining(ledger), {})
    BY LeftNow, LeftIsSum, FS_EmptySet
  <2> QED BY <2>1, <2>2, SumEmpty
<1>3. BalanceAgrees
  BY <1>1, <1>2 DEF BalanceAgrees
<1>4. \A w \in Requests : (request[w].pc = "write" <=> lockedBy = w) /\ FrameGood(request[w])
  BY IdleFrame, ConstantsAssumption
<1> QED BY <1>3, <1>4 DEF Account

(* ... and every step keeps it.                                               *)
LEMMA NextAccount == Account /\ [Next]_vars => Account'
<1> SUFFICES ASSUME Account, [Next]_vars
             PROVE  Account'
  OBVIOUS
<1>1. TypeOK
  BY DEF Account, BalanceAgrees
<1>2. CASE UNCHANGED vars
  BY <1>1, <1>2, StillStep DEF vars, orderVars, TypeOK
<1>3. ASSUME NEW w \in Requests,
             \/ LockAccount(w) \/ WriteEntry(w) \/ Abort(w) \/ Crash(w)
             \/ RedeemBalance(w) \/ UpdateOrder(w)
             \/ RefundRedemption(w) \/ ReverseEarnedPoints(w)
      PROVE  Account'
  BY <1>3, LockAccountStep, WriteEntryStep, AbortStep, CrashStep, RedeemBalanceStep,
     UpdateOrderStep, RefundRedemptionStep, ReverseEarnedPointsStep
<1>4. ASSUME NEW w \in Requests,
             \/ CreditWelcomeBonus(w)
             \/ \E n \in AdminPoints : AdjustPoints(w, n) \/ RewardPoints(w, n) \/ RedeemPoints(w, n)
      PROVE  Account'
  BY <1>4, WithoutOrderStep
<1>5. ASSUME NEW w \in Requests, NEW o \in Orders,
             \/ PlaceOrder(w, o) \/ EarnForDeliveredOrder(w, o) \/ Cancel(w, o)
             \/ \E n \in TapPoints : RedeemForOrder(w, o, n)
      PROVE  Account'
  BY <1>5, OrderStep
<1> QED BY <1>2, <1>3, <1>4, <1>5, DeliverStep, LapseStep DEF Next

(* Account is an invariant: columns, lots and ledger agree, and the request   *)
(* that writes is the one that holds the account's row (recordEntryInTx).     *)
THEOREM AccountInvariant == Spec => []Account
  BY InitAccount, NextAccount, PTL DEF Spec

(* The balance shown, what was earned less what was redeemed, what is left in *)
(* the lots and the closing balance of the last line are always one number,   *)
(* however many requests book at once (recordEntryInTx).                      *)
THEOREM BooksBalance == Spec => []BalanceAgrees
<1>1. Account => BalanceAgrees
  BY DEF Account
<1> QED BY <1>1, AccountInvariant, PTL

-----------------------------------------------------------------------------
(* A step that books an entry. *)
Books(w) ==
    LET f == request[w]
    IN  /\ At(w, "write") /\ ~f.found
        /\ Affordable(f) /\ Move(f) /\ PlacedWith(f)
        /\ Goto(w, [f EXCEPT !.pc = f.next])
        /\ UNCHANGED lapsed

(* Only recordEntryInTx writes to account and ledger: every other step leaves *)
(* them alone.                                                                *)
LEMMA OnlyBookings ==
    ASSUME [Next]_vars
    PROVE  \/ UNCHANGED <<accountVars, lapsed>>
           \/ Lapse
           \/ \E w \in Requests : Books(w)
<1>1. CASE UNCHANGED vars
  BY <1>1 DEF vars
<1>2. CASE \E o \in Orders : Deliver(o)
  BY <1>2 DEF Deliver
<1>3. ASSUME NEW w \in Requests, WriteEntry(w)
      PROVE  UNCHANGED <<accountVars, lapsed>> \/ Books(w)
  BY <1>3 DEF WriteEntry, Books
<1>4. ASSUME NEW w \in Requests,
             \/ LockAccount(w) \/ Abort(w) \/ Crash(w)
             \/ RedeemBalance(w) \/ UpdateOrder(w)
             \/ RefundRedemption(w) \/ ReverseEarnedPoints(w)
      PROVE  UNCHANGED <<accountVars, lapsed>>
  BY <1>4 DEF LockAccount, Acquire, Abort, Crash, RedeemBalance, UpdateOrder,
              RefundRedemption, ReverseEarnedPoints
<1>5. ASSUME NEW w \in Requests,
             \/ CreditWelcomeBonus(w)
             \/ \E n \in AdminPoints : AdjustPoints(w, n) \/ RewardPoints(w, n) \/ RedeemPoints(w, n)
      PROVE  UNCHANGED <<accountVars, lapsed>>
  BY <1>5 DEF CreditWelcomeBonus, AdjustPoints, RewardPoints, RedeemPoints, Begin, Acquire
<1>6. ASSUME NEW w \in Requests, NEW o \in Orders,
             \/ PlaceOrder(w, o) \/ EarnForDeliveredOrder(w, o) \/ Cancel(w, o)
             \/ \E n \in TapPoints : RedeemForOrder(w, o, n)
      PROVE  UNCHANGED <<accountVars, lapsed>>
  BY <1>6 DEF PlaceOrder, EarnForDeliveredOrder, Cancel, RedeemForOrder
<1> QED BY <1>1, <1>2, <1>3, <1>4, <1>5, <1>6 DEF Next

(* What a booking may rely on: the opening balance it read is still the       *)
(* balance, and its reference is not in the ledger.                           *)
LEMMA BooksFacts ==
    ASSUME Account, NEW w \in Requests, Books(w)
    PROVE  LET f == request[w] IN
           /\ f \in Frame /\ EntrySound(f.entry) /\ Affordable(f) /\ Move(f)
           /\ f.opening = availablePoints /\ f.entry.ref \notin Booked
  BY FrameOf DEF Books, At, FrameGood

(* A booking takes from a lot only when all older ones that have not lapsed   *)
(* are spent (consumePointsFromLots); rows that lapse leave the order as it   *)
(* was.                                                                       *)
LEMMA NextOldestFirst ==
    ASSUME Account, OldestFirst, [Next]_vars
    PROVE  OldestFirst'
<1>1. CASE UNCHANGED <<accountVars, lapsed>>
  BY <1>1 DEF OldestFirst, Lots, accountVars
<1>2. CASE Lapse
  <2>1. ledger' = ledger /\ \A i \in DOMAIN ledger : i \in Lots' => i \in Lots
    <3>1. lapsed \in Int /\ DOMAIN ledger \subseteq Int
      BY DEF Account, BalanceAgrees, TypeOK
    <3> QED BY <1>2, <3>1 DEF Lapse, Lots, accountVars
  <2> QED BY <2>1 DEF OldestFirst
<1>3. ASSUME NEW w \in Requests, Books(w)
      PROVE  OldestFirst'
  <2> DEFINE f == request[w]
             n == Len(ledger)
             p == f.entry.points
             rem == Remaining(ledger)
  <2>1. TypeOK /\ f \in Frame /\ p \in Nat /\ lapsed' = lapsed /\ Affordable(f)
    BY <1>3, BooksFacts DEF Account, BalanceAgrees, Frame, Entry, Books
  <2>2. n \in Nat /\ DOMAIN ledger = 1..n /\ rem \in [1..n -> Nat] /\ Lots \in SUBSET (1..n)
        /\ \A i \in 1..n : rem[i] = ledger[i].remaining
    BY <2>1, LedgerFacts DEF Remaining
  <2>3. /\ Len(ledger') = n + 1 /\ DOMAIN ledger' = 1..(n + 1) /\ ledger'[n + 1] = BookedRow(f)
        /\ \A i \in 1..n : ledger'[i] = PaidLots(f)[i]
        /\ \A i \in 1..n : ledger'[i] = [ledger[i] EXCEPT !.remaining = ledger'[i].remaining]
    BY <1>3, <2>2, BooksFacts, MoveFacts
  <2>a. \A i \in 1..n : ledger[i] \in Row
    BY <2>1, <2>2 DEF TypeOK
  <2> HIDE DEF f, n, rem
  <2>4. \A i \in 1..n : /\ ledger'[i].credit = ledger[i].credit
                        /\ ledger'[i].points = ledger[i].points
    <3> TAKE i \in 1..n
    <3> QED BY <2>3, <2>a DEF Row
  <2>5. ASSUME NEW i \in 1..n
        PROVE  ledger'[i].remaining = IF f.entry.credit THEN rem[i]
                                      ELSE rem[i] - Taken(rem, Lots, p, i)
    <3>1. CASE f.entry.credit
      BY <2>2, <2>3, <3>1 DEF PaidLots
    <3>2. CASE ~f.entry.credit
      <4>1. Consumed(p, i) = Taken(rem, Lots, p, i)
        BY <2>1, <2>2, ConsumedIsTaken DEF rem
      <4>2. ledger'[i] = [ledger[i] EXCEPT !.remaining = @ - Consumed(p, i)]
        BY <2>2, <2>3, <3>2 DEF PaidLots
      <4>3. ledger'[i].remaining = ledger[i].remaining - Consumed(p, i)
        BY <2>a, <4>2 DEF Row
      <4> QED BY <2>2, <3>2, <4>1, <4>3
    <3> QED BY <3>1, <3>2
  <2> SUFFICES ASSUME NEW i \in DOMAIN ledger', NEW j \in DOMAIN ledger',
                      i < j, i \in Lots', ledger'[j].credit
               PROVE  ledger'[j].remaining = ledger'[j].points
    BY DEF OldestFirst
  <2>6. i \in 1..n /\ ledger'[i].remaining > 0 /\ i > lapsed
    BY <2>1, <2>2, <2>3 DEF Lots
  <2>7. i \in Lots
    <3>1. rem[i] \in Nat /\ Taken(rem, Lots, p, i) \in 0..rem[i]
      BY <2>1, <2>2, <2>6, TakenBounds
    <3>2. rem[i] > 0
      BY <2>5, <2>6, <3>1
    <3> QED BY <2>2, <2>6, <3>2 DEF Lots
  <2>8. CASE j = n + 1
    BY <2>3, <2>8 DEF BookedRow
  <2>9. CASE j # n + 1
    <3>1. j \in 1..n
      BY <2>2, <2>3, <2>9
    <3>2. ledger[j].remaining = ledger[j].points
      BY <2>2, <2>4, <2>7, <3>1 DEF OldestFirst
    <3>3. CASE f.entry.credit
      BY <2>2, <2>4, <2>5, <3>1, <3>2, <3>3
    <3>4. CASE ~f.entry.credit
      <4>0. Taken(rem, Lots, p, i) \in 0..rem[i] /\ rem[i] \in Nat /\ rem[j] \in Nat
        BY <2>1, <2>2, <2>6, <3>1, TakenBounds
      <4>1. Taken(rem, Lots, p, i) < rem[i]
        BY <2>5, <2>6, <3>4, <4>0
      <4>2. Taken(rem, Lots, p, j) = 0
        BY <2>1, <2>2, <2>7, <3>1, <4>1, YoungerUntouched
      <4>3. ledger'[j].remaining = rem[j]
        BY <2>5, <3>1, <3>4, <4>0, <4>2
      <4> QED BY <2>2, <2>4, <3>1, <3>2, <4>3
    <3> QED BY <3>3, <3>4
  <2> QED BY <2>8, <2>9
<1> QED BY <1>1, <1>2, <1>3, OnlyBookings

(* Points are always taken from the oldest lot that has not lapsed, for every *)
(* account, ledger and order of requests (consumePointsFromLots).             *)
THEOREM OldestLotsFirst == Spec => []OldestFirst
<1>1. Init => OldestFirst
  BY DEF Init, OldestFirst
<1>2. Account /\ OldestFirst /\ [Next]_vars => OldestFirst'
  BY NextOldestFirst
<1> QED BY <1>1, <1>2, AccountInvariant, PTL DEF Spec

-----------------------------------------------------------------------------
(* What the abstract book records of the ledger.                              *)
References == [i \in DOMAIN ledger |-> ledger[i].ref]

(* A new account is a new book.                                               *)
LEMMA InitBook == Init => Promise!Init
  BY DEF Init, Promise!Init

(* Every step books once in the abstract book, or does nothing there.         *)
LEMMA StepBook ==
    ASSUME Account, [Next]_vars
    PROVE  [Promise!Book]_<<availablePoints, References>>
<1>1. CASE UNCHANGED <<accountVars, lapsed>>
  BY <1>1 DEF accountVars, References
<1>2. CASE Lapse
  BY <1>2 DEF Lapse, accountVars, References
<1>3. ASSUME NEW w \in Requests, Books(w)
      PROVE  Promise!Book
  <2> DEFINE f == request[w]
             n == Len(ledger)
             ref == f.entry.ref
  <2>1. n \in Nat /\ DOMAIN ledger = 1..n /\ \A i \in 1..n : ledger[i] \in Row
    BY DEF Account, BalanceAgrees, TypeOK
  <2>2. /\ Len(ledger') = n + 1 /\ DOMAIN ledger' = 1..(n + 1) /\ ledger'[n + 1] = BookedRow(f)
        /\ \A i \in 1..n : ledger'[i] = [ledger[i] EXCEPT !.remaining = ledger'[i].remaining]
        /\ availablePoints' \in Nat
    BY <1>3, <2>1, BooksFacts, MoveFacts
  <2>3. ledger'[n + 1].ref = ref
    BY <2>2 DEF BookedRow
  <2>4. ref # NoRef => \A i \in DOMAIN ledger : ledger[i].ref # ref
    BY <1>3, BooksFacts DEF Booked
  <2> HIDE DEF f, n, ref
  <2>5. \A i \in 1..n : ledger'[i].ref = ledger[i].ref
    <3> TAKE i \in 1..n
    <3>1. ledger'[i] = [ledger[i] EXCEPT !.remaining = ledger'[i].remaining] /\ ledger[i] \in Row
      BY <2>1, <2>2
    <3> QED BY <3>1 DEF Row
  <2> DEFINE R == {ledger[i].ref : i \in 1..n} \cup {ref}
  <2>a. \A i \in 1..n : ledger[i].ref \in R
    OBVIOUS
  <2>b. ref \in R
    OBVIOUS
  <2> HIDE DEF R
  <2>6. References \in Seq(R) /\ Len(References) = n /\ \A i \in 1..n : References[i] = ledger[i].ref
    BY <2>1, <2>a DEF References
  <2>7. References' = Append(References, ref)
    <3>1. Append(References, ref) \in Seq(R) /\ Len(Append(References, ref)) = n + 1
          /\ \A i \in 1..(n + 1) : Append(References, ref)[i] = IF i = n + 1 THEN ref ELSE References[i]
      BY <2>1, <2>6, <2>b
    <3>2. \A i \in 1..(n + 1) : References'[i] = IF i = n + 1 THEN ref ELSE References[i]
      BY <2>1, <2>2, <2>3, <2>5, <2>6 DEF References
    <3>3. References' = [i \in 1..(n + 1) |-> ledger'[i].ref]
      BY <2>2 DEF References
    <3>4. \A i \in 1..(n + 1) : ledger'[i].ref \in R
      BY <2>1, <2>3, <2>5, <2>a, <2>b
    <3>5. References' \in Seq(R) /\ Len(References') = n + 1
      BY <2>1, <3>3, <3>4
    <3> QED BY <3>1, <3>2, <3>5, SeqEqual
  <2>8. Len(References') = n + 1 /\ References'[n + 1] = ref
    BY <2>1, <2>2, <2>3 DEF References
  <2>9. ref # NoRef => \A i \in DOMAIN References : References[i] # ref
    BY <2>4 DEF References
  <2> QED BY <2>2, <2>6, <2>7, <2>8, <2>9 DEF Promise!Book, References
<1> QED BY <1>1, <1>2, <1>3, OnlyBookings

(* The ledger implements the account it promises (AccountBook): a balance     *)
(* that is never negative, moved by one booking at a time, each reference     *)
(* booked once however often it is sent (recordEntryInTx).                    *)
THEOREM PromiseKept == Spec => KeepsBooks
<1>1. Account /\ [Next]_vars => [Promise!Book]_<<availablePoints, References>>
  BY StepBook
<1> QED BY <1>1, InitBook, AccountInvariant, PTL DEF Spec, KeepsBooks, Promise!Spec, References

-----------------------------------------------------------------------------
(* Points are read from the ledger alone.                                     *)
LEMMA SamePoints ==
    ASSUME ledger' = ledger, NEW kind, NEW o
    PROVE  PointsFor(kind, o)' = PointsFor(kind, o)
  BY DEF PointsFor

(* A request that does not move keeps what it relies on, while orders only    *)
(* become known and earned points are only added.                             *)
LEMMA FrameStaysPaid ==
    ASSUME NEW v \in Requests, request[v] \in Frame, FramePays(request[v]),
           request'[v] = request[v],
           \A x \in Orders : Known(x) => Known(x)',
           request[v].order \in Orders /\ ~Known(request[v].order) => ~Known(request[v].order)',
           \A x \in Orders : PointsFor("orderEarned", x) \subseteq PointsFor("orderEarned", x)'
    PROVE  FramePays(request[v])'
<1> DEFINE f == request[v]
           e == f.entry
           o == f.order
<1>1. o \in Orders \cup {None} /\ None \notin Orders
  BY ConstantsAssumption DEF Frame
<1>2. (o # None /\ ~Known(o) => Booking(f) /\ e.ref = Ref("redeem", o) /\ f.next = "idle")'
  BY <1>1 DEF FramePays, Booking
<1>3. ASSUME NEW x \in Orders
      PROVE  /\ Booking(f) /\ e.ref = Ref("redeem", x) /\ f.next = "idle" => ~Known(x)'
             /\ Booking(f) /\ e.ref = Ref("refundRestore", x) /\ CheckoutPoints[x] # 0 => Known(x)'
             /\ Booking(f) /\ e.ref = Ref("earnReversal", x) =>
                  e.points \in PointsFor("orderEarned", x)'
  BY <1>1 DEF FramePays
<1> QED BY <1>2, <1>3 DEF FramePays, Booking

(* A step of a request that books nothing and makes no order known keeps the  *)
(* invariant, if its new frame is one.                                        *)
LEMMA QuietReturns ==
    ASSUME Account, Returns, NEW w \in Requests, NEW g \in Frame, Goto(w, g),
           UNCHANGED <<accountVars, pointsUsed>>,
           \A x \in Orders : Known(x)' <=> Known(x),
           FramePays(g),
           g.order = None \/ g.order = request[w].order \/ Known(g.order)
    PROVE  Returns'
<1>1. /\ request'[w] = g /\ \A v \in Requests \ {w} : request'[v] = request[v]
      /\ \A v \in Requests : request[v] \in Frame /\ request'[v] \in Frame
      /\ ledger' = ledger /\ pointsUsed' = pointsUsed
  BY GotoFrame, FrameOf DEF Account, BalanceAgrees, accountVars
<1>2. \A f \in Frame : f.order \in Orders \cup {None}
  BY DEF Frame
<1>3. ASSUME NEW v \in Requests
      PROVE  FramePays(request[v])'
  <2>1. CASE v = w
    <3>1. \A x \in Orders : PointsFor("orderEarned", x)' = PointsFor("orderEarned", x)
      BY <1>1, SamePoints
    <3> QED BY <1>1, <1>2, <2>1, <3>1 DEF FramePays, Booking
  <2>2. CASE v # w
    BY <1>1, <2>2, FrameStaysPaid, SamePoints DEF Returns
  <2> QED BY <2>1, <2>2
<1>4. OnePlacement'
  <2> SUFFICES ASSUME NEW u \in Requests, NEW v \in Requests, u # v,
                      request'[u].order = request'[v].order, request'[u].order # None
               PROVE  Known(request'[u].order)
    BY <1>1, <1>2 DEF OnePlacement
  <2> QED BY <1>1 DEF Returns, OnePlacement
<1>5. \A o \in Orders : CheckoutPoints[o] # 0 => PaidByPoints(o)'
  BY <1>1, SamePoints DEF Returns, PaidByPoints
<1>6. \A o \in Orders : (PointsFor("earnReversal", o) \subseteq PointsFor("orderEarned", o))'
  BY <1>1, SamePoints DEF Returns
<1> QED BY <1>3, <1>4, <1>5, <1>6 DEF Returns

(* No order is written: the orders known are the same.                        *)
LEMMA KnownStays ==
    ASSUME UNCHANGED orderVars
    PROVE  pointsUsed' = pointsUsed /\ \A x \in Orders : Known(x)' <=> Known(x)
  BY DEF orderVars, Known

(* An idle request owes nothing.                                              *)
LEMMA IdlePays == Idle \in Frame /\ FramePays(Idle) /\ Idle.order = None
  BY IdleFrame DEF FramePays, Idle, Booking

(* References of different kinds, or of different orders, differ.             *)
LEMMA RefsDiffer ==
    \A x, y \in Orders :
        /\ Ref("redeem", x) = Ref("redeem", y) => x = y
        /\ Ref("refundRestore", x) = Ref("refundRestore", y) => x = y
        /\ Ref("earnReversal", x) = Ref("earnReversal", y) => x = y
        /\ \A k \in {"orderEarned", "refundRestore", "earnReversal"} : Ref(k, x) # Ref("redeem", y)
        /\ \A k \in {"redeem", "orderEarned", "earnReversal"} : Ref(k, x) # Ref("refundRestore", y)
        /\ \A k \in {"redeem", "orderEarned", "refundRestore"} : Ref(k, x) # Ref("earnReversal", y)
        /\ \A k \in {"redeem", "refundRestore", "earnReversal"} :
             /\ Ref(k, x) # Ref("welcomeBonus", None) /\ Ref(k, x) # Ref("reward", None)
             /\ Ref(k, x) # NoRef
  BY DEF Ref, NoRef

(* An entry for nothing in particular, or a credit that is no refund. *)
LEMMA PlainPays ==
    ASSUME NEW f \in Frame, f.order = None \/ Known(f.order), f.next = "idle",
           f.pc \in {"lock", "write"},
           f.order = None \/ f.entry.type # "REDEEM",
           \A x \in Orders : \A k \in {"redeem", "refundRestore", "earnReversal"} :
              f.entry.ref # Ref(k, x)
    PROVE  FramePays(f)
  BY DEF FramePays, Booking

(* Taking the lock changes no reference and no points.                        *)
LEMMA LockReturns ==
    ASSUME Account, Returns, NEW w \in Requests, LockAccount(w)
    PROVE  Returns'
<1> DEFINE f == request[w]
           found == f.entry.ref \in Booked
           g == [f EXCEPT !.pc = "write", !.opening = availablePoints, !.found = found]
<1>1. f \in Frame /\ FramePays(f) /\ f.pc = "lock" /\ availablePoints \in Nat
  BY FrameOf DEF LockAccount, At, Returns, Account, BalanceAgrees, TypeOK
<1>2. Goto(w, g) /\ UNCHANGED <<accountVars, orderVars>>
  BY DEF LockAccount, Acquire
<1>3. g \in Frame /\ g.pc = "write" /\ g.entry = f.entry /\ g.next = f.next /\ g.order = f.order
  <2>1. found \in BOOLEAN
    OBVIOUS
  <2> HIDE DEF found
  <2> QED BY <1>1, <2>1 DEF Frame, Labels
<1> HIDE DEF g
<1>4. FramePays(g)
  BY <1>1, <1>3 DEF FramePays, Booking
<1> QED BY <1>2, <1>3, <1>4, QuietReturns, KnownStays

(* A request that is refused, rolled back or dies owes nothing any more.      *)
LEMMA StopReturns ==
    ASSUME Account, Returns, NEW w \in Requests, Goto(w, Idle),
           UNCHANGED <<accountVars, orderVars>>
    PROVE  Returns'
  BY IdlePays, QuietReturns, KnownStays

(* Bookings without an order are for none of the references of an order.      *)
LEMMA BeginReturns ==
    ASSUME Account, Returns, NEW w \in Requests,
           \/ CreditWelcomeBonus(w)
           \/ \E n \in AdminPoints : AdjustPoints(w, n) \/ RewardPoints(w, n) \/ RedeemPoints(w, n)
    PROVE  Returns'
<1>1. PICK e \in Entry : Begin(w, e) /\ e.ref \in {Ref("welcomeBonus", None), Ref("reward", None), NoRef}
  <2>1. CASE CreditWelcomeBonus(w)
    <3>1. Credit("EARN", WelcomePoints, Ref("welcomeBonus", None)) \in Entry
      BY RefsAreRefs, ConstantsAssumption DEF Credit, Entry
    <3> QED BY <2>1, <3>1 DEF CreditWelcomeBonus, Credit
  <2>2. ASSUME NEW n \in AdminPoints,
               AdjustPoints(w, n) \/ RewardPoints(w, n) \/ RedeemPoints(w, n)
        PROVE  \E e \in Entry : Begin(w, e) /\ e.ref \in {Ref("welcomeBonus", None), Ref("reward", None), NoRef}
    <3>1. n \in Nat \ {0}
      BY ConstantsAssumption
    <3>2. /\ Credit("ADJUSTMENT", n, NoRef) \in Entry
          /\ Debit("ADJUSTMENT", n, NoRef) \in Entry
          /\ Credit("EARN", n, Ref("reward", None)) \in Entry
          /\ Debit("REDEEM", n, NoRef) \in Entry
      BY <3>1, RefsAreRefs DEF Credit, Debit, Entry
    <3>3. /\ Credit("ADJUSTMENT", n, NoRef).ref = NoRef /\ Debit("ADJUSTMENT", n, NoRef).ref = NoRef
          /\ Credit("EARN", n, Ref("reward", None)).ref = Ref("reward", None)
          /\ Debit("REDEEM", n, NoRef).ref = NoRef
      BY DEF Credit, Debit
    <3> QED BY <2>2, <3>2, <3>3 DEF AdjustPoints, RewardPoints, RedeemPoints
  <2> QED BY <2>1, <2>2
<1> DEFINE i == [Idle EXCEPT !.entry = e]
           found == i.entry.ref \in Booked
           g == [i EXCEPT !.pc = "write", !.opening = availablePoints, !.found = found]
<1>2. i \in Frame /\ i.entry = e /\ i.order = None /\ i.next = "idle"
  BY IdleFrame DEF Frame, Idle
<1>3. Goto(w, g) /\ UNCHANGED <<accountVars, orderVars>> /\ availablePoints \in Nat
  BY <1>1 DEF Begin, Acquire, Account, BalanceAgrees, TypeOK
<1> HIDE DEF i
<1>4. g \in Frame /\ g.pc = "write" /\ g.entry = e /\ g.next = "idle" /\ g.order = None
  <2>1. found \in BOOLEAN
    OBVIOUS
  <2> HIDE DEF found
  <2> QED BY <1>2, <1>3, <2>1 DEF Frame, Labels
<1> HIDE DEF g
<1>5. \A x \in Orders : \A k \in {"redeem", "refundRestore", "earnReversal"} : g.entry.ref # Ref(k, x)
  BY <1>1, <1>4, RefsDiffer
<1>6. FramePays(g)
  BY <1>4, <1>5, PlainPays
<1> QED BY <1>3, <1>4, <1>6, QuietReturns, KnownStays

(* redeemForOrder books for an order that had no points when it was placed.   *)
LEMMA RedeemBalanceReturns ==
    ASSUME Account, Returns, NEW w \in Requests, RedeemBalance(w)
    PROVE  Returns'
<1> DEFINE f == request[w]
           e == Debit("REDEEM", f.points, Ref("redeem", f.order))
           g == Book(f, e, "updateOrder")
<1>1. f \in Frame /\ f.pc = "redeemBalance" /\ f.order \in Orders /\ f.points \in Nat \ {0}
      /\ CheckoutPoints[f.order] = 0 /\ FramePays(f)
  BY FrameOf DEF FrameGood, RedeemBalance, At, Frame, Returns, FramePays
<1>2. Known(f.order)
  BY <1>1, ConstantsAssumption DEF FramePays, Booking
<1>3. Goto(w, Idle) \/ Goto(w, g)
  BY DEF RedeemBalance
<1>4. UNCHANGED <<accountVars, orderVars>>
  BY DEF RedeemBalance
<1>5. e \in Entry /\ e.ref = Ref("redeem", f.order) /\ e.type = "REDEEM"
  BY <1>1, RefsAreRefs DEF Entry, Debit
<1> HIDE DEF f, e
<1>6. g \in Frame /\ g.pc = "lock" /\ g.entry = e /\ g.next = "updateOrder" /\ g.order = f.order
  BY <1>1, <1>5 DEF Book, Frame, Labels
<1> HIDE DEF g
<1>7. FramePays(g)
  BY <1>1, <1>2, <1>5, <1>6, RefsDiffer DEF FramePays, Booking
<1> QED BY <1>2, <1>3, <1>4, <1>6, <1>7, StopReturns, QuietReturns, KnownStays

(* The refund reads the order's points, and books as many as the checkout     *)
(* took.                                                                      *)
LEMMA RefundReturns ==
    ASSUME Account, Returns, NEW w \in Requests, RefundRedemption(w)
    PROVE  Returns'
<1> DEFINE f == request[w]
           points == pointsUsed[f.order]
           e == Credit("ADJUSTMENT", points, Ref("refundRestore", f.order))
           h == [f EXCEPT !.pc = "findEarn"]
           g == Book(f, e, "findEarn")
<1>1. f \in Frame /\ f.pc = "refund" /\ f.order \in Orders /\ points \in Nat /\ FramePays(f)
  BY FrameOf DEF FrameGood, RefundRedemption, At, Returns, Account, BalanceAgrees, TypeOK
<1>2. Known(f.order)
  BY <1>1, ConstantsAssumption DEF FramePays, Booking
<1>3. IF points = 0 THEN Goto(w, h) ELSE Goto(w, g)
  BY DEF RefundRedemption
<1>4. UNCHANGED <<accountVars, orderVars>>
  BY DEF RefundRedemption
<1>5. points # 0 => e \in Entry
  BY <1>1, RefsAreRefs DEF Entry, Credit
<1>a. e.ref = Ref("refundRestore", f.order) /\ e.type = "ADJUSTMENT" /\ e.points = points
  BY DEF Credit
<1>b. CheckoutPoints[f.order] # 0 => points = CheckoutPoints[f.order]
  BY <1>1, <1>2 DEF Returns, PaidByPoints
<1> HIDE DEF f, e, points
<1>6. h \in Frame /\ h.pc = "findEarn" /\ h.order = f.order
  BY <1>1 DEF Frame, Labels
<1>7. points # 0 => g \in Frame /\ g.pc = "lock" /\ g.entry = e /\ g.next = "findEarn" /\ g.order = f.order
  BY <1>1, <1>5 DEF Book, Frame, Labels
<1> HIDE DEF g, h
<1>8. FramePays(h)
  BY <1>2, <1>6 DEF FramePays, Booking
<1>9. points # 0 => FramePays(g)
  BY <1>1, <1>2, <1>a, <1>b, <1>7, RefsDiffer DEF FramePays, Booking
<1> QED BY <1>2, <1>3, <1>4, <1>6, <1>7, <1>8, <1>9, QuietReturns, KnownStays

(* The reversal books points it has found in a row of the ledger.             *)
LEMMA ReverseReturns ==
    ASSUME Account, Returns, NEW w \in Requests, ReverseEarnedPoints(w)
    PROVE  Returns'
<1> DEFINE f == request[w]
           earned == {i \in DOMAIN ledger : ledger[i].ref = Ref("orderEarned", f.order)}
           points == ledger[CHOOSE i \in earned : TRUE].points
           e == Debit("ADJUSTMENT", points, Ref("earnReversal", f.order))
           g == Book(f, e, "idle")
<1>1. f \in Frame /\ f.pc = "findEarn" /\ f.order \in Orders /\ FramePays(f)
  BY FrameOf DEF FrameGood, ReverseEarnedPoints, At, Returns
<1>2. Known(f.order)
  BY <1>1, ConstantsAssumption DEF FramePays, Booking
<1>3. IF earned = {} THEN Goto(w, Idle) ELSE Goto(w, g)
  BY DEF ReverseEarnedPoints
<1>4. UNCHANGED <<accountVars, orderVars>>
  BY DEF ReverseEarnedPoints
<1>5. earned # {} => points \in PointsFor("orderEarned", f.order) /\ points \in Nat \ {0}
  <2>1. \A i \in DOMAIN ledger : ledger[i] \in Row
    BY DEF Account, BalanceAgrees, TypeOK
  <2>2. \A i \in DOMAIN ledger : ledger[i].points \in Nat \ {0}
    BY <2>1 DEF Row
  <2>3. earned # {} => (CHOOSE i \in earned : TRUE) \in earned
    OBVIOUS
  <2> QED BY <2>2, <2>3 DEF PointsFor
<1> HIDE DEF points, earned
<1>6. earned # {} => e \in Entry
  BY <1>1, <1>5, RefsAreRefs DEF Entry, Debit
<1>7. e.ref = Ref("earnReversal", f.order) /\ e.type = "ADJUSTMENT" /\ e.points = points
  BY DEF Debit
<1> HIDE DEF e, f
<1>8. earned # {} => g \in Frame /\ g.pc = "lock" /\ g.entry = e /\ g.next = "idle" /\ g.order = f.order
  BY <1>1, <1>6 DEF Book, Frame, Labels
<1> HIDE DEF g
<1>9. earned # {} => FramePays(g)
  BY <1>1, <1>2, <1>5, <1>7, <1>8, RefsDiffer DEF FramePays, Booking
<1> QED BY <1>2, <1>3, <1>4, <1>8, <1>9, StopReturns, QuietReturns, KnownStays

(* redeemForOrder's write to the order touches no order that was placed with  *)
(* points.                                                                    *)
LEMMA UpdateReturns ==
    ASSUME Account, Returns, NEW w \in Requests, UpdateOrder(w)
    PROVE  Returns'
<1> DEFINE f == request[w]
<1>1. f \in Frame /\ f.pc = "updateOrder" /\ f.order \in Orders /\ CheckoutPoints[f.order] = 0
  BY FrameOf DEF FrameGood, UpdateOrder, At, Returns, FramePays
<1>2. /\ ledger' = ledger /\ orderStatus' = orderStatus /\ request'[w] = Idle
      /\ \A v \in Requests \ {w} : request'[v] = request[v]
      /\ \A o \in Orders : CheckoutPoints[o] # 0 => pointsUsed'[o] = pointsUsed[o]
  BY <1>1, IdleFrame, GotoFrame DEF UpdateOrder, accountVars, Account, BalanceAgrees, TypeOK
<1>3. \A x : Known(x)' <=> Known(x)
  BY <1>2 DEF Known
<1>4. ASSUME NEW v \in Requests
      PROVE  FramePays(request[v])'
  <2>1. CASE v = w
    BY <1>2, <2>1, IdlePays DEF FramePays, Booking, Idle
  <2>2. CASE v # w
    BY <1>2, <1>3, <2>2, FrameOf, FrameStaysPaid, SamePoints DEF Returns
  <2> QED BY <2>1, <2>2
<1>5. OnePlacement'
  <2> SUFFICES ASSUME NEW u \in Requests, NEW v \in Requests, u # v,
                      request'[u].order = request'[v].order, request'[u].order # None
               PROVE  Known(request'[u].order)
    BY <1>3 DEF OnePlacement
  <2> QED BY <1>2, IdlePays DEF Returns, OnePlacement
<1>6. \A o \in Orders : CheckoutPoints[o] # 0 => PaidByPoints(o)'
  BY <1>2, <1>3, SamePoints DEF Returns, PaidByPoints
<1>7. \A o \in Orders : (PointsFor("earnReversal", o) \subseteq PointsFor("orderEarned", o))'
  BY <1>2, SamePoints DEF Returns
<1> QED BY <1>4, <1>5, <1>6, <1>7 DEF Returns

(* Earning books for a reference of its own.                                  *)
LEMMA EarnReturns ==
    ASSUME Account, Returns, NEW w \in Requests, NEW o \in Orders, EarnForDeliveredOrder(w, o)
    PROVE  Returns'
<1> DEFINE i == [Idle EXCEPT !.order = o]
           e == Credit("EARN", EarnedPoints[o], Ref("orderEarned", o))
           g == Book(i, e, "idle")
<1>1. i \in Frame /\ i.order = o
  BY IdleFrame DEF Frame, Idle
<1>2. e \in Entry /\ e.ref = Ref("orderEarned", o) /\ e.type = "EARN"
  BY RefsAreRefs, ConstantsAssumption DEF Entry, Credit
<1>3. Goto(w, g) /\ Known(o) /\ UNCHANGED <<accountVars, orderVars>>
  BY DEF EarnForDeliveredOrder, Known
<1> HIDE DEF i, e
<1>4. g \in Frame /\ g.pc = "lock" /\ g.entry = e /\ g.next = "idle" /\ g.order = o
  BY <1>1, <1>2 DEF Book, Frame, Labels
<1> HIDE DEF g
<1>5. \A x \in Orders : \A k \in {"redeem", "refundRestore", "earnReversal"} : g.entry.ref # Ref(k, x)
  BY <1>2, <1>4, RefsDiffer
<1>6. FramePays(g)
  BY <1>2, <1>3, <1>4, <1>5, PlainPays
<1> QED BY <1>3, <1>4, <1>6, QuietReturns, KnownStays

(* Cancelling begins at an order that is known.                               *)
LEMMA CancelReturns ==
    ASSUME Account, Returns, NEW w \in Requests, NEW o \in Orders, Cancel(w, o)
    PROVE  Returns'
<1> DEFINE g == [Idle EXCEPT !.pc = "refund", !.order = o]
<1>1. g \in Frame /\ g.pc = "refund" /\ g.order = o
  BY IdleFrame DEF Frame, Idle, Labels
<1>2. Goto(w, g) /\ Known(o) /\ UNCHANGED <<accountVars, pointsUsed>>
  BY DEF Cancel, Known
<1>3. \A x \in Orders : Known(x)' <=> Known(x)
  BY DEF Cancel, Known, Account, BalanceAgrees, TypeOK
<1> HIDE DEF g
<1>4. FramePays(g)
  BY <1>1, <1>2 DEF FramePays, Booking
<1> QED BY <1>1, <1>2, <1>3, <1>4, QuietReturns

(* An order redeemForOrder accepts was placed without points.                 *)
LEMMA RedeemReturns ==
    ASSUME Account, Returns, NEW w \in Requests, NEW o \in Orders, NEW n \in TapPoints,
           RedeemForOrder(w, o, n)
    PROVE  Returns'
<1> DEFINE g == [Idle EXCEPT !.pc = "redeemBalance", !.order = o, !.points = n]
<1>1. g \in Frame /\ g.pc = "redeemBalance" /\ g.order = o
  BY IdleFrame, ConstantsAssumption DEF Frame, Idle, Labels
<1>2. Goto(w, g) /\ Known(o) /\ pointsUsed[o] = 0 /\ UNCHANGED <<accountVars, orderVars>>
  BY DEF RedeemForOrder, Known
<1>3. CheckoutPoints[o] = 0
  BY <1>2 DEF Returns, PaidByPoints
<1> HIDE DEF g
<1>4. FramePays(g)
  BY <1>1, <1>2, <1>3 DEF FramePays, Booking
<1> QED BY <1>1, <1>2, <1>4, QuietReturns, KnownStays

(* A placement is the only request for its order, or makes it known at once.  *)
LEMMA PlaceReturns ==
    ASSUME Account, Returns, NEW w \in Requests, NEW o \in Orders, PlaceOrder(w, o)
    PROVE  Returns'
<1> DEFINE points == CheckoutPoints[o]
           f == [Idle EXCEPT !.order = o, !.points = points]
           e == Debit("REDEEM", points, Ref("redeem", o))
           g == Book(f, e, "idle")
<1>0. points \in Nat /\ None \notin Orders
  BY ConstantsAssumption
<1>1. ~Known(o) /\ \A v \in Requests : request[v].order # o
  BY DEF PlaceOrder, Known
<1>2. \A v \in Requests : request[v] \in Frame
  BY FrameOf
<1>3. CASE points = 0
  <2>1. ledger' = ledger /\ pointsUsed' = pointsUsed /\ request' = request
        /\ orderStatus' = [orderStatus EXCEPT ![o] = "PLACED"]
    BY <1>3 DEF PlaceOrder, accountVars
  <2>2. Known(o)' /\ \A x \in Orders \ {o} : Known(x)' <=> Known(x)
    BY <2>1 DEF Known, Account, BalanceAgrees, TypeOK
  <2>3. \A x \in Orders : Known(x) => Known(x)'
    BY <2>2
  <2>4. ASSUME NEW v \in Requests
        PROVE  FramePays(request[v])'
    <3>1. request[v].order \in Orders /\ ~Known(request[v].order) => ~Known(request[v].order)'
      BY <1>1, <2>1, <2>2
    <3>2. \A x \in Orders : PointsFor("orderEarned", x) \subseteq PointsFor("orderEarned", x)'
      BY <2>1, SamePoints
    <3> QED BY <1>2, <2>1, <2>3, <3>1, <3>2, FrameStaysPaid DEF Returns
  <2>5. OnePlacement'
    <3> SUFFICES ASSUME NEW u \in Requests, NEW v \in Requests, u # v,
                        request[u].order = request[v].order, request[u].order # None
                 PROVE  Known(request[u].order)'
      BY <2>1 DEF OnePlacement
    <3>1. Known(request[u].order) /\ request[u].order \in Orders
      BY <1>2 DEF Returns, OnePlacement, Frame
    <3> QED BY <2>1, <2>3, <3>1
  <2>6. \A x \in Orders : CheckoutPoints[x] # 0 => PaidByPoints(x)'
    BY <1>3, <2>1, <2>2, SamePoints DEF Returns, PaidByPoints
  <2>7. \A x \in Orders : (PointsFor("earnReversal", x) \subseteq PointsFor("orderEarned", x))'
    BY <2>1, SamePoints DEF Returns
  <2> QED BY <2>4, <2>5, <2>6, <2>7 DEF Returns
<1>4. CASE points # 0
  <2>1. Goto(w, g) /\ ledger' = ledger /\ orderStatus' = orderStatus /\ pointsUsed' = pointsUsed
    BY <1>4 DEF PlaceOrder, accountVars
  <2>2. f \in Frame /\ f.order = o
    BY <1>0, IdleFrame DEF Frame, Idle
  <2>3. e \in Entry /\ e.type = "REDEEM" /\ e.ref = Ref("redeem", o) /\ e.points = points
    BY <1>0, <1>4, RefsAreRefs DEF Entry, Debit
  <2> HIDE DEF f, e
  <2>4. g \in Frame /\ g.pc = "lock" /\ g.entry = e /\ g.next = "idle" /\ g.order = o
    BY <2>2, <2>3 DEF Book, Frame, Labels
  <2> HIDE DEF g
  <2>5. FramePays(g)
    BY <1>1, <2>3, <2>4, RefsDiffer DEF FramePays, Booking
  <2>6. request'[w] = g /\ \A v \in Requests \ {w} : request'[v] = request[v]
    BY <2>1, <2>4, GotoFrame DEF Account, BalanceAgrees
  <2>7. \A x : Known(x)' <=> Known(x)
    BY <2>1 DEF Known
  <2>8. ASSUME NEW v \in Requests
        PROVE  FramePays(request[v])'
    <3>1. CASE v = w
      <4>1. \A x \in Orders : PointsFor("orderEarned", x)' = PointsFor("orderEarned", x)
        BY <2>1, SamePoints
      <4> QED BY <2>5, <2>6, <2>7, <3>1, <4>1 DEF FramePays, Booking
    <3>2. CASE v # w
      BY <1>2, <2>1, <2>6, <2>7, <3>2, FrameStaysPaid, SamePoints DEF Returns
    <3> QED BY <3>1, <3>2
  <2>9. OnePlacement'
    <3> SUFFICES ASSUME NEW u \in Requests, NEW v \in Requests, u # v,
                        request'[u].order = request'[v].order, request'[u].order # None
                 PROVE  Known(request'[u].order)
      BY <2>7 DEF OnePlacement
    <3>1. u # w /\ v # w
      BY <1>1, <2>4, <2>6
    <3> QED BY <2>6, <3>1 DEF Returns, OnePlacement
  <2>10. \A x \in Orders : CheckoutPoints[x] # 0 => PaidByPoints(x)'
    BY <2>1, <2>7, SamePoints DEF Returns, PaidByPoints
  <2>11. \A x \in Orders : (PointsFor("earnReversal", x) \subseteq PointsFor("orderEarned", x))'
    BY <2>1, SamePoints DEF Returns
  <2> QED BY <2>8, <2>9, <2>10, <2>11 DEF Returns
<1> QED BY <1>3, <1>4

(* A step of no request that leaves orders known and points alone keeps the   *)
(* invariant.                                                                 *)
LEMMA StillReturns ==
    ASSUME Account, Returns, UNCHANGED <<accountVars, pointsUsed, request>>,
           \A x \in Orders : Known(x)' <=> Known(x)
    PROVE  Returns'
<1>1. ledger' = ledger /\ request' = request /\ pointsUsed' = pointsUsed
  BY DEF accountVars
<1>2. \A v \in Requests : request[v] \in Frame /\ request[v].order \in Orders \cup {None}
  BY FrameOf DEF Frame
<1>3. \A v \in Requests : FramePays(request[v])'
  BY <1>1, <1>2, FrameStaysPaid, SamePoints DEF Returns
<1>4. OnePlacement'
  <2> SUFFICES ASSUME NEW u \in Requests, NEW v \in Requests, u # v,
                      request[u].order = request[v].order, request[u].order # None
               PROVE  Known(request[u].order)
    BY <1>1, <1>2 DEF OnePlacement
  <2> QED BY DEF Returns, OnePlacement
<1>5. \A o \in Orders : CheckoutPoints[o] # 0 => PaidByPoints(o)'
  BY <1>1, SamePoints DEF Returns, PaidByPoints
<1>6. \A o \in Orders : (PointsFor("earnReversal", o) \subseteq PointsFor("orderEarned", o))'
  BY <1>1, SamePoints DEF Returns
<1> QED BY <1>3, <1>4, <1>5, <1>6 DEF Returns

(* A reference found in the ledger is booked already: nothing is owed for it. *)
LEMMA FoundReturns ==
    ASSUME Account, Returns, NEW w \in Requests, At(w, "write"), request[w].found,
           Goto(w, [request[w] EXCEPT !.pc = request[w].next]),
           UNCHANGED <<accountVars, orderVars>>
    PROVE  Returns'
<1> DEFINE f == request[w]
           g == [f EXCEPT !.pc = f.next]
<1>1. f \in Frame /\ FramePays(f) /\ f.pc = "write" /\ FrameGood(f) /\ Booking(f)
  BY FrameOf DEF At, Returns, Booking
<1>2. g \in Frame /\ g.pc = f.next /\ g.order = f.order /\ g.pc \in {"idle", "updateOrder", "findEarn"}
  BY <1>1 DEF Frame, FrameGood
<1>3. f.entry.ref \in Booked /\ f.entry.points # 0
  BY <1>1 DEF FrameGood, Frame, Entry
<1>4. ASSUME f.order # None, ~Known(f.order)
      PROVE  FALSE
  <2>1. f.order \in Orders /\ f.entry.ref = Ref("redeem", f.order) /\ f.next = "idle"
    BY <1>1, <1>4 DEF Frame, FramePays
  <2>2. CheckoutPoints[f.order] # 0
    BY <1>1, <1>3, <2>1 DEF FramePays
  <2>3. PointsFor("redeem", f.order) # {}
    BY <1>3, <2>1 DEF Booked, PointsFor
  <2> QED BY <1>4, <2>1, <2>2, <2>3 DEF Returns, PaidByPoints
<1>5. f.next = "updateOrder" => CheckoutPoints[f.order] = 0
  BY <1>1 DEF FramePays
<1> HIDE DEF g
<1>6. FramePays(g)
  BY <1>2, <1>4, <1>5 DEF FramePays, Booking
<1>7. Goto(w, g)
  BY DEF g
<1> QED BY <1>2, <1>6, <1>7, QuietReturns, KnownStays

(* A booking adds its points to those of its reference, and to no other's.    *)
LEMMA PointsMove ==
    ASSUME Account, NEW f \in Frame, EntrySound(f.entry), Affordable(f), Move(f),
           f.opening = availablePoints, NEW kind, NEW o
    PROVE  PointsFor(kind, o)' = PointsFor(kind, o) \cup
               (IF f.entry.ref = Ref(kind, o) THEN {f.entry.points} ELSE {})
<1> DEFINE n == Len(ledger)
<1>1. /\ DOMAIN ledger = 1..n /\ n \in Nat
      /\ DOMAIN ledger' = 1..(n + 1)
      /\ ledger'[n + 1] = BookedRow(f)
      /\ \A i \in 1..n : ledger'[i] = [ledger[i] EXCEPT !.remaining = ledger'[i].remaining]
      /\ \A i \in 1..n : ledger[i] \in Row
  <2>1. TypeOK /\ ledger \in Seq(Row)
    BY DEF Account, BalanceAgrees, TypeOK
  <2>2. DOMAIN ledger = 1..n /\ n \in Nat /\ \A i \in 1..n : ledger[i] \in Row
    BY <2>1
  <2> QED BY <2>1, <2>2, MoveFacts
<1> HIDE DEF n
<1>2. \A i \in 1..n : ledger'[i].ref = ledger[i].ref /\ ledger'[i].points = ledger[i].points
  <2> TAKE i \in 1..n
  <2> QED BY <1>1 DEF Row
<1>3. ledger'[n + 1].ref = f.entry.ref /\ ledger'[n + 1].points = f.entry.points
  BY <1>1 DEF BookedRow
<1>4. 1..(n + 1) = (1..n) \cup {n + 1}
  BY <1>1
<1>5. {i \in DOMAIN ledger' : ledger'[i].ref = Ref(kind, o)} =
        {i \in DOMAIN ledger : ledger[i].ref = Ref(kind, o)}
          \cup (IF f.entry.ref = Ref(kind, o) THEN {n + 1} ELSE {})
  BY <1>1, <1>2, <1>3, <1>4
<1> QED BY <1>1, <1>2, <1>3, <1>5 DEF PointsFor

(* A booking: the redemption of a checkout makes its order known with just    *)
(* these points; whatever else is booked for an order was read from rows that *)
(* do not change.                                                             *)
LEMMA BookedReturns ==
    ASSUME Account, Returns, NEW w \in Requests, At(w, "write"),
           ~request[w].found, Affordable(request[w]), Move(request[w]),
           PlacedWith(request[w]),
           Goto(w, [request[w] EXCEPT !.pc = request[w].next])
    PROVE  Returns'
<1> SUFFICES ASSUME NEW f, f = request[w], NEW g, g = [f EXCEPT !.pc = f.next]
             PROVE  Returns'
  OBVIOUS
<1> DEFINE e == f.entry
           o == f.order
           Places == f.next = "idle" /\ o # None /\ e.type = "REDEEM"
<1>1. f \in Frame /\ FramePays(f) /\ f.pc = "write" /\ FrameGood(f) /\ Booking(f)
  BY FrameOf DEF At, Returns, Booking
<1>2. g \in Frame /\ g.pc = f.next /\ g.order = o /\ g.pc \in {"idle", "updateOrder", "findEarn"}
  BY <1>1 DEF Frame, FrameGood
<1>3. /\ \A kind, x : PointsFor(kind, x)' = PointsFor(kind, x) \cup
               (IF e.ref = Ref(kind, x) THEN {e.points} ELSE {})
      /\ e.points \in Nat \ {0} /\ o \in Orders \cup {None}
  BY <1>1, PointsMove DEF FrameGood, Frame, Entry
<1>4. /\ request'[w] = g /\ \A v \in Requests \ {w} : request'[v] = request[v]
      /\ \A v \in Requests : request[v] \in Frame
  BY <1>2, GotoFrame, FrameOf DEF Account, BalanceAgrees
<1>5. Places => /\ e.ref = Ref("redeem", o) /\ e.points = CheckoutPoints[o] /\ ~Known(o) /\ o \in Orders
                /\ Known(o)' /\ pointsUsed'[o] = e.points
                /\ \A x \in Orders \ {o} : /\ pointsUsed'[x] = pointsUsed[x]
                                           /\ Known(x)' <=> Known(x)
  <2>1. Places => e.ref = Ref("redeem", o) /\ e.points = CheckoutPoints[o] /\ ~Known(o) /\ o \in Orders
    BY <1>1, <1>3 DEF FramePays
  <2>2. Places => /\ orderStatus' = [orderStatus EXCEPT ![o] = "PLACED"]
                  /\ pointsUsed' = [pointsUsed EXCEPT ![o] = e.points]
    BY DEF PlacedWith
  <2>3. orderStatus \in [Orders -> Statuses] /\ pointsUsed \in [Orders -> Nat]
    BY DEF Account, BalanceAgrees, TypeOK
  <2> HIDE DEF Places
  <2> QED BY <2>1, <2>2, <2>3 DEF Known
<1>6. ~Places => pointsUsed' = pointsUsed /\ \A x : Known(x)' <=> Known(x)
  BY DEF PlacedWith, orderVars, Known
<1>7. \A x \in Orders : ~Places /\ e.ref = Ref("redeem", x) => CheckoutPoints[x] = 0
  BY <1>1, ConstantsAssumption DEF FramePays
<1>8. \A x \in Orders : Known(x) => Known(x)'
  BY <1>5, <1>6
<1>9. o # None => o \in Orders /\ Known(o)'
  <2>1. CASE Places
    BY <1>5, <2>1
  <2>2. CASE ~Places /\ o # None
    <3>1. Known(o)
      <4> SUFFICES ASSUME ~Known(o)
                   PROVE  FALSE
        OBVIOUS
      <4>1. o \in Orders /\ e.ref = Ref("redeem", o) /\ f.next = "idle"
        BY <1>1, <1>3, <2>2 DEF FramePays
      <4>2. e.type = "REDEEM"
        BY <1>1, <4>1 DEF FramePays
      <4> QED BY <2>2, <4>1, <4>2
    <3> QED BY <1>3, <1>6, <2>2, <3>1
  <2> QED BY <2>1, <2>2, <1>3
<1>10. f.next = "updateOrder" => CheckoutPoints[o] = 0
  BY <1>1 DEF FramePays
<1> HIDE DEF e, o, Places
<1>11. ASSUME NEW v \in Requests
       PROVE  FramePays(request[v])'
  <2>1. CASE v = w
    BY <1>2, <1>4, <1>9, <1>10, <2>1 DEF FramePays, Booking
  <2>2. CASE v # w
    <3>1. request[v].order \in Orders /\ ~Known(request[v].order) => ~Known(request[v].order)'
      <4> SUFFICES ASSUME request[v].order \in Orders, ~Known(request[v].order)
                   PROVE  ~Known(request[v].order)'
        BY <1>4
      <4>1. Places => request[v].order # o
        BY <1>5, <2>2, ConstantsAssumption DEF Returns, OnePlacement, o
      <4>2. request'[v].order = request[v].order
        BY <1>4, <2>2
      <4> QED BY <1>5, <1>6, <4>1, <4>2 DEF Known
    <3>2. \A x \in Orders : PointsFor("orderEarned", x) \subseteq PointsFor("orderEarned", x)'
      BY <1>3
    <3> QED BY <1>4, <1>8, <2>2, <3>1, <3>2, FrameStaysPaid DEF Returns
  <2> QED BY <2>1, <2>2
<1>12. OnePlacement'
  <2> SUFFICES ASSUME NEW u \in Requests, NEW v \in Requests, u # v,
                      request'[u].order = request'[v].order, request'[u].order # None
               PROVE  Known(request[u].order)'
    BY DEF OnePlacement
  <2>1. CASE u = w \/ v = w
    <3>1. request'[u].order = o
      BY <1>2, <1>4, <2>1
    <3> QED BY <1>9, <3>1 DEF Known
  <2>2. CASE u # w /\ v # w
    <3>1. request[u].order = request[v].order /\ request[u].order \in Orders
      BY <1>4, <2>2 DEF Frame
    <3>2. Known(request[u].order)
      BY <3>1, ConstantsAssumption DEF Returns, OnePlacement
    <3> QED BY <1>4, <1>8, <2>2, <3>1, <3>2 DEF Known
  <2> QED BY <2>1, <2>2
<1>13. ASSUME NEW x \in Orders, CheckoutPoints[x] # 0
       PROVE  PaidByPoints(x)'
  <2>1. PaidByPoints(x)
    BY <1>13 DEF Returns
  <2>2. CASE Places /\ x = o
    <3>1. PointsFor("redeem", x)' = PointsFor("redeem", x) \cup {e.points}
      BY <1>3, <1>5, <2>2
    <3>2. PointsFor("refundRestore", x)' = PointsFor("refundRestore", x)
      BY <1>3, <1>5, <2>2, RefsDiffer
    <3> QED BY <1>5, <2>1, <2>2, <3>1, <3>2 DEF PaidByPoints
  <2>3. CASE ~(Places /\ x = o)
    <3>1. pointsUsed'[x] = pointsUsed[x] /\ (Known(x)' <=> Known(x))
      BY <1>5, <1>6, <2>3
    <3>2. PointsFor("redeem", x)' = PointsFor("redeem", x)
      BY <1>3, <1>5, <1>7, <1>13, <2>3, RefsDiffer
    <3>3. CASE e.ref = Ref("refundRestore", x)
      <4>1. e.points = CheckoutPoints[x] /\ Known(x)
        BY <1>1, <1>13, <3>3 DEF FramePays, e
      <4>2. PointsFor("refundRestore", x)' = PointsFor("refundRestore", x) \cup {CheckoutPoints[x]}
        BY <1>3, <3>3, <4>1
      <4> QED BY <2>1, <3>1, <3>2, <4>1, <4>2 DEF PaidByPoints
    <3>4. CASE e.ref # Ref("refundRestore", x)
      <4>1. PointsFor("refundRestore", x)' = PointsFor("refundRestore", x)
        BY <1>3, <3>4
      <4> QED BY <2>1, <3>1, <3>2, <4>1 DEF PaidByPoints
    <3> QED BY <3>3, <3>4
  <2> QED BY <2>2, <2>3
<1>14. ASSUME NEW x \in Orders
       PROVE  (PointsFor("earnReversal", x) \subseteq PointsFor("orderEarned", x))'
  <2>1. PointsFor("earnReversal", x) \subseteq PointsFor("orderEarned", x)
    BY DEF Returns
  <2>2. e.ref = Ref("earnReversal", x) => e.points \in PointsFor("orderEarned", x)
    BY <1>1 DEF FramePays, e
  <2> QED BY <1>3, <2>1, <2>2
<1> QED BY <1>11, <1>12, <1>13, <1>14 DEF Returns

(* The second invariant holds of a new account ...                            *)
LEMMA InitReturns == Init => Returns
<1> SUFFICES ASSUME Init
             PROVE  Returns
  OBVIOUS
<1>1. \A kind, o : PointsFor(kind, o) = {}
  BY DEF Init, PointsFor
<1>2. \A w \in Requests : request[w] = Idle
  BY DEF Init
<1>3. \A w \in Requests : FramePays(request[w])
  BY <1>2, IdlePays
<1>4. OnePlacement
  BY <1>2, IdlePays DEF OnePlacement
<1>5. \A o \in Orders : ~Known(o)
  BY DEF Init, Known
<1> QED BY <1>1, <1>3, <1>4, <1>5 DEF Returns, PaidByPoints

(* ... and every step keeps it.                                               *)
LEMMA NextReturns == Account /\ Returns /\ [Next]_vars => Returns'
<1> SUFFICES ASSUME Account, Returns, [Next]_vars
             PROVE  Returns'
  OBVIOUS
<1>1. CASE UNCHANGED vars
  BY <1>1, StillReturns, KnownStays DEF vars
<1>2. ASSUME NEW w \in Requests, WriteEntry(w)
      PROVE  Returns'
  <2>1. At(w, "write")
    BY <1>2 DEF WriteEntry
  <2>2. CASE /\ request[w].found
             /\ Goto(w, [request[w] EXCEPT !.pc = request[w].next])
             /\ UNCHANGED <<accountVars, orderVars>>
    BY <2>1, <2>2, FoundReturns
  <2>3. CASE /\ ~request[w].found /\ Affordable(request[w])
             /\ Move(request[w]) /\ PlacedWith(request[w])
             /\ Goto(w, [request[w] EXCEPT !.pc = request[w].next])
    BY <2>1, <2>3, BookedReturns
  <2>4. CASE Goto(w, Idle) /\ UNCHANGED <<accountVars, orderVars>>
    BY <2>4, StopReturns
  <2> QED BY <1>2, <2>2, <2>3, <2>4 DEF WriteEntry
<1>3. ASSUME NEW w \in Requests, Abort(w) \/ Crash(w)
      PROVE  Returns'
  BY <1>3, StopReturns DEF Abort, Crash
<1>4. ASSUME NEW w \in Requests,
             \/ LockAccount(w) \/ RedeemBalance(w) \/ UpdateOrder(w)
             \/ RefundRedemption(w) \/ ReverseEarnedPoints(w)
      PROVE  Returns'
  BY <1>4, LockReturns, RedeemBalanceReturns, UpdateReturns, RefundReturns, ReverseReturns
<1>5. ASSUME NEW w \in Requests,
             \/ CreditWelcomeBonus(w)
             \/ \E n \in AdminPoints : AdjustPoints(w, n) \/ RewardPoints(w, n) \/ RedeemPoints(w, n)
      PROVE  Returns'
  BY <1>5, BeginReturns
<1>6. ASSUME NEW w \in Requests, NEW o \in Orders,
             \/ PlaceOrder(w, o) \/ EarnForDeliveredOrder(w, o) \/ Cancel(w, o)
             \/ \E n \in TapPoints : RedeemForOrder(w, o, n)
      PROVE  Returns'
  BY <1>6, PlaceReturns, EarnReturns, CancelReturns, RedeemReturns
<1>7. ASSUME NEW o \in Orders, Deliver(o)
      PROVE  Returns'
  <2>1. \A x \in Orders : Known(x)' <=> Known(x)
    BY <1>7 DEF Deliver, Known, Account, BalanceAgrees, TypeOK
  <2> QED BY <1>7, <2>1, StillReturns DEF Deliver
<1>8. CASE Lapse
  BY <1>8, StillReturns, KnownStays DEF Lapse
<1> QED BY <1>1, <1>2, <1>3, <1>4, <1>5, <1>6, <1>7, <1>8 DEF Next

(* Returns is an invariant: what the requests at work carry for an order, and *)
(* what the ledger holds for it, are the points its checkout took.            *)
THEOREM ReturnsInvariant == Spec => []Returns
  BY InitReturns, NextReturns, AccountInvariant, PTL DEF Spec

(* Cancelling returns exactly the points that placing the order took, and     *)
(* takes back exactly those that delivering it gave, although both are read   *)
(* long before they are booked (refundRedemptionForCancelledOrder).           *)
THEOREM PointsComeBack == Spec => []ReturnsWhatWasTaken
<1>1. Returns => ReturnsWhatWasTaken
  <2> SUFFICES ASSUME Returns, NEW o \in Orders, CheckoutPoints[o] > 0
               PROVE  PointsFor("refundRestore", o) \subseteq PointsFor("redeem", o)
    BY DEF Returns, ReturnsWhatWasTaken
  <2>1. CheckoutPoints[o] # 0
    BY ConstantsAssumption
  <2> QED BY <2>1 DEF Returns, PaidByPoints
<1> QED BY <1>1, ReturnsInvariant, PTL
====
