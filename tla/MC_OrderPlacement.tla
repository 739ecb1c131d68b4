------------------------- MODULE MC_OrderPlacement -------------------------
(* Constants for the runs of OrderPlacement: two customers, Asha with two       *)
(* placements that share an idempotency key, the first to be paid online.    *)
EXTENDS OrderPlacement, TLC

CONSTANTS Asha, Binu, Cement, Sand

OrderCustomer == [o \in Orders |-> IF o <= 2 THEN Asha ELSE Binu]

\* Binu takes what is left of Cement, and Sand, whose variant keeps no count.
Carts == [u \in Customers |-> IF u = Asha
                             THEN [x \in Products |-> IF x = Cement THEN 1 ELSE 0]
                             ELSE [x \in Products |-> IF x = Cement THEN 2 ELSE 1]]

Keys == [o \in Orders |-> IF o <= 2 THEN "key" ELSE None]

TwoOfEach == [x \in Products |-> 2]
CountedCement == [x \in Products |-> IF x = Cement THEN 3 ELSE 0]

AnyRequest == Permutations(Requests)
=============================================================================
