-------------------------- MODULE MC_LoyaltyLedger --------------------------
(* Constants for the run of LoyaltyLedger: order 1 is placed with points.     *)
EXTENDS LoyaltyLedger, TLC

PointsAtCheckout == [o \in Orders |-> IF o = 1 THEN 2 ELSE 0]
OneEach == [o \in Orders |-> 1]

AnyRequest == Permutations(Requests)
=============================================================================
