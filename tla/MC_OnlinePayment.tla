-------------------------- MODULE MC_OnlinePayment --------------------------
(* Constants for the runs of OnlinePayment. *)
EXTENDS OnlinePayment, TLC

OneRow == [m \in Attempts |-> 1]
RowEach == [m \in Attempts |-> IF m > MaxRows THEN MaxRows ELSE m]

NoRace == Permutations(Requests)
=============================================================================
