---------------------------- MODULE MC_HubOrders ----------------------------
(***************************************************************************)
(* Instances of HubOrders: one driver and irregular calls, or all drivers  *)
(* and a hub where everybody keeps to the regular course.                  *)
(***************************************************************************)
EXTENDS HubOrders, TLC

VARIABLE hired   \* the drivers of the behaviour

HiredInit == Init /\ hired \in {Drivers} \cup {{d} : d \in Drivers}

\* Nobody but the drivers hired is assigned, and only a lone one sees irregular calls.
HiredNext ==
    /\ Next
    /\ \A o \in Orders : {order'[o].driver, dispatch'[o].driver} \subseteq hired \cup {None}
    /\ \A w \in Requests : request'[w].driver \in hired \cup {None}
    /\ hired = Drivers => irregularCalls' = 0
    /\ UNCHANGED hired

HiredSpec == HiredInit /\ [][HiredNext]_<<vars, hired>>

Alike == Permutations(Requests) \cup Permutations(Orders) \cup Permutations(Drivers)
=============================================================================
