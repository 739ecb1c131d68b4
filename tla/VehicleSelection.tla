-------------------------- MODULE VehicleSelection --------------------------
(***************************************************************************)
(* The vehicle for a cart: the load is summed up line by line, and the     *)
(* pricing and the estimate of the arrival each choose a vehicle for it    *)
(* (src/modules/delivery/engine: delivery-load.logic.ts,                   *)
(* delivery-vehicle-selection.logic.ts and its service).                   *)
(*                                                                         *)
(* A choice reads the settings of the engine and then the active vehicles; *)
(* administrators change both in between. Vehicles of the same priority    *)
(* come from the database in any order.                                    *)
(*                                                                         *)
(* Left out: fractions of units and of kilograms; the guess of weights and *)
(* kinds from names and units, which gives a product what it has here; the *)
(* limit of utilisation, which gives a vehicle the capacity it has here;   *)
(* the categories a vehicle is kept to, which act as its kinds do; the     *)
(* limits of volume and quantity for a bulk quote, which act as bulkKg.    *)
(***************************************************************************)
EXTENDS Integers, Sequences, FiniteSets

CONSTANTS
    None,
    Ranked,        \* vehicle types in the order of priorityIndex
    TierMax,       \* the largest quantity for each of them, as far as the tiers go
    Mixer,         \* RMC_TRANSIT_MIXER
    Product,       \* each product: [weight, volume, kind, allowed, preferred, transportable]
    ProfileOf,     \* the vehicles of each kind of material, or None
    Carts,         \* sequences of [product, quantity]
    Fleets,        \* vehicle rows by type that a behaviour may begin with
    Rows,          \* rows that updateVehicleConfig may write
    Engines,       \* settings: [mode, fallback, bulkKg]
    MaxEdits       \* bound on the edits of administrators

VARIABLES
    cart, line,    \* the cart, and the line the sum has come to
    load,          \* the sum so far
    fleet, engine, \* the rows of vehicles and of settings
    edits,
    choice         \* the frame of the two calculations

vars == <<cart, line, load, fleet, engine, edits, choice>>

VehicleType == {Ranked[i] : i \in 1..Len(Ranked)}

\* Lists that restrict to nothing are None, as they are in the code.
VehicleFits(v) ==
    /\ {v.weight, v.volume, v.quantity} \subseteq Nat \cup {None}
    /\ v.priority \in Nat
    /\ {v.active, v.rmc} \subseteq BOOLEAN
    /\ v.kinds # {}
FleetFits(f) == DOMAIN f = VehicleType /\ \A t \in VehicleType : VehicleFits(f[t])
ProductFits(p) ==
    /\ p.weight \in Nat /\ p.volume \in Nat /\ p.transportable \in BOOLEAN
    /\ p.kind \in DOMAIN ProfileOf \cup {None, "RMC"}
    /\ p.allowed # None => p.allowed \in SUBSET VehicleType \ {{}}
    /\ p.preferred # None => p.preferred \in VehicleType

ConstantsFit ==
    /\ Ranked \in Seq(VehicleType) /\ TierMax \in Seq(Nat) /\ Len(TierMax) < Len(Ranked)
    /\ Mixer \in VehicleType /\ None # "RMC" /\ MaxEdits \in Nat
    /\ \A S \in SUBSET VehicleType : S # None
    /\ \A k \in DOMAIN ProfileOf : ProfileOf[k] \in SUBSET VehicleType \ {{}}
    /\ \A p \in DOMAIN Product : ProductFits(Product[p])
    /\ \A c \in Carts : c \in Seq([product : DOMAIN Product, quantity : Nat \ {0}])
    /\ \A f \in Fleets : FleetFits(f)
    /\ \A v \in Rows : VehicleFits(v)
    /\ Engines \subseteq [mode : {"AUTO_SPLIT", "BULK_QUOTE", "REJECT"}, fallback : BOOLEAN,
                          bulkKg : Nat \cup {None}]

Rank(t) == CHOOSE i \in 1..Len(Ranked) : Ranked[i] = t
Calculations == {"price", "estimate"}
Better(a, b) == IF a >= b THEN a ELSE b
Ceiling(a, b) == (a + b - 1) \div b

-----------------------------------------------------------------------------
NoLoad == [ok |-> TRUE, weight |-> 0, volume |-> 0, quantity |-> 0, weighed |-> FALSE,
           measured |-> FALSE, allowed |-> None, preferred |-> None, kinds |-> {},
           missing |-> FALSE]
Unavailable == [mode |-> "UNAVAILABLE", type |-> None, count |-> 0]
Waiting == [pc |-> "engine", engine |-> None, fleet |-> None, result |-> Unavailable]

TypeOK ==
    /\ line \in 1..(Len(cart) + 1)
    /\ load.weight \in Nat /\ load.volume \in Nat /\ load.quantity \in Nat
    /\ load.allowed = None \/ load.allowed \subseteq VehicleType
    /\ edits \in 0..MaxEdits
    /\ \A c \in Calculations : choice[c].pc \in {"engine", "fleet", "done"}

Init ==
    /\ cart \in Carts
    /\ line = 1
    /\ load = NoLoad
    /\ fleet \in Fleets
    /\ engine \in Engines
    /\ edits = 0
    /\ choice = [c \in Calculations |-> Waiting]

-----------------------------------------------------------------------------
(* The load. *)

\* resolveProductVehicleRestrictions
Restriction(p) ==
    IF p.kind = "RMC" THEN {Mixer}
    ELSE IF p.allowed # None THEN p.allowed
    ELSE IF p.kind = None THEN None
    ELSE ProfileOf[p.kind]
Preference(p) == IF p.kind = "RMC" THEN Mixer ELSE p.preferred

IntersectVehicleTypes(a, b) ==
    IF a = None THEN b ELSE IF b = None THEN a ELSE a \cap b

\* One turn of the loop of calculateOrderLoadPure.
AddLine ==
    /\ line <= Len(cart) /\ load.ok
    /\ LET p == Product[cart[line].product]
           n == cart[line].quantity
       IN load' =
            IF ~p.transportable THEN [NoLoad EXCEPT !.ok = FALSE]
            ELSE [ok |-> TRUE,
                  weight |-> load.weight + p.weight * n,
                  volume |-> load.volume + p.volume * n,
                  quantity |-> load.quantity + n,
                  weighed |-> load.weighed \/ p.weight > 0,
                  measured |-> load.measured \/ p.volume > 0,
                  allowed |-> IntersectVehicleTypes(load.allowed, Restriction(p)),
                  preferred |-> IF load.preferred = None THEN Preference(p) ELSE load.preferred,
                  kinds |-> load.kinds \cup ({p.kind} \ {None}),
                  missing |-> load.missing \/ (p.weight = 0 /\ p.volume = 0)]
    /\ line' = line + 1
    /\ UNCHANGED <<cart, fleet, engine, edits, choice>>

Loaded == line > Len(cart) \/ ~load.ok

-----------------------------------------------------------------------------
(* The choice: selectVehicleForLoad. *)

Configured(f) ==
    {t \in VehicleType :
        f[t].active /\ {f[t].weight, f[t].volume, f[t].quantity} # {None}}

(* Mutant: a load that is weighed is not measured. *)
MutantCanCarry(v) ==
    IF load.weighed THEN v.weight # None /\ load.weight <= v.weight
    ELSE load.measured => v.volume # None /\ load.volume <= v.volume

\* Asked of loads that have weight or volume only.
CanCarry(v) ==
    /\ load.weighed => v.weight # None /\ load.weight <= v.weight
    /\ load.measured => v.volume # None /\ load.volume <= v.volume

PassesProductRestrictions(t, v) ==
    /\ load.allowed # None => t \in load.allowed
    /\ "RMC" \in load.kinds => v.rmc \/ t = Mixer
    /\ v.kinds # None => load.kinds \subseteq v.kinds

RequiredVehicleCount(v) ==
    LET trips(used, total, usable) ==
            IF used /\ usable # None /\ usable # 0 THEN Ceiling(total, usable) ELSE 0
    IN Better(trips(load.weighed, load.weight, v.weight),
              trips(load.measured, load.volume, v.volume))

ResolveDeliveryVehicleForQuantity ==
    LET tiers == {i \in 1..Len(TierMax) : load.quantity <= TierMax[i]}
    IN IF tiers = {} THEN Ranked[Len(TierMax) + 1]
       ELSE Ranked[CHOOSE i \in tiers : \A j \in tiers : i <= j]

ClampToAllowed(t) ==
    IF load.allowed = None \/ t \in load.allowed THEN t
    ELSE LET above == {u \in load.allowed : Rank(u) >= Rank(t)}
         IN IF above # {} THEN CHOOSE u \in above : \A w \in above : Rank(u) <= Rank(w)
            ELSE CHOOSE u \in load.allowed : \A w \in load.allowed : Rank(w) <= Rank(u)

Fallback(e) ==
    LET tier == ClampToAllowed(ResolveDeliveryVehicleForQuantity)
        liked == /\ load.preferred # None
                 /\ load.allowed = None \/ load.preferred \in load.allowed
                 /\ Rank(load.preferred) >= Rank(tier)
    IN IF load.allowed = None /\ (load.missing \/ ~e.fallback) THEN Unavailable
       ELSE [mode |-> "QTY_TIER_FALLBACK", type |-> IF liked THEN load.preferred ELSE tier,
             count |-> 1]

First(f, S) == {t \in S : \A u \in S : f[t].priority <= f[u].priority}
Last(f, S) == {t \in S : \A u \in S : f[u].priority <= f[t].priority}

(* The load is too much for any one vehicle. *)
Trips(t, n, e) ==
    IF n <= 1 THEN Unavailable
    ELSE CASE e.mode = "AUTO_SPLIT" -> [mode |-> "MULTI_VEHICLE", type |-> t, count |-> n]
           [] e.mode = "REJECT" -> [Unavailable EXCEPT !.count = n]
           [] OTHER -> [mode |-> "BULK_QUOTE", type |-> t, count |-> n]

SelectVehicleForLoad(f, e) ==
    LET allowed == {t \in Configured(f) : PassesProductRestrictions(t, f[t])}
        eligible == {t \in allowed : CanCarry(f[t])}
    IN IF e.bulkKg # None /\ load.weight >= e.bulkKg
         THEN {[mode |-> "BULK_QUOTE", type |-> None, count |-> 0]}
       ELSE IF load.allowed = {} THEN {Unavailable}
       ELSE IF Configured(f) = {} \/ ~(load.weighed \/ load.measured) THEN {Fallback(e)}
       ELSE IF eligible # {}
         THEN {[mode |-> "CAPACITY", type |-> t, count |-> 1] : t \in First(f, eligible)}
       ELSE IF allowed = {} THEN {Unavailable}
       ELSE {Trips(t, RequiredVehicleCount(f[t]), e) : t \in Last(f, allowed)}

Ok(s) == s.mode \in {"CAPACITY", "MULTI_VEHICLE", "QTY_TIER_FALLBACK"}

GetEngineConfig(c) ==
    /\ Loaded
    /\ choice[c].pc = "engine"
    /\ choice' = [choice EXCEPT ![c] =
                    IF load.ok THEN [@ EXCEPT !.pc = "fleet", !.engine = engine]
                    ELSE [@ EXCEPT !.pc = "done"]]
    /\ UNCHANGED <<cart, line, load, fleet, engine, edits>>

(* The estimate asks for a split first (selectVehicleForEstimate).           *)
ListVehicleConfigs(c) ==
    LET e == choice[c].engine
        asked == IF c = "price" THEN e ELSE [e EXCEPT !.mode = "AUTO_SPLIT"]
    IN
    /\ choice[c].pc = "fleet"
    /\ \E s \in SelectVehicleForLoad(fleet, asked), again \in SelectVehicleForLoad(fleet, e) :
          choice' = [choice EXCEPT ![c] =
                        [@ EXCEPT !.pc = "done", !.fleet = fleet,
                                  !.result = IF Ok(s) \/ c = "price" THEN s ELSE again]]
    /\ UNCHANGED <<cart, line, load, fleet, engine, edits>>

-----------------------------------------------------------------------------
UpdateVehicleConfig(t) ==
    /\ edits < MaxEdits
    /\ edits' = edits + 1
    /\ \E row \in Rows : fleet' = [fleet EXCEPT ![t] = row]
    /\ UNCHANGED <<cart, line, load, engine, choice>>

UpdateEngineConfig ==
    /\ edits < MaxEdits
    /\ edits' = edits + 1
    /\ engine' \in Engines
    /\ UNCHANGED <<cart, line, load, fleet, choice>>

Next ==
    \/ AddLine
    \/ \E c \in Calculations : GetEngineConfig(c) \/ ListVehicleConfigs(c)
    \/ \E t \in VehicleType : UpdateVehicleConfig(t)
    \/ UpdateEngineConfig

-----------------------------------------------------------------------------
Sum(amount(_)) ==
    LET upTo[i \in 0..Len(cart)] ==
            IF i = 0 THEN 0
            ELSE upTo[i - 1] + amount(Product[cart[i].product]) * cart[i].quantity
    IN upTo[Len(cart)]
TotalWeight == Sum(LAMBDA p : p.weight)
TotalVolume == Sum(LAMBDA p : p.volume)

Permits(t) ==
    \A i \in 1..Len(cart) :
        LET r == Restriction(Product[cart[i].product]) IN r # None => t \in r
Suits(t, v) ==
    /\ Permits(t)
    /\ v.kinds # None =>
          \A i \in 1..Len(cart) : Product[cart[i].product].kind \in v.kinds \cup {None}

\* n trips take the whole load, in the dimensions in which the vehicle has a
\* capacity: one of nothing, which an administrator may set, counts as none.
Takes(n, v) ==
    /\ TotalWeight > 0 /\ v.weight \notin {None, 0} => TotalWeight <= n * v.weight
    /\ TotalVolume > 0 /\ v.volume \notin {None, 0} => TotalVolume <= n * v.volume
KnownToTake(v) ==
    /\ Takes(1, v)
    /\ TotalWeight > 0 => v.weight \notin {None, 0}
    /\ TotalVolume > 0 => v.volume \notin {None, 0}

(* Whatever is chosen may carry every line of the cart; a single vehicle     *)
(* carries the whole load in weight and in volume, and no active vehicle of  *)
(* lower priority would have; several trips do it together, and one trip     *)
(* fewer would not.                                                          *)
Sound(c) ==
    LET s == choice[c].result
        f == choice[c].fleet
    IN Ok(s) =>
        /\ Permits(s.type)
        /\ s.mode # "QTY_TIER_FALLBACK" => f[s.type].active /\ Suits(s.type, f[s.type])
        /\ s.mode = "CAPACITY" =>
              /\ KnownToTake(f[s.type])
              /\ \A t \in VehicleType :
                    f[t].active /\ f[t].priority < f[s.type].priority
                    => ~(Suits(t, f[t]) /\ KnownToTake(f[t]))
        /\ s.mode = "MULTI_VEHICLE" =>
              Takes(s.count, f[s.type]) /\ ~Takes(s.count - 1, f[s.type])

Distinct(f) ==
    \A t, u \in Configured(f) : t # u => f[t].priority # f[u].priority

(* The vehicle that is priced and the vehicle whose arrival is estimated are *)
(* sound, and the same one in the same number if no administrator changed    *)
(* the settings or the vehicles in between and their priorities differ       *)
(* (selectVehicle, selectVehicleForEstimate).                                *)
SelectedCarries ==
    /\ TypeOK
    /\ \A c \in Calculations : choice[c].pc = "done" => Sound(c)
    /\ LET p == choice["price"]
           e == choice["estimate"]
       IN /\ p.pc = "done" /\ e.pc = "done"
          /\ p.engine = e.engine /\ p.fleet = e.fleet
          /\ p.fleet # None /\ Distinct(p.fleet)
          /\ p.result.type # None
          => e.result.type = p.result.type /\ e.result.count = p.result.count
=============================================================================
